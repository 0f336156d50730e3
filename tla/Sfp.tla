-------------------------------- MODULE Sfp --------------------------------
(***************************************************************************)
(* The platform Sfp object of one front-panel cage of the AS9817-32O       *)
(* (sonic_platform/sfp.py), together with the hardware it reads and        *)
(* writes: the module in the cage, its EEPROM, and the FPGA's per-port     *)
(* reset, low-power and TX-disable pins.                                   *)
(*                                                                         *)
(* The object's own state is the cached form factor sfp_type, set once by  *)
(* the constructor, and the transceiver-API object the base class caches   *)
(* (xcvr_api).  The hardware changes independently of the object: modules  *)
(* are plugged and pulled, EEPROMs become readable late, temperatures      *)
(* move.  reset() sleeps between its two pin writes and                    *)
(* get_error_description() reads the module twice, so both are two steps   *)
(* that other calls and hardware changes may fall between.                 *)
(***************************************************************************)
EXTENDS Naturals, Sequences, SequencesExt

CONSTANTS
    Ports,      \* port_num values (sfp_index + 1) of the objects checked
    CageIds,    \* CageIds[p]: identifier bytes (EEPROM byte 0) of modules port p takes
    NoValue,    \* Python None
    Raised      \* the call raised an exception


\* Sfp.PORT_START .. Sfp.PORT_END and the class's identifier tables.
PORT_START == 1
PORT_END == 34
SFP_TYPE_CODE_LIST == {3, 11}
QSFP_TYPE_CODE_LIST == {12, 13, 17, 225}
QSFP_DD_TYPE_CODE_LIST == {24, 30}
OSFP_TYPE_CODE_LIST == {25}

ASSUME /\ Ports \subseteq PORT_START..PORT_END /\ Ports # {}
       /\ \A p \in Ports : CageIds[p] \subseteq 0..255

FormFactors == {"SFP", "QSFP", "QSFP_DD", "OSFP"}

\* The ports whose lpmode and reset go through the FPGA or the CMIS API;
\* ports 33 and 34 are the two SFP28 cages.
LastOsfpPort == 32

(***************************************************************************)
(* Error descriptions.  A Python string built from messages and "|" is a   *)
(* sequence of segments, the text between two "|", each a sequence of     *)
(* messages.  "" is one empty segment and "|" is two.                      *)
(***************************************************************************)
EmptyStr == << << >> >>
Bar == << << >>, << >> >>
Str(m) == << <<m>> >>
StrCat(x, y) == Front(x) \o << Last(x) \o Head(y) >> \o Tail(y)
MessagesOf(s) == ToSet(FlattenSeq(s))

\* The keys of SfpBase.SFP_ERROR_BIT_TO_DESCRIPTION_DICT in iteration order,
\* and the two error bits this class sets.
ErrorBitOrder == <<"BLOCKING", "POWER_BUDGET", "I2C_STUCK", "BAD_EEPROM",
                   "UNSUPPORTED_CABLE", "HIGH_TEMP", "BAD_CABLE">>
BitDescription == [b \in ToSet(ErrorBitOrder) |->
                     IF b = "HIGH_TEMP" THEN "HighTemp" ELSE "BadEeprom"]

\* The module's thermal readings, get_temperature() against the
\* temphighalarm of get_transceiver_threshold_info(): no temperature
\* (None), no threshold dict (None), an "N/A" alarm, or a float temperature
\* below ("Cool") or at/above ("Hot") a float alarm.
Thermals == {"NoTemp", "NoThresholds", "NoAlarm", "Cool", "Hot"}

VARIABLES
    port_num,       \* self.port_num, fixed by the constructor
    sfp_type,       \* self.sfp_type, the cached form factor
    xcvr_api,       \* the base class's cached transceiver API: "Api" or NoValue
    present,        \* the FPGA's module_present_<n>
    id_byte,        \* EEPROM byte 0 of the module in the cage
    eeprom_ready,   \* the module's EEPROM answers reads
    checksum_bad,   \* get_checksum_error() returns a non-empty string
    thermal,        \* the module's temperature against its alarm threshold
    reset_pin,      \* the FPGA's module_reset_<n>
    lp_pin,         \* the FPGA's module_lp_mode_<n>
    tx_pin,         \* the FPGA's module_tx_disable_<n>
    mod_lp,         \* low-power state the module's API reports
    mod_tx,         \* TX-disable state set through the module's API
    reset_pc,       \* "idle" or "asserted": reset() sleeping between writes
    desc_pc,        \* "idle" or "inner": get_error_description() in progress
    optoe_state,    \* its optoe_state, kept across the two steps
    result          \* the last call that returned: [op, val, obs]

hw == <<present, id_byte, eeprom_ready, checksum_bad, thermal>>
pins == <<reset_pin, lp_pin, tx_pin, mod_lp, mod_tx>>
vars == <<port_num, sfp_type, xcvr_api, hw, pins, reset_pc, desc_pc,
          optoe_state, result>>

(***************************************************************************)
(* Reads of the hardware the methods share.                                *)
(***************************************************************************)

\* get_presence(): module_present_<n> read as an integer.
GetPresence == present

\* A module answers on I2C once its EEPROM is ready, and not while the
\* FPGA holds it in reset.
ModuleAnswers == present /\ eeprom_ready /\ reset_pin = 0

\* read_eeprom(0, 1): the identifier byte, or None when the EEPROM is silent.
ReadId == IF ModuleAnswers THEN id_byte ELSE NoValue

\* Mutation: an unknown identifier byte stores the UNKNOWN_SFP_TYPE_ID
\* status in sfp_type instead of returning it.
UpdateSfpTypeStoringStatus(current) ==
    LET b == ReadId IN
    IF ~GetPresence \/ b = NoValue THEN current
    ELSE IF b \in SFP_TYPE_CODE_LIST THEN "SFP"
    ELSE IF b \in QSFP_TYPE_CODE_LIST THEN "QSFP"
    ELSE IF b \in QSFP_DD_TYPE_CODE_LIST THEN "QSFP_DD"
    ELSE IF b \in OSFP_TYPE_CODE_LIST THEN "OSFP"
    ELSE "unknow sfp ID"

\* update_sfp_type(): the form factor the identifier byte names; an unknown
\* byte or a silent EEPROM leaves the current type.
UpdateSfpType(current) ==
    LET b == ReadId IN
    IF ~GetPresence \/ b = NoValue THEN current
    ELSE IF b \in SFP_TYPE_CODE_LIST THEN "SFP"
    ELSE IF b \in QSFP_TYPE_CODE_LIST THEN "QSFP"
    ELSE IF b \in QSFP_DD_TYPE_CODE_LIST THEN "QSFP_DD"
    ELSE IF b \in OSFP_TYPE_CODE_LIST THEN "OSFP"
    ELSE current

\* The transceiver API factory builds an API from a readable identifier it
\* knows; get_xcvr_api() returns the cached one and refreshes only when
\* the cache holds None.
FreshXcvrApi ==
    IF ReadId \in SFP_TYPE_CODE_LIST \cup QSFP_TYPE_CODE_LIST
                  \cup QSFP_DD_TYPE_CODE_LIST \cup OSFP_TYPE_CODE_LIST
    THEN "Api" ELSE NoValue
GetXcvrApi == IF xcvr_api # NoValue THEN xcvr_api ELSE FreshXcvrApi

CmisIds == QSFP_DD_TYPE_CODE_LIST \cup OSFP_TYPE_CODE_LIST
CmisTypes == {"QSFP_DD", "OSFP"}

\* get_temperature() and get_transceiver_threshold_info() read the EEPROM
\* and give None when it does not answer.
ThermalRead == IF ModuleAnswers THEN thermal ELSE "NoTemp"

\* validate_temperature(): FALSE flags the module as too hot.
ValidateTemperature ==
    IF ThermalRead \in {"NoTemp", "NoThresholds"} THEN FALSE
    ELSE IF ThermalRead = "NoAlarm" THEN TRUE
    ELSE ThermalRead = "Cool"

\* What the hardware really was when the inner status was read.
Observed == [present |-> present, checksum_bad |-> checksum_bad,
             hot |-> ModuleAnswers /\ thermal = "Hot"]

Return(op, val) == result' = [op |-> op, val |-> val, obs |-> NoValue]

\* The __get_error_description() rendering loop over the dict's keys: a
\* key whose bit is set adds its message, and "|" goes before every message
\* after the first -- if cnt has counted one.
RenderStep(errStat, acc, key) ==
    IF key \notin errStat THEN acc
    ELSE LET d == IF acc.cnt > 0 THEN StrCat(acc.desc, Bar) ELSE acc.desc
             c == IF acc.cnt > 0 THEN acc.cnt + 1 ELSE acc.cnt
             m == IF key = "BAD_EEPROM" THEN "ChecksumErr" ELSE BitDescription[key]
         IN [desc |-> StrCat(d, Str(m)), cnt |-> c]
Render(errStat) ==
    LET step(acc, key) == RenderStep(errStat, acc, key)
    IN FoldLeft(step, [desc |-> EmptyStr, cnt |-> 0], ErrorBitOrder).desc

\* err_stat of __get_error_description(): the inserted bit, ORed with the
\* bad-EEPROM bit and the high-temperature bit.
ErrStat ==
    {"INSERTED"} \cup (IF checksum_bad THEN {"BAD_EEPROM"} ELSE {})
                 \cup (IF ~ValidateTemperature THEN {"HIGH_TEMP"} ELSE {})

\* __get_error_description().
InnerErrorDescription ==
    IF ~GetPresence THEN Str("Unplugged")
    ELSE IF ErrStat = {"INSERTED"} THEN Str("OK")
    ELSE Render(ErrStat)

\* Mutation: the optoe state replaces the vendor status instead of being
\* joined with it.
CombineDescriptionOptoeOnly(optoe, state) ==
    IF optoe = NoValue THEN state ELSE optoe

\* The tail of get_error_description(): the optoe state and the inner one.
CombineDescription(optoe, state) ==
    IF state = Str("OK")
    THEN IF optoe = NoValue THEN Str("OK") ELSE optoe
    ELSE IF optoe = NoValue THEN state ELSE StrCat(StrCat(optoe, Bar), state)

(***************************************************************************)
(* Init: the hardware as install left it, and Sfp.__init__ with its        *)
(* update_sfp_type() call.                                                 *)
(***************************************************************************)
Init ==
    /\ port_num \in Ports
    /\ present \in BOOLEAN
    /\ id_byte \in CageIds[port_num]
    /\ eeprom_ready \in IF present THEN BOOLEAN ELSE {FALSE}
    /\ checksum_bad \in IF present THEN BOOLEAN ELSE {FALSE}
    /\ thermal \in IF present THEN Thermals ELSE {"NoTemp"}
    /\ reset_pin = 0 /\ lp_pin = 0 /\ tx_pin = 0
    /\ mod_lp \in BOOLEAN /\ mod_tx = FALSE
    /\ sfp_type = UpdateSfpType("QSFP")
    /\ xcvr_api = NoValue
    /\ reset_pc = "idle" /\ desc_pc = "idle" /\ optoe_state = NoValue
    /\ result = [op |-> "init", val |-> NoValue, obs |-> NoValue]

(***************************************************************************)
(* The methods.                                                            *)
(***************************************************************************)

\* get_lpmode(): the SFP28 cages have none; CMIS types ask the API, the
\* others read the FPGA pin.  A None API raises AttributeError; a failed
\* read of the pin (read_txt_file's None) returns False.
GetLpmode ==
    /\ \/ /\ port_num > LastOsfpPort
          /\ Return("get_lpmode", FALSE)
          /\ UNCHANGED xcvr_api
       \/ /\ port_num <= LastOsfpPort /\ sfp_type \in CmisTypes
          /\ xcvr_api' = GetXcvrApi
          /\ Return("get_lpmode", IF GetXcvrApi = NoValue THEN Raised
                                  ELSE IF ModuleAnswers THEN mod_lp ELSE NoValue)
       \/ /\ port_num <= LastOsfpPort /\ sfp_type \notin CmisTypes
          /\ \E val \in {lp_pin, NoValue} :
                Return("get_lpmode", IF val = NoValue THEN FALSE ELSE val = 1)
          /\ UNCHANGED xcvr_api
    /\ UNCHANGED <<port_num, sfp_type, hw, pins, reset_pc, desc_pc, optoe_state>>

\* get_reset_status(): module_reset_<n> read as an integer, 1 meaning the
\* module is held in reset; a failed read (None) returns False.
GetResetStatus ==
    /\ \E val \in {reset_pin, NoValue} :
          Return("get_reset_status", IF val = NoValue THEN FALSE ELSE val = 1)
    /\ UNCHANGED <<port_num, sfp_type, xcvr_api, hw, pins, reset_pc, desc_pc,
                   optoe_state>>

\* reset() up to its sleep: presence and port checks, then module_reset_<n>
\* written 1; a failed write returns at once.
ResetAssert ==
    /\ reset_pc = "idle"
    /\ \/ /\ ~GetPresence \/ port_num > LastOsfpPort
          /\ Return("reset", FALSE)
          /\ UNCHANGED <<reset_pin, mod_lp, mod_tx, reset_pc>>
       \/ /\ GetPresence /\ port_num <= LastOsfpPort
          /\ Return("reset", FALSE)
          /\ UNCHANGED <<reset_pin, mod_lp, mod_tx, reset_pc>>
       \/ /\ GetPresence /\ port_num <= LastOsfpPort
          /\ reset_pin' = 1
          /\ reset_pc' = "asserted"
          /\ mod_lp' \in BOOLEAN /\ mod_tx' = FALSE
          /\ UNCHANGED result
    /\ UNCHANGED <<port_num, sfp_type, xcvr_api, hw, lp_pin, tx_pin, desc_pc,
                   optoe_state>>

\* reset() after its sleep: module_reset_<n> written 0; reset() returns
\* what that write returned.
ResetRelease ==
    /\ reset_pc = "asserted"
    /\ \E ok \in BOOLEAN :
          /\ reset_pin' = IF ok THEN 0 ELSE reset_pin
          /\ Return("reset", ok)
    /\ reset_pc' = "idle"
    /\ UNCHANGED <<port_num, sfp_type, xcvr_api, hw, lp_pin, tx_pin, mod_lp, mod_tx,
                   desc_pc, optoe_state>>

\* set_lpmode(lpmode): CMIS types through the API (raising on a None API),
\* the others through module_lp_mode_<n>.
SetLpmode(lpmode) ==
    /\ \/ /\ ~GetPresence \/ port_num > LastOsfpPort
          /\ Return("set_lpmode", FALSE)
          /\ UNCHANGED <<xcvr_api, lp_pin, mod_lp>>
       \/ /\ GetPresence /\ port_num <= LastOsfpPort /\ sfp_type \in CmisTypes
          /\ xcvr_api' = GetXcvrApi
          /\ GetXcvrApi = NoValue
          /\ Return("set_lpmode", Raised)
          /\ UNCHANGED <<lp_pin, mod_lp>>
       \/ /\ GetPresence /\ port_num <= LastOsfpPort /\ sfp_type \in CmisTypes
          /\ xcvr_api' = GetXcvrApi
          /\ GetXcvrApi # NoValue
          /\ \E ok \in IF ModuleAnswers THEN BOOLEAN ELSE {FALSE} :
                /\ mod_lp' = IF ok THEN lpmode ELSE mod_lp
                /\ Return("set_lpmode", ok)
          /\ UNCHANGED lp_pin
       \/ /\ GetPresence /\ port_num <= LastOsfpPort /\ sfp_type \notin CmisTypes
          /\ \E ok \in BOOLEAN :
                /\ lp_pin' = IF ok THEN (IF lpmode THEN 1 ELSE 0) ELSE lp_pin
                /\ Return("set_lpmode", ok)
          /\ UNCHANGED <<xcvr_api, mod_lp>>
    /\ UNCHANGED <<port_num, sfp_type, hw, reset_pin, tx_pin, mod_tx, reset_pc,
                   desc_pc, optoe_state>>

\* tx_disable(tx_disable): the OSFP cages through the API (FALSE on a None
\* API), the SFP28 cages through module_tx_disable_<n>.
TxDisable(txd) ==
    /\ \/ /\ ~GetPresence
          /\ Return("tx_disable", FALSE)
          /\ UNCHANGED <<xcvr_api, tx_pin, mod_tx>>
       \/ /\ GetPresence /\ port_num < 33
          /\ xcvr_api' = GetXcvrApi
          /\ \E ok \in IF GetXcvrApi # NoValue /\ ModuleAnswers
                       THEN BOOLEAN ELSE {FALSE} :
                /\ mod_tx' = IF ok THEN txd ELSE mod_tx
                /\ Return("tx_disable", ok)
          /\ UNCHANGED tx_pin
       \/ /\ GetPresence /\ port_num >= 33
          /\ \E ok \in BOOLEAN :
                /\ tx_pin' = IF ok THEN (IF txd THEN 1 ELSE 0) ELSE tx_pin
                /\ Return("tx_disable", ok)
          /\ UNCHANGED <<xcvr_api, mod_tx>>
    /\ UNCHANGED <<port_num, sfp_type, hw, reset_pin, lp_pin, mod_lp, reset_pc,
                   desc_pc, optoe_state>>

\* get_error_description() up to the base class's answer: unplugged and
\* None-API answers return at once; otherwise optoe_state is the CMIS API's
\* state (or None), None when the API raises NotImplementedError.
GetErrorDescriptionBegin ==
    /\ desc_pc = "idle"
    /\ \/ /\ ~GetPresence
          /\ Return("get_error_description", Str("Unplugged"))
          /\ UNCHANGED <<xcvr_api, desc_pc, optoe_state>>
       \/ /\ GetPresence
          /\ xcvr_api' = GetXcvrApi
          /\ GetXcvrApi = NoValue
          /\ Return("get_error_description", Str(BitDescription["BAD_EEPROM"]))
          /\ UNCHANGED <<desc_pc, optoe_state>>
       \/ /\ GetPresence
          /\ xcvr_api' = GetXcvrApi
          /\ GetXcvrApi # NoValue
          /\ optoe_state' \in IF ModuleAnswers /\ id_byte \in CmisIds
                              THEN {NoValue, Str("CmisState")} ELSE {NoValue}
          /\ desc_pc' = "inner"
          /\ UNCHANGED result
    /\ UNCHANGED <<port_num, sfp_type, hw, pins, reset_pc>>

\* The rest of get_error_description(): __get_error_description() reads
\* the module again and the two answers are joined.
GetErrorDescriptionEnd ==
    /\ desc_pc = "inner"
    /\ result' = [op |-> "get_error_description",
                  val |-> CombineDescription(optoe_state, InnerErrorDescription),
                  obs |-> Observed]
    /\ desc_pc' = "idle"
    /\ optoe_state' = NoValue
    /\ UNCHANGED <<port_num, sfp_type, xcvr_api, hw, pins, reset_pc>>

(***************************************************************************)
(* The hardware and the platform framework, acting on their own.           *)
(***************************************************************************)

\* A module is inserted; its EEPROM may answer at once or only later.
Plug ==
    /\ ~present
    /\ present' = TRUE
    /\ id_byte' \in CageIds[port_num]
    /\ eeprom_ready' \in BOOLEAN
    /\ checksum_bad' \in BOOLEAN
    /\ thermal' \in Thermals
    /\ mod_lp' \in BOOLEAN /\ mod_tx' = FALSE
    /\ UNCHANGED <<port_num, sfp_type, xcvr_api, reset_pin, lp_pin, tx_pin, reset_pc,
                   desc_pc, optoe_state, result>>

Unplug ==
    /\ present
    /\ present' = FALSE /\ eeprom_ready' = FALSE
    /\ checksum_bad' = FALSE /\ thermal' = "NoTemp"
    /\ UNCHANGED <<port_num, sfp_type, xcvr_api, id_byte, pins, reset_pc, desc_pc,
                   optoe_state, result>>

EepromReady ==
    /\ present /\ ~eeprom_ready
    /\ eeprom_ready' = TRUE
    /\ UNCHANGED <<port_num, sfp_type, xcvr_api, present, id_byte, checksum_bad,
                   thermal, pins, reset_pc, desc_pc, optoe_state,
                   result>>

\* The module's checksum, temperature and alarm threshold change.
ModuleCondition ==
    /\ present
    /\ checksum_bad' \in BOOLEAN
    /\ thermal' \in Thermals
    /\ UNCHANGED <<port_num, sfp_type, xcvr_api, present, id_byte, eeprom_ready,
                   pins, reset_pc, desc_pc, optoe_state, result>>

\* The framework calls refresh_xcvr_api().
RefreshXcvrApi ==
    /\ xcvr_api' = FreshXcvrApi
    /\ UNCHANGED <<port_num, sfp_type, hw, pins, reset_pc, desc_pc, optoe_state,
                   result>>

Environment == Plug \/ Unplug \/ EepromReady \/ ModuleCondition \/ RefreshXcvrApi

Next ==
    \/ GetLpmode
    \/ GetResetStatus
    \/ ResetAssert
    \/ ResetRelease
    \/ \E lpmode \in BOOLEAN : SetLpmode(lpmode)
    \/ \E txd \in BOOLEAN : TxDisable(txd)
    \/ GetErrorDescriptionBegin
    \/ GetErrorDescriptionEnd
    \/ Environment

Spec == Init /\ [][Next]_vars

(***************************************************************************)
(* Properties.                                                             *)
(***************************************************************************)

TypeOK ==
    /\ port_num \in Ports
    /\ sfp_type \in FormFactors
    /\ xcvr_api \in {"Api", NoValue}
    /\ present \in BOOLEAN /\ id_byte \in CageIds[port_num] /\ eeprom_ready \in BOOLEAN
    /\ checksum_bad \in BOOLEAN /\ thermal \in Thermals
    /\ {reset_pin, lp_pin, tx_pin} \subseteq {0, 1}
    /\ mod_lp \in BOOLEAN /\ mod_tx \in BOOLEAN
    /\ reset_pc \in {"idle", "asserted"} /\ desc_pc \in {"idle", "inner"}

IsDescription == result.op = "get_error_description"
ResultMessages == MessagesOf(result.val)

\* A description read while the module was present names its checksum
\* error and its over-temperature, and says "OK" only when it has neither.
FaultsReported ==
    (IsDescription /\ result.obs # NoValue /\ result.obs.present) =>
        /\ result.obs.checksum_bad => "ChecksumErr" \in ResultMessages
        /\ result.obs.hot => "HighTemp" \in ResultMessages
        /\ "OK" \in ResultMessages =>
              ~result.obs.checksum_bad /\ ~result.obs.hot

\* Several errors are joined by "|" (docstring of get_error_description):
\* every "|"-separated part of a description is exactly one message.
ErrorsSeparated ==
    IsDescription => \A i \in 1..Len(result.val) : Len(result.val[i]) = 1

\* "High temperature" is reported only for a module whose temperature is at
\* or above its alarm threshold.
HighTempOnlyWhenHot ==
    (IsDescription /\ "HighTemp" \in ResultMessages) =>
        result.obs # NoValue /\ result.obs.hot

\* No lpmode call raises: the methods cope with a module whose transceiver
\* API cannot be built, as tx_disable() does.
LpmodeNeverRaises ==
    result.op \in {"get_lpmode", "set_lpmode"} => result.val # Raised

=============================================================================
