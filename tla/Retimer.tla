------------------------------ MODULE Retimer ------------------------------
(***************************************************************************)
(* config_sfp() of accton_as9817_32o_util.py: the register sequences that  *)
(* route the DS250DF810 retimer (i2c bus 42, address 0x1b) to the CPU or   *)
(* the two front SFP28 ports, written one i2cset at a time.                *)
(*                                                                         *)
(* A call is a list of blocks, each a list of (register, value) writes:    *)
(* opening the df810 mux (device 0x72), the common channel setup, the      *)
(* TX-FIR, CDR and cross-point helpers, and closing the mux.  Any write    *)
(* may fail.  A failed write in the mux or common blocks makes config_sfp  *)
(* return False at once; a failed write in a helper ends that helper only, *)
(* and config_sfp goes on with the next one.                               *)
(*                                                                         *)
(* The chip side is what decides where a channel register write lands:    *)
(* register 0xff (bit 1: all channels, bit 0: the channels of 0xfc) and    *)
(* 0xfc (a channel bit mask), and the mux that connects the chip to the    *)
(* bus at all.                                                             *)
(***************************************************************************)
EXTENDS Integers, SequencesExt, Bitwise

CONSTANTS
    Modes,      \* the (dest, speed) pairs config_sfp is called with
    MaxCalls,   \* bound on the number of config_sfp calls
    NoValue     \* Python None

\* Module constants of the utility.
CPU == 0
FRONT == 1
S_10G == 2
S_25G == 3
TI_MUX_I2C_ADDR == \h1b
MUX_ENABLE_ADDR == \h72

ASSUME Modes \subseteq {CPU, FRONT} \X {S_10G, S_25G} /\ MaxCalls \in Nat

Channels == 0..7
\* Mutation: the channel bit shifted one place too far.
ChannelMaskOffByOne(offset) == 2^(offset + 1)
ChannelMask(offset) == 2^offset

\* A write: register, value, and the channels the sequence means it for.
W(reg, val, chans) == [reg |-> reg, val |-> val, chans |-> chans]
Sel(reg, val) == W(reg, val, {})

\* Mutation: pre_val/post_val taken without the `-': Python's `c | 0x40'
\* of a c in -63..-1 is c itself, which f"0x{c:02x}" prints as "0x-c".
SideRegUnnegated(c) == IF c < 0 THEN c ELSE IF c = 0 THEN \h40 ELSE c

\* df810_txfir_set(): sign-magnitude cursor values, bit 7 marking a
\* positive main cursor and bit 6 a non-positive pre or post cursor.  A
\* main cursor in -63..-1 is not negated: Python's `main | 0x40' is main.
MainReg(main) ==
    IF main > 0 THEN main | \h80 ELSE IF main = 0 THEN \h40 ELSE main
SideReg(c) == IF c <= 0 THEN (-c) | \h40 ELSE c

TxFirWrites(offset, pre, main, post) ==
    LET ch == {offset} IN
    << Sel(\hff, \h01), Sel(\hfc, ChannelMask(offset)),
       W(\h3d, \h80, ch), W(\h3d, \h80, ch), W(\h3f, \h40, ch), W(\h3e, \h40, ch),
       W(\h3d, MainReg(main), ch), W(\h3f, SideReg(post), ch),
       W(\h3e, SideReg(pre), ch) >>

\* df810_cdr_bw_set().
CdrWrites(offset, param1, param2) ==
    LET ch == {offset} IN
    << Sel(\hff, \h01), Sel(\hfc, ChannelMask(offset)),
       W(\h1c, param1, ch), W(\h9e, param2, ch), W(\h09, \h08, ch), W(\h0a, \h40, ch) >>

\* df810_cross_point(): 0xff once, then for every channel its select and
\* nine writes.
CrossPointChannel(offset) ==
    LET ch == {offset} IN
    << Sel(\hfc, ChannelMask(offset)),
       W(\h95, \h08, ch), W(\h96, \h00, ch), W(\h96, \h04, ch), W(\h96, \h04, ch),
       W(\h96, \h06, ch), W(\h96, \h06, ch), W(\h0a, \h0c, ch), W(\h0a, \h00, ch),
       W(\h79, \h11, ch) >>
RECURSIVE CrossPointFrom(_)
CrossPointFrom(offset) ==
    IF offset > 7 THEN << >> ELSE CrossPointChannel(offset) \o CrossPointFrom(offset + 1)
CrossPointWrites == << Sel(\hff, \h01) >> \o CrossPointFrom(0)

\* Mutation: the common list without the broadcast channel reset.
ConfigListNoReset(speed) ==
    LET list == << Sel(\hfc, \h01), Sel(\hff, \h03),
                   W(\h0a, \h0c, Channels), W(\h2f, \h54, Channels),
                   W(\h31, \h40, Channels), W(\h1e, \he3, Channels),
                   W(\h0a, \h00, Channels) >>
    IN IF speed = S_10G THEN [list EXCEPT ![Len(list) - 3] = W(\h2f, \h04, Channels)]
       ELSE list

\* config_sfp()'s common list, broadcast to every channel; at 10G its
\* fourth entry from the end (the rate register) is replaced.
ConfigList(speed) ==
    LET all == W(\h2f, \h54, Channels)
        list == << Sel(\hfc, \h01), Sel(\hff, \h03),
                   W(\h00, \h04, Channels), W(\h0a, \h0c, Channels), all,
                   W(\h31, \h40, Channels), W(\h1e, \he3, Channels),
                   W(\h0a, \h00, Channels) >>
    IN IF speed = S_10G THEN [list EXCEPT ![Len(list) - 3] = W(\h2f, \h04, Channels)]
       ELSE list

\* A block: the device it addresses, whether a failed write ends config_sfp
\* (fatal) or only the block, and its writes.
Block(dev, fatal, writes) == [dev |-> dev, fatal |-> fatal, writes |-> writes]
Helper(writes) == Block(TI_MUX_I2C_ADDR, FALSE, writes)

\* The helpers config_sfp calls for a destination and speed; their
\* return values are not looked at.
Helpers(dest, speed) ==
    IF dest = CPU /\ speed = S_10G
    THEN << Helper(TxFirWrites(0, 0, 17, -2)), Helper(TxFirWrites(2, 0, 17, -2)),
            Helper(TxFirWrites(4, 0, 7, 0)), Helper(TxFirWrites(6, 0, 7, 0)),
            Helper(CdrWrites(4, \h24, \hfc)), Helper(CdrWrites(6, \h24, \hfc)) >>
    ELSE IF dest = FRONT /\ speed = S_10G
    THEN << Helper(TxFirWrites(1, 0, 15, -3)), Helper(TxFirWrites(3, 0, 15, -3)),
            Helper(CrossPointWrites) >>
    ELSE IF dest = FRONT /\ speed = S_25G
    THEN << Helper(TxFirWrites(1, -8, 22, 0)), Helper(TxFirWrites(3, -8, 22, 0)),
            Helper(CrossPointWrites) >>
    ELSE << >>

\* config_sfp(dest, speed) as the blocks it runs in order.
Program(mode) ==
    << Block(MUX_ENABLE_ADDR, TRUE, << Sel(\h00, \h01) >>),
       Block(TI_MUX_I2C_ADDR, TRUE, ConfigList(mode[2])) >>
    \o Helpers(mode[1], mode[2])
    \o << Block(MUX_ENABLE_ADDR, TRUE, << Sel(\h00, \h00) >>) >>

\* The chip's channel registers the sequences write, each channel's own
\* copy; PowerOnDefault stands for whatever value a register resets to.
ChanRegs == {\h0a, \h2f, \h31, \h1e, \h3d, \h3e, \h3f, \h1c, \h9e, \h09,
             \h95, \h96, \h79}
PowerOnDefault == -1
PowerOn == [c \in Channels |-> [g \in ChanRegs |-> PowerOnDefault]]

\* Once a write of a call has failed, which of its later writes landed is
\* not followed: every register then holds Unknown, a value that no
\* intended register state has, until a reset or a write replaces it.
Unknown == -2
Scrambled == [c \in Channels |-> [g \in ChanRegs |-> Unknown]]

\* A channel register write reaching the channels chans: register 0x00
\* with bit 2 resets their registers to power-up defaults, any other
\* register takes the value.
Apply(r, w, chans) ==
    [c \in Channels |->
        IF c \notin chans THEN r[c]
        ELSE IF w.reg = \h00 THEN IF w.val & \h04 # 0 THEN PowerOn[c] ELSE r[c]
        ELSE [r[c] EXCEPT ![w.reg] = w.val]]

VARIABLES
    calls,      \* config_sfp calls started
    mode,       \* (dest, speed) of the call in progress, NoValue when none
    blk,        \* index of the block being written
    wi,         \* index of the next write in that block
    mux,        \* register 0 of the df810 mux (0x72): 1 connects the chip
    ff,         \* the chip's register 0xff
    fc,         \* the chip's register 0xfc
    failed_any, \* history: a write of the call in progress failed
    last_write, \* history: the last channel register write that landed
    ret,        \* what the last config_sfp call returned
    regs,       \* the chip's channel registers
    last_mode   \* history: the mode of the last call that returned

vars == <<calls, mode, blk, wi, mux, ff, fc, failed_any, last_write, ret,
          regs, last_mode>>

\* The channels a channel register write reaches.
Target(ffv, fcv) ==
    IF ffv & \h02 # 0 THEN Channels
    ELSE IF ffv & \h01 # 0 THEN {c \in Channels : fcv & ChannelMask(c) # 0}
    ELSE {}

CurBlock == Program(mode)[blk]
CurWrite == CurBlock.writes[wi]

\* After a write: the next write of the block, else the next block.
Advance ==
    IF wi < Len(CurBlock.writes) THEN wi' = wi + 1 /\ UNCHANGED blk
    ELSE blk' = blk + 1 /\ wi' = 1

\* set_i2c_register() that succeeds: the device takes the value.  The
\* chip answers only while the mux connects it.
WriteOk ==
    /\ mode # NoValue /\ blk <= Len(Program(mode))
    /\ CurBlock.dev = TI_MUX_I2C_ADDR => mux = 1
    /\ IF CurBlock.dev = MUX_ENABLE_ADDR
       THEN mux' = CurWrite.val /\ UNCHANGED <<ff, fc, last_write, regs>>
       ELSE IF CurWrite.reg = \hff
       THEN ff' = CurWrite.val /\ UNCHANGED <<mux, fc, last_write, regs>>
       ELSE IF CurWrite.reg = \hfc
       THEN fc' = CurWrite.val /\ UNCHANGED <<mux, ff, last_write, regs>>
       ELSE /\ last_write' = [reg |-> CurWrite.reg, chans |-> CurWrite.chans,
                              target |-> Target(ff, fc)]
            /\ regs' = IF failed_any THEN regs ELSE Apply(regs, CurWrite, Target(ff, fc))
            /\ UNCHANGED <<mux, ff, fc>>
    /\ Advance
    /\ UNCHANGED <<calls, mode, failed_any, ret, last_mode>>

WriteFail ==
    /\ mode # NoValue /\ blk <= Len(Program(mode))
    /\ failed_any' = TRUE
    /\ \/ /\ CurBlock.fatal
          /\ ret' = FALSE /\ mode' = NoValue
          /\ UNCHANGED <<blk, wi>>
       \/ /\ ~CurBlock.fatal
          /\ blk' = blk + 1 /\ wi' = 1
          /\ UNCHANGED <<ret, mode>>
    /\ regs' = Scrambled
    /\ UNCHANGED <<calls, mux, ff, fc, last_write, last_mode>>

\* config_sfp returns True after closing the mux.
ConfigSfpDone ==
    /\ mode # NoValue /\ blk > Len(Program(mode))
    /\ ret' = TRUE /\ mode' = NoValue /\ last_mode' = mode
    /\ UNCHANGED <<calls, blk, wi, mux, ff, fc, failed_any, last_write, regs>>

\* A config_sfp(dest, speed) call: device_install()'s, or do_sfp()'s for
\* "sfp -c", "-f10" or "-f25".
ConfigSfp(m) ==
    /\ mode = NoValue /\ calls < MaxCalls
    /\ calls' = calls + 1
    /\ mode' = m /\ blk' = 1 /\ wi' = 1
    /\ failed_any' = FALSE
    /\ UNCHANGED <<mux, ff, fc, last_write, ret, regs, last_mode>>

Init ==
    /\ calls = 0 /\ mode = NoValue /\ blk = 1 /\ wi = 1
    /\ mux = 0 /\ ff = 0 /\ fc = 0
    /\ failed_any = FALSE /\ last_write = NoValue /\ ret = NoValue
    /\ regs = PowerOn /\ last_mode = NoValue

Next ==
    \/ \E m \in Modes : ConfigSfp(m)
    \/ WriteOk
    \/ WriteFail
    \/ ConfigSfpDone

Spec == Init /\ [][Next]_vars

(***************************************************************************)
(* Properties.                                                             *)
(***************************************************************************)

TypeOK ==
    /\ calls \in 0..MaxCalls
    /\ mode \in Modes \cup {NoValue}
    /\ mux \in {0, 1} /\ ff \in {0, 1, 3} /\ fc \in 0..255
    /\ failed_any \in BOOLEAN
    /\ ret \in BOOLEAN \cup {NoValue}
    /\ regs \in [Channels -> [ChanRegs -> {PowerOnDefault, Unknown} \cup 0..255]]

Intended(m) ==
    LET chip == SelectSeq(Program(m), LAMBDA b : b.dev = TI_MUX_I2C_ADDR)
        writes == FlattenSeq([k \in DOMAIN chip |-> chip[k].writes])
    IN FoldLeft(LAMBDA r, w : Apply(r, w, w.chans), PowerOn, writes)

\* A config_sfp call in which no write failed leaves every channel of the
\* chip exactly as its mode intends, whatever earlier calls, failed or of
\* another mode, left behind: the common list's broadcast write of 0x04
\* to register 0x00 resets what the mode does not set itself.
ConfiguredAsMode ==
    (mode = NoValue /\ ret = TRUE /\ ~failed_any) => regs = Intended(last_mode)

\* Every i2cset config_sfp issues carries a byte: the sign-magnitude
\* encodings of df810_txfir_set give 0x00..0xff for the cursors of every
\* call site, so no write fails for a value i2cset cannot take.
WritesAreBytes ==
    (mode # NoValue /\ blk <= Len(Program(mode))) => CurWrite.val \in 0..255

\* config_sfp returns True only when every register write it issued
\* succeeded (the spec: a failed write aborts and returns failure).
ConfigSfpReportsFailure ==
    (mode = NoValue /\ ret = TRUE) => ~failed_any

=============================================================================
