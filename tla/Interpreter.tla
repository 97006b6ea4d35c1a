----------------------------- MODULE Interpreter -----------------------------
(***************************************************************************)
(* A call of the builtin backend: CallHarness::prepare lays out the        *)
(* memory and the registers, BuiltinInterpreter::run fetches and executes  *)
(* until something stops it.  One action per family of instructions; an    *)
(* instruction is the record of its decoded fields.  Words have WordBits   *)
(* bits instead of 32 and CR has WordBits / 4 fields; the operators follow *)
(* the order in which the code assigns a register and reads it again.      *)
(* Floating point is left out, except that its stubs and moves exist.      *)
(***************************************************************************)
EXTENDS Memory, SequencesExt

CONSTANTS
  NumRegs,     \* 32 in the code; more than 12, for r12 holds an import's identity
  LineBytes,   \* the 32 bytes that dcbz zeroes
  RedZone,     \* 0x40, kept free above the first stack pointer
  StackAlign,  \* 16
  StubLimit,   \* 0x01000000, the longest block an import stub moves
  Calls        \* families of calls: what prepare and run take as configuration

ASSUME SizesAssumption ==
  /\ NumRegs \in Nat /\ NumRegs > 12
  /\ LineBytes \in Nat \ {0} /\ StackAlign \in Nat \ {0} /\ RedZone \in Nat /\ StubLimit \in Nat

VARIABLES
  call,    \* the configuration of this call
  cpu,     \* CpuState
  mem,     \* Memory
  count,   \* instructions that were completed
  result   \* ExecutionResult; its reason is "prepare", then "run" until the call stops

vars == <<call, cpu, mem, count, result>>

Regs  == 0 .. NumRegs - 1
Going(phase) == [reason |-> phase, instructions |-> 0, pc |-> 0]
StopReasons == {"returned", "instruction_limit", "unsupported_instruction", "memory_fault",
                "import_trap", "trap", "system_call", "invalid_configuration"}

-----------------------------------------------------------------------------
(* Words, as numbers and as sets of bits (bit 0 is the least significant) *)

Signed(x)   == IF 2 * x < Modulus THEN x ELSE x - Modulus
Wrap(v)     == v % Modulus
Not(x)      == Modulus - 1 - x
Bit(x, i)   == (x \div 2 ^ i) % 2
Bits(x)     == {i \in 0 .. WordBits - 1 : Bit(x, i) = 1}
FromBits(S) == MapThenSumSet(LAMBDA i : 2 ^ i, S)
SetBit(x, i, on) == x + ((IF on THEN 1 ELSE 0) - Bit(x, i)) * 2 ^ i
OutOfRange(v) == v < -(Modulus \div 2) \/ v >= Modulus \div 2

HalfModulus == 2 ^ (2 * ByteBits)
signExtend16(u) == IF 2 * u < HalfModulus THEN u ELSE u - HalfModulus
signExtend8(u)  == IF 2 * u < 2 ^ ByteBits THEN u ELSE u - 2 ^ ByteBits

rotl32(x, n) == LET wide == x * 2 ^ (n % WordBits)
                IN  (wide % Modulus) + (wide \div Modulus)

\* Bit p of a mask, counted from the most significant one.
ppcMask(mb, me) ==
  FromBits({WordBits - 1 - p : p \in {p \in 0 .. WordBits - 1 :
              IF mb <= me THEN p >= mb /\ p <= me ELSE p >= mb \/ p <= me}})

byteSwap(v, size) ==
  MapThenSumSet(LAMBDA i : ByteOf(v, size, i) * 2 ^ (ByteBits * i), 0 .. size - 1)

-----------------------------------------------------------------------------
(* XER and CR *)

SO == WordBits - 1
OV == WordBits - 2
CA == WordBits - 3

setCarry(c, carry) == [c EXCEPT !.xer = SetBit(@, CA, carry)]

\* (mutant) SO follows OV instead of summing it up.
setOverflow_so(c, overflow) ==
  [c EXCEPT !.xer = SetBit(SetBit(@, OV, overflow), SO, overflow)]

setOverflow(c, overflow) ==
  [c EXCEPT !.xer = SetBit(IF overflow THEN SetBit(@, SO, TRUE) ELSE @, OV, overflow)]

FieldShift(f) == WordBits - 4 - 4 * f
Nibble(cr, f) == (cr \div 2 ^ FieldShift(f)) % 16
PutNibble(cr, f, n) == cr + (n - Nibble(cr, f)) * 2 ^ FieldShift(f)

setCrField(c, f, less, greater, equal, so) ==
  [c EXCEPT !.cr = PutNibble(@, f, (IF less THEN 8 ELSE 0) + (IF greater THEN 4 ELSE 0)
                                 + (IF equal THEN 2 ELSE 0) + (IF so THEN 1 ELSE 0))]

crBit(c, bi) == Bit(c.cr, WordBits - 1 - bi) = 1

setCompare(c, f, a, b) == setCrField(c, f, a < b, a > b, a = b, Bit(c.xer, SO) = 1)

\* The register an instruction wrote is compared with zero in its record form.
updateCr0(c, i, r) == IF i.rc THEN setCompare(c, 0, Signed(c.gpr[r]), 0) ELSE c

-----------------------------------------------------------------------------
(* CallHarness::prepare *)

ZeroCpu == [gpr |-> [r \in Regs |-> 0], pc |-> 0, lr |-> 0, ctr |-> 0, cr |-> 0, xer |-> 0,
            reserved |-> 0, valid |-> FALSE]

Area(base, size, perms) == [base |-> base, size |-> size, perms |-> perms, bytes |-> <<>>]

Layout(k) ==
  k.image \o << Area(k.importBase, k.importSize, {"read", "execute"}),
                Area(k.heapBase, k.heapSize, {"read", "write"}),
                Area(k.stackBase, k.stackSize, {"read", "write"}) >>

\* How many areas can be mapped one after the other, and the memory they make.
MapCount(areas) ==
  Max({n \in 0 .. Len(areas) : \A j \in 1 .. n :
         Mappable({areas[h] : h \in 1 .. j - 1}, areas[j].base, areas[j].size)})
MapFirst(areas, n) ==
  {Region(areas[j].base, areas[j].size, areas[j].perms, areas[j].bytes) : j \in 1 .. n}

\* The stack pointer, TOC, return address and entry, or what a transition vector says.
Entered(k, tv, m) ==
  LET top == Wrap(k.stackBase + k.stackSize - RedZone)
      c   == [ZeroCpu EXCEPT !.gpr[1] = top - (top % StackAlign), !.gpr[2] = k.toc,
                             !.lr = k.returnAddress, !.pc = k.entry]
  IN  IF tv = 0 THEN c
      ELSE [c EXCEPT !.pc = readBytes(m, tv, 4), !.gpr[2] = readBytes(m, Wrap(tv + 4), 4),
                     !.gpr[12] = tv]

CanEnter(k, m) ==
  IF k.transitionVector = 0 THEN k.entry # 0
  ELSE \A a \in {k.transitionVector, Wrap(k.transitionVector + 4)} : Permitted(m, a, 4, "read")

Assigned(k, c) ==
  [c EXCEPT !.gpr = [r \in Regs |-> IF r \in DOMAIN k.registers THEN k.registers[r] ELSE @[r]]]

\* The writes happen one by one up to the first that is refused.
WriteCount(k, m) ==
  Max({n \in 0 .. Len(k.writes) : \A j \in 1 .. n : Permitted(m, k.writes[j].address, 4, "write")})
WriteFirst(k, m, n) ==
  FoldLeft(LAMBDA acc, w : writeBytes(acc, w.address, 4, w.value), m, SubSeq(k.writes, 1, n))

Prepare ==
  /\ result = Going("prepare")
  /\ LET areas == Layout(call)
         m == MapFirst(areas, MapCount(areas))
         mapped  == MapCount(areas) = Len(areas)
         written == WriteCount(call, m)
     IN  CASE ~mapped -> cpu' = cpu /\ mem' = m /\ result' = Going("invalid_configuration")
           [] mapped /\ ~CanEnter(call, m) ->
                /\ cpu' = Entered(call, 0, m)
                /\ mem' = m /\ result' = Going("invalid_configuration")
           [] mapped /\ CanEnter(call, m) ->
                /\ cpu' = Assigned(call, Entered(call, call.transitionVector, m))
                /\ mem' = WriteFirst(call, m, written)
                /\ result' = Going(IF written = Len(call.writes) THEN "run"
                                   ELSE "invalid_configuration")
  /\ UNCHANGED <<call, count>>

-----------------------------------------------------------------------------
(* The top of run's loop *)

InImports(a) == a >= call.importBase /\ a < call.importBase + call.importSize

Stop(reason, instructions, pc) ==
  result' = [reason |-> reason, instructions |-> instructions, pc |-> pc]

Running == result = Going("run")

AtLimit ==
  /\ Running /\ count >= call.limit
  /\ Stop("instruction_limit", call.limit, cpu.pc) /\ UNCHANGED <<call, cpu, mem, count>>

Returned == cpu.pc = call.returnAddress
Fetchable == Permitted(mem, cpu.pc, 4, "execute") /\ Permitted(mem, cpu.pc, 4, "read")

Leave ==
  /\ Running /\ count < call.limit
  /\ \/ Returned /\ Stop("returned", count, cpu.pc)
     \/ ~Returned /\ InImports(cpu.pc) /\ Stop("import_trap", count, cpu.pc)
     \/ ~Returned /\ ~InImports(cpu.pc) /\ ~Fetchable /\ Stop("memory_fault", count, cpu.pc)
  /\ UNCHANGED <<call, cpu, mem, count>>

\* The word at pc, decoded.  A zero word has no meaning.
Insn == IF cpu.pc \in DOMAIN call.code THEN call.code[cpu.pc] ELSE [op |-> "unsupported"]

\* (mutant) One instruction too many is executed.
Fetched_past(ops) ==
  /\ Running /\ count <= call.limit /\ ~Returned /\ ~InImports(cpu.pc) /\ Fetchable
  /\ Insn.op \in ops

Fetched(ops) ==
  /\ Running /\ count < call.limit /\ ~Returned /\ ~InImports(cpu.pc) /\ Fetchable
  /\ Insn.op \in ops

\* pc has moved on before the instruction is executed, and stays so when it faults.
Advanced == [cpu EXCEPT !.pc = Wrap(@ + 4)]

Complete(c, m) ==
  cpu' = c /\ mem' = m /\ count' = count + 1 /\ UNCHANGED <<call, result>>

Fault(reason, c, m) ==
  /\ cpu' = c /\ mem' = m /\ Stop(reason, count, cpu.pc)
  /\ UNCHANGED <<call, count>>

-----------------------------------------------------------------------------
(* Integer arithmetic *)

Extended == {"addc", "adde", "addze", "addme", "subfc", "subfe", "subfze", "subfme"}
AddSub   == Extended \cup {"add", "subf", "neg"}

\* The 64-bit sum whose lower half is the result and whose upper half the carry.
Wide(op, a, b, ca) ==
  CASE op \in {"add", "addc"}   -> a + b
    [] op = "adde"              -> a + b + ca
    [] op = "addze"             -> a + ca
    [] op = "addme"             -> a + ca + Modulus - 1
    [] op \in {"subf", "subfc"} -> b + Not(a) + 1
    [] op = "subfe"             -> b + Not(a) + ca
    [] op = "subfze"            -> Not(a) + ca
    [] op = "subfme"            -> Not(a) + ca + Modulus - 1
    [] op = "neg"               -> Not(a) + 1

Negative(x) == Signed(x) < 0
addOverflow(a, b, r) == Negative(a) = Negative(b) /\ Negative(a) # Negative(r)
subOverflow(a, b, r) == Negative(a) # Negative(b) /\ Negative(a) # Negative(r)

Overflows(op, a, b, r, ca) ==
  CASE op \in {"add", "addc"}   -> addOverflow(a, b, r)
    [] op \in {"subf", "subfc"} -> subOverflow(b, a, r)
    [] op = "neg"               -> 2 * a = Modulus
    [] op = "adde"              -> OutOfRange(Signed(a) + Signed(b) + ca)
    [] op = "subfe"             -> OutOfRange(Signed(b) - Signed(a) + ca - 1)
    [] op = "addze"             -> OutOfRange(Signed(a) + ca)
    [] op = "addme"             -> OutOfRange(Signed(a) + ca - 1)
    [] op = "subfze"            -> OutOfRange(ca - 1 - Signed(a))
    [] op = "subfme"            -> OutOfRange(ca - 2 - Signed(a))

\* The overflow is judged after the result was assigned, so that a source that is
\* also the target is read anew.
addSub(c, i) ==
  LET ca   == Bit(c.xer, CA)
      wide == Wide(i.op, c.gpr[i.ra], c.gpr[i.rb], ca)
      g    == [c.gpr EXCEPT ![i.rt] = Wrap(wide)]
      c1   == [c EXCEPT !.gpr = g]
      c2   == IF i.op \in Extended THEN setCarry(c1, wide >= Modulus) ELSE c1
      c3   == IF i.oe THEN setOverflow(c2, Overflows(i.op, g[i.ra], g[i.rb], g[i.rt], ca)) ELSE c2
  IN  updateCr0(c3, i, i.rt)

AddSubStep == Fetched(AddSub) /\ Complete(addSub(Advanced, Insn), mem)

\* The quotient is cut off towards zero, as C++ does.
Quotient(a, b) ==
  LET q == (IF a < 0 THEN -a ELSE a) \div (IF b < 0 THEN -b ELSE b)
  IN  IF (a < 0) = (b < 0) THEN q ELSE -q

mulDiv(c, i) ==
  LET a  == c.gpr[i.ra]
      b  == c.gpr[i.rb]
      product == Signed(a) * Signed(b)
      invalid == IF i.op = "divw" THEN Signed(b) = 0 \/ (2 * Signed(a) = -Modulus /\ Signed(b) = -1)
                 ELSE b = 0
      value == CASE i.op = "mullw"  -> product
                 [] i.op = "mulhw"  -> product \div Modulus
                 [] i.op = "mulhwu" -> (a * b) \div Modulus
                 [] i.op = "divw"   -> IF invalid THEN 0 ELSE Quotient(Signed(a), Signed(b))
                 [] i.op = "divwu"  -> IF invalid THEN 0 ELSE a \div b
      c1 == [c EXCEPT !.gpr[i.rt] = Wrap(value)]
      c2 == IF i.oe THEN setOverflow(c1, IF i.op = "mullw" THEN OutOfRange(product) ELSE invalid)
            ELSE c1
  IN  updateCr0(c2, i, i.rt)

MulDivStep ==
  /\ Fetched({"mullw", "mulhw", "mulhwu", "divw", "divwu"})
  /\ Complete(mulDiv(Advanced, Insn), mem)

\* addi and addis read r0 as zero; addic, subfic set the carry; addic. has rc set.
immediate(c, i) ==
  LET simm == signExtend16(i.imm)
      base == IF i.ra = 0 THEN 0 ELSE c.gpr[i.ra]
      wide == CASE i.op = "addi"   -> base + simm
                [] i.op = "addis"  -> base + simm * HalfModulus
                [] i.op = "addic"  -> c.gpr[i.ra] + Wrap(simm)
                [] i.op = "subfic" -> Wrap(simm) + Not(c.gpr[i.ra]) + 1
                [] i.op = "mulli"  -> Signed(c.gpr[i.ra]) * simm
      c1   == [c EXCEPT !.gpr[i.rt] = Wrap(wide)]
      c2   == IF i.op \in {"addic", "subfic"} THEN setCarry(c1, wide >= Modulus) ELSE c1
  IN  updateCr0(c2, i, i.rt)

ImmediateStep ==
  /\ Fetched({"addi", "addis", "addic", "subfic", "mulli"})
  /\ Complete(immediate(Advanced, Insn), mem)

-----------------------------------------------------------------------------
(* Logic, rotates and shifts: the source is rt, the target ra *)

Combine(op, x, y) ==
  CASE op = "and"  -> x \cap y
    [] op = "or"   -> x \cup y
    [] op = "xor"  -> SymDiff(x, y)
    [] op = "nand" -> (0 .. WordBits - 1) \ (x \cap y)
    [] op = "nor"  -> (0 .. WordBits - 1) \ (x \cup y)
    [] op = "eqv"  -> (0 .. WordBits - 1) \ SymDiff(x, y)
    [] op = "andc" -> x \ y
    [] op = "orc"  -> x \cup ((0 .. WordBits - 1) \ y)

Logical == {"and", "or", "xor", "nand", "nor", "eqv", "andc", "orc"}

\* The second operand is rb, or an immediate in the lower or in the upper half.
SecondBits(c, i) ==
  CASE i.form = "register" -> Bits(c.gpr[i.rb])
    [] i.form = "low"      -> Bits(i.imm)
    [] i.form = "high"     -> Bits(i.imm * HalfModulus)

LogicalStep ==
  /\ Fetched(Logical)
  /\ LET i == Insn
         v == FromBits(Combine(i.op, Bits(cpu.gpr[i.rt]), SecondBits(cpu, i)))
     IN  Complete(updateCr0([Advanced EXCEPT !.gpr[i.ra] = v], i, i.ra), mem)

rotate(c, i) ==
  LET mask == Bits(ppcMask(i.mb, i.me))
      n    == IF i.op = "rlwnm" THEN c.gpr[i.rb] % WordBits ELSE i.rb
      kept == IF i.op = "rlwimi" THEN Bits(c.gpr[i.ra]) \ mask ELSE {}
      v    == FromBits(kept \cup (Bits(rotl32(c.gpr[i.rt], n)) \cap mask))
  IN  updateCr0([c EXCEPT !.gpr[i.ra] = v], i, i.ra)

RotateStep ==
  Fetched({"rlwinm", "rlwimi", "rlwnm"}) /\ Complete(rotate(Advanced, Insn), mem)

\* The lost bits are looked for in rt after ra was assigned.
shiftAlgebraic(c, i) ==
  LET n  == IF i.op = "srawi" THEN i.rb ELSE c.gpr[i.rb] % (2 * WordBits)
      s  == Signed(c.gpr[i.rt])
      v  == IF n >= WordBits THEN (IF s < 0 THEN Modulus - 1 ELSE 0) ELSE Wrap(s \div 2 ^ n)
      g  == [c.gpr EXCEPT ![i.ra] = v]
      lost == IF n >= WordBits THEN g[i.rt] # 0 ELSE g[i.rt] % 2 ^ n # 0
  IN  setCarry([c EXCEPT !.gpr = g], s < 0 /\ lost)

\* countl_zero: the first n bits are zero as long as x is below 2 ^ (WordBits - n).
Leading(x) == Cardinality({n \in 1 .. WordBits : x < 2 ^ (WordBits - n)})

shift(c, i) ==
  LET x == c.gpr[i.rt]
      n == c.gpr[i.rb] % (2 * WordBits)
      v == CASE i.op = "slw"    -> IF n >= WordBits THEN 0 ELSE Wrap(x * 2 ^ n)
             [] i.op = "srw"    -> IF n >= WordBits THEN 0 ELSE x \div 2 ^ n
             [] i.op = "cntlzw" -> Leading(x)
             [] i.op = "extsh"  -> Wrap(signExtend16(x % HalfModulus))
             [] i.op = "extsb"  -> Wrap(signExtend8(x % 2 ^ ByteBits))
  IN  [c EXCEPT !.gpr[i.ra] = v]

ShiftStep ==
  \/ /\ Fetched({"slw", "srw", "cntlzw", "extsh", "extsb"})
     /\ Complete(updateCr0(shift(Advanced, Insn), Insn, Insn.ra), mem)
  \/ /\ Fetched({"sraw", "srawi"})
     /\ Complete(updateCr0(shiftAlgebraic(Advanced, Insn), Insn, Insn.ra), mem)

-----------------------------------------------------------------------------
(* Comparisons, traps, condition register and special registers *)

compare(c, i) ==
  LET a == c.gpr[i.ra]
  IN  CASE i.op = "cmpw"   -> setCompare(c, i.bf, Signed(a), Signed(c.gpr[i.rb]))
        [] i.op = "cmplw"  -> setCompare(c, i.bf, a, c.gpr[i.rb])
        [] i.op = "cmpwi"  -> setCompare(c, i.bf, Signed(a), signExtend16(i.imm))
        [] i.op = "cmplwi" -> setCompare(c, i.bf, a, i.imm)

CompareStep ==
  Fetched({"cmpw", "cmplw", "cmpwi", "cmplwi"}) /\ Complete(compare(Advanced, Insn), mem)

trapCondition(to, a, b) ==
  \/ Bit(to, 4) = 1 /\ Signed(a) < Signed(b)
  \/ Bit(to, 3) = 1 /\ Signed(a) > Signed(b)
  \/ Bit(to, 2) = 1 /\ a = b
  \/ Bit(to, 1) = 1 /\ a < b
  \/ Bit(to, 0) = 1 /\ a > b

TrapStep ==
  /\ Fetched({"tw", "twi"})
  /\ LET i == Insn
         b == IF i.op = "tw" THEN cpu.gpr[i.rb] ELSE Wrap(signExtend16(i.imm))
     IN  IF trapCondition(i.to, cpu.gpr[i.ra], b) /\ ~call.ignoreTraps
         THEN Fault("trap", Advanced, mem)
         ELSE Complete(Advanced, mem)

\* cr logical forms combine two bits of CR as the logical ones do those of a word.
conditionRegister(c, i) ==
  CASE i.op = "crlogic" ->
         LET x == IF crBit(c, i.ra) THEN {0} ELSE {}
             y == IF crBit(c, i.rb) THEN {0} ELSE {}
         IN  [c EXCEPT !.cr = SetBit(@, WordBits - 1 - i.rt, 0 \in Combine(i.logic, x, y))]
    [] i.op = "mcrf"  -> [c EXCEPT !.cr = PutNibble(@, i.bf, Nibble(@, i.bfa))]
    [] i.op = "mcrxr" -> [c EXCEPT !.cr = PutNibble(@, i.bf, 2 * (c.xer \div 2 ^ CA)),
                                 !.xer = @ % 2 ^ CA]
    [] i.op = "mfcr"  -> [c EXCEPT !.gpr[i.rt] = c.cr]
    [] i.op = "mtcrf" -> [c EXCEPT !.cr = FromBits(
         {b \in 0 .. WordBits - 1 :
            IF (WordBits - 1 - b) \div 4 \in i.fields THEN Bit(c.gpr[i.rt], b) = 1
                                                      ELSE Bit(c.cr, b) = 1})]

ConditionStep ==
  /\ Fetched({"crlogic", "mcrf", "mcrxr", "mfcr", "mtcrf"})
  /\ Complete(conditionRegister(Advanced, Insn), mem)

\* Only XER, LR and CTR exist.
SpecialStep ==
  /\ Fetched({"mfspr", "mtspr"})
  /\ LET i == Insn
     IN  CASE i.spr \notin {"xer", "lr", "ctr"} -> Fault("unsupported_instruction", Advanced, mem)
           [] i.spr \in {"xer", "lr", "ctr"} /\ i.op = "mfspr" ->
                Complete([Advanced EXCEPT !.gpr[i.rt] = cpu[i.spr]], mem)
           [] i.spr \in {"xer", "lr", "ctr"} /\ i.op = "mtspr" ->
                Complete([Advanced EXCEPT ![i.spr] = cpu.gpr[i.rt]], mem)

SystemCall ==
  /\ Fetched({"sc"})
  /\ LET number == cpu.gpr[0]
     IN  CASE number \in DOMAIN call.syscalls ->
                Complete([Advanced EXCEPT !.gpr[3] = call.syscalls[number]], mem)
           [] number \notin DOMAIN call.syscalls /\ call.defaultReturn \in Word ->
                Complete([Advanced EXCEPT !.gpr[3] = call.defaultReturn], mem)
           [] number \notin DOMAIN call.syscalls /\ call.defaultReturn \notin Word ->
                Fault("system_call", Advanced, mem)

\* Ordering and cache hints do nothing; a word without meaning stops the call.
Hint == Fetched({"sync"}) /\ Complete(Advanced, mem)
Unsupported ==
  Fetched({"unsupported"}) /\ Fault("unsupported_instruction", Advanced, mem)

-----------------------------------------------------------------------------
(* Branches *)

\* CTR is counted down when bit 2 of BO is clear, whatever the condition says.
Counted(c, bo) == IF Bit(bo, 2) = 0 THEN [c EXCEPT !.ctr = Wrap(@ - 1)] ELSE c

\* (mutant) CTR is tested before it is counted down.
evaluateBranchCondition_early(c, bo, bi) ==
  /\ Bit(bo, 2) = 1 \/ (c.ctr # 0) # (Bit(bo, 1) = 1)
  /\ Bit(bo, 4) = 1 \/ crBit(c, bi) = (Bit(bo, 3) = 1)

evaluateBranchCondition(c, bo, bi) ==
  /\ Bit(bo, 2) = 1 \/ (Counted(c, bo).ctr # 0) # (Bit(bo, 1) = 1)
  /\ Bit(bo, 4) = 1 \/ crBit(c, bi) = (Bit(bo, 3) = 1)

Linked(c, i) == IF i.lk THEN [c EXCEPT !.lr = c.pc] ELSE c

\* bc links whether it is taken or not; b is a bc that always is.
DirectBranch ==
  /\ Fetched({"bc"})
  /\ LET i == Insn
         c == Counted(Linked(Advanced, i), i.bo)
         target == Wrap(IF i.aa THEN i.disp ELSE cpu.pc + i.disp)
     IN  Complete(IF evaluateBranchCondition(cpu, i.bo, i.bi)
                  THEN [c EXCEPT !.pc = target] ELSE c, mem)

\* A block of equal bytes, as the number it is in memory.
Repeated(byte, size) == MapThenSumSet(LAMBDA j : byte * 2 ^ (ByteBits * j), 0 .. size - 1)

\* executeImportStub: what the C library routines of a classic Mac import do.
Stub(kind, c, m) ==
  LET a == c.gpr[3]
      b == c.gpr[4]
      n == c.gpr[5]
      Move(from, to) ==
        LET ok == /\ n <= StubLimit
                  /\ n = 0 \/ (Permitted(m, from, n, "read") /\ Permitted(m, to, n, "write"))
        IN  [ok |-> ok, mem |-> IF ok /\ n # 0 THEN writeBytes(m, to, n, readBytes(m, from, n))
                                ELSE m]
      Fill(to, size, byte) ==
        LET ok == size <= StubLimit /\ (size = 0 \/ Permitted(m, to, size, "write"))
        IN  [ok |-> ok, mem |-> IF ok /\ size # 0
                                THEN writeBytes(m, to, size, Repeated(byte, size)) ELSE m]
  IN  CASE kind = "blockmove" -> Move(a, b)
        [] kind = "memmove"   -> Move(b, a)
        [] kind = "memset"    -> Fill(a, n, b % 2 ^ ByteBits)
        [] kind = "bzero"     -> Fill(a, b, 0)
        [] kind = "float"     -> [ok |-> TRUE, mem |-> m]

\* A taken bctr to zero with an import's identity in r12 is import glue: the stub
\* runs and control returns to LR.  The target is read before CTR is counted down.
IndirectBranch ==
  /\ Fetched({"bclr", "bcctr"})
  /\ LET i == Insn
         to == IF i.op = "bclr" THEN cpu.lr ELSE cpu.ctr
         target == to - (to % 4)
         c  == Counted(Advanced, i.bo)
         id == cpu.gpr[12]
         glue == i.op = "bcctr" /\ target = 0 /\ InImports(id)
         stub == Stub(call.stubs[id], c, mem)
     IN  CASE ~evaluateBranchCondition(cpu, i.bo, i.bi) -> Complete(c, mem)
           [] evaluateBranchCondition(cpu, i.bo, i.bi) /\ ~glue ->
                Complete([Linked(c, i) EXCEPT !.pc = target], mem)
           [] evaluateBranchCondition(cpu, i.bo, i.bi) /\ glue ->
                IF id \in DOMAIN call.stubs /\ stub.ok
                THEN Complete([c EXCEPT !.pc = c.lr], stub.mem)
                ELSE /\ cpu' = c /\ UNCHANGED <<call, mem, count>>
                     /\ Stop(IF id \in DOMAIN call.stubs THEN "memory_fault" ELSE "import_trap",
                             count + 1, id)

-----------------------------------------------------------------------------
(* Loads and stores *)

effectiveAddress(c, i) ==
  Wrap((IF i.ra = 0 THEN 0 ELSE c.gpr[i.ra])
       + (IF i.indexed THEN c.gpr[i.rb] ELSE signExtend16(i.imm)))

Updated(c, i, ea) == IF i.update THEN [c EXCEPT !.gpr[i.ra] = ea] ELSE c

\* The value is assigned before the base register is updated.
Load ==
  /\ Fetched({"load"})
  /\ LET i  == Insn
         ea == effectiveAddress(cpu, i)
         v  == readBytes(mem, ea, i.size)
         w  == CASE i.as = "zero"      -> v
                 [] i.as = "algebraic" -> Wrap(signExtend16(v))
                 [] i.as = "reversed"  -> byteSwap(v, i.size)
     IN  IF Permitted(mem, ea, i.size, "read")
         THEN Complete(Updated([Advanced EXCEPT !.gpr[i.rt] = w], i, ea), mem)
         ELSE Fault("memory_fault", Advanced, mem)

\* (mutant) The base register is updated before the access is tried.
Store_early ==
  /\ Fetched({"store"})
  /\ LET i  == Insn
         ea == effectiveAddress(cpu, i)
         v  == cpu.gpr[i.rt] % 2 ^ (ByteBits * i.size)
         w  == IF i.as = "reversed" THEN byteSwap(v, i.size) ELSE v
     IN  IF Permitted(mem, ea, i.size, "write")
         THEN Complete(Updated(Advanced, i, ea), writeBytes(mem, ea, i.size, w))
         ELSE Fault("memory_fault", Updated(Advanced, i, ea), mem)

Store ==
  /\ Fetched({"store"})
  /\ LET i  == Insn
         ea == effectiveAddress(cpu, i)
         v  == cpu.gpr[i.rt] % 2 ^ (ByteBits * i.size)
         w  == IF i.as = "reversed" THEN byteSwap(v, i.size) ELSE v
     IN  IF Permitted(mem, ea, i.size, "write")
         THEN Complete(Updated(Advanced, i, ea), writeBytes(mem, ea, i.size, w))
         ELSE Fault("memory_fault", Advanced, mem)

\* Registers from the first one on, in consecutive words.
storeWords(m, ea, first, n) ==
  FoldSet(LAMBDA j, acc : writeBytes(acc, Wrap(ea + 4 * j), 4, cpu.gpr[first + j]), m, 0 .. n - 1)

\* lmw and stmw go word by word and stop where one is refused: what came before
\* is done.  The base is read once.
Multiple ==
  /\ Fetched({"lmw", "stmw"})
  /\ LET i  == Insn
         ea == effectiveAddress(cpu, i)
         n  == NumRegs - i.rt
         At(j) == Wrap(ea + 4 * j)
         perm  == IF i.op = "lmw" THEN "read" ELSE "write"
         done  == Max({k \in 0 .. n : \A j \in 0 .. k - 1 : Permitted(mem, At(j), 4, perm)})
         c  == IF i.op = "stmw" THEN Advanced
               ELSE [Advanced EXCEPT !.gpr = [r \in Regs |->
                       IF r - i.rt \in 0 .. done - 1 THEN readBytes(mem, At(r - i.rt), 4) ELSE @[r]]]
         m  == IF i.op = "lmw" THEN mem ELSE storeWords(mem, ea, i.rt, done)
     IN  IF done = n THEN Complete(c, m) ELSE Fault("memory_fault", c, m)

\* lwarx and stwcx.: one address is reserved until the next stwcx.
Reserve ==
  /\ Fetched({"lwarx"})
  /\ LET ea == effectiveAddress(cpu, Insn)
     IN  IF ea % 4 = 0 /\ Permitted(mem, ea, 4, "read")
         THEN Complete([Advanced EXCEPT !.gpr[Insn.rt] = readBytes(mem, ea, 4),
                                        !.reserved = ea, !.valid = TRUE], mem)
         ELSE Fault("memory_fault", Advanced, mem)

StoreConditional ==
  /\ Fetched({"stwcx"})
  /\ LET ea == effectiveAddress(cpu, Insn)
         success == cpu.valid /\ cpu.reserved = ea
     IN  IF ea % 4 # 0 \/ (success /\ ~Permitted(mem, ea, 4, "write"))
         THEN Fault("memory_fault", Advanced, mem)
         ELSE Complete([setCrField(Advanced, 0, FALSE, FALSE, success, Bit(cpu.xer, SO) = 1)
                          EXCEPT !.valid = FALSE],
                       IF success THEN writeBytes(mem, ea, 4, cpu.gpr[Insn.rt]) ELSE mem)

ZeroBlock ==
  /\ Fetched({"dcbz"})
  /\ LET a  == effectiveAddress(cpu, Insn)
         ea == a - (a % LineBytes)
     IN  IF Permitted(mem, ea, LineBytes, "write")
         THEN Complete(Advanced, writeBytes(mem, ea, LineBytes, 0))
         ELSE Fault("memory_fault", Advanced, mem)

\* run has returned.
Stopped == result.reason \in StopReasons /\ UNCHANGED vars

-----------------------------------------------------------------------------
(* What the types of a configuration and the widths of the encoded fields say *)

Half   == 0 .. HalfModulus - 1
Fields == 0 .. ByteBits - 1     \* of CR

WellEncoded(i) ==
  /\ i.op \in AddSub \cup {"mullw", "mulhw", "mulhwu", "divw", "divwu", "cmpw", "cmplw", "tw"} =>
       i.ra \in Regs /\ i.rb \in Regs
  /\ i.op \in AddSub \cup {"mullw", "mulhw", "mulhwu", "divw", "divwu"} => i.rt \in Regs
  /\ i.op \in {"addi", "addis", "addic", "subfic", "mulli", "cmpwi", "cmplwi", "twi"} =>
       i.ra \in Regs /\ i.imm \in Half
  /\ i.op \in Logical => i.rt \in Regs /\ i.form \in {"register", "low", "high"}
  /\ i.op \in {"rlwinm", "rlwimi", "rlwnm"} =>
       i.rt \in Regs /\ i.rb \in (IF i.op = "rlwnm" THEN Regs ELSE 0 .. WordBits - 1)
  /\ i.op \in {"cntlzw", "extsh", "extsb", "mtspr"} => i.rt \in Regs
  /\ i.op \in {"slw", "srw", "sraw", "srawi"} =>
       i.rt \in Regs /\ i.rb \in (IF i.op = "srawi" THEN 0 .. WordBits - 1 ELSE Regs)
  /\ i.op \in {"cmpw", "cmplw", "cmpwi", "cmplwi", "mcrf", "mcrxr"} => i.bf \in Fields
  /\ i.op = "mcrf" => i.bfa \in Fields
  /\ i.op = "crlogic" => i.rt \in 0 .. WordBits - 1
  /\ i.op = "bc" => i.disp \in Int
  /\ i.op \in {"load", "store", "lmw", "stmw", "lwarx", "stwcx", "dcbz"} =>
       i.ra \in Regs /\ i.rt \in Regs /\ (IF i.indexed THEN i.rb \in Regs ELSE i.imm \in Half)
  /\ i.op \in {"load", "store"} =>
       i.size \in {1, 2, 4} /\ i.as \in {"zero", "algebraic", "reversed"}

WellTyped(k) ==
  /\ \A f \in {"importBase", "importSize", "heapBase", "heapSize", "stackBase", "stackSize",
                "entry", "toc", "transitionVector", "returnAddress"} : k[f] \in Word
  /\ k.limit \in Nat
  /\ k.image \in Seq(ToSet(k.image)) /\ k.writes \in Seq(ToSet(k.writes))
  /\ \A a \in ToSet(k.image) :
       a.base \in Word /\ a.size \in Word /\ a.perms \subseteq Perms
       /\ \A n \in DOMAIN a.bytes : a.bytes[n] \in Byte
  /\ \A w \in ToSet(k.writes) : w.address \in Word /\ w.value \in Word
  /\ \A r \in DOMAIN k.registers : k.registers[r] \in Word
  /\ \A n \in DOMAIN k.syscalls : k.syscalls[n] \in Word
  /\ \A n \in DOMAIN k.stubs :
       k.stubs[n] \in {"blockmove", "memmove", "memset", "bzero", "float"}
  /\ \A a \in DOMAIN k.code : WellEncoded(k.code[a])

ASSUME CallsAssumption == \A family \in Calls : \A k \in family : WellTyped(k)

Init ==
  /\ \E family \in Calls : call \in family
  /\ cpu = ZeroCpu /\ mem = {} /\ count = 0
  /\ result = Going("prepare")

Next ==
  \/ Prepare \/ AtLimit \/ Leave \/ Stopped
  \/ AddSubStep \/ MulDivStep \/ ImmediateStep \/ LogicalStep \/ RotateStep \/ ShiftStep
  \/ CompareStep \/ TrapStep \/ ConditionStep \/ SpecialStep \/ SystemCall \/ Hint
  \/ Unsupported \/ DirectBranch \/ IndirectBranch
  \/ Load \/ Store \/ Multiple \/ Reserve \/ StoreConditional \/ ZeroBlock

Spec == Init /\ [][Next]_vars

-----------------------------------------------------------------------------
(* Properties *)

Cpus == [gpr : [Regs -> Word], pc : Word, lr : Word, ctr : Word, cr : Word, xer : Word,
         reserved : Word, valid : BOOLEAN]

\* Registers hold words and memory bytes, whatever was computed (CpuState, Memory).
TypeOK ==
  /\ cpu \in Cpus /\ count \in Nat
  /\ \A r \in mem : r.bytes \in [0 .. r.size - 1 -> Byte]

Completed == count' = count + 1
Faulted   == result.reason = "run" /\ result'.reason \in StopReasons

\* What an instruction computes as integers, in no bounded width.
TrueValue(op, a, b, ca) ==
  CASE op \in {"add", "addc"}   -> a + b
    [] op = "adde"              -> a + b + ca
    [] op = "addze"             -> a + ca
    [] op = "addme"             -> a + ca - 1
    [] op \in {"subf", "subfc"} -> b - a
    [] op = "subfe"             -> b - a - 1 + ca
    [] op = "subfze"            -> ca - 1 - a
    [] op = "subfme"            -> ca - 2 - a
    [] op = "neg"               -> -a
    [] op = "mullw"             -> a * b

\* The target of an instruction whose flags are judged after it was assigned is none
\* of the sources that are read again then.
Unaliased(i) ==
  /\ i.op \in AddSub \ {"neg"} /\ i.oe =>
       i.rt # i.ra /\ (i.op \in {"add", "addc", "adde", "subf", "subfc", "subfe"} => i.rt # i.rb)
  /\ i.op \in {"sraw", "srawi"} => i.ra # i.rt

\* An OE form sets OV exactly when the integer result does not fit a word, and SO
\* sums the overflows up; an algebraic right shift sets CA exactly when it loses
\* bits of a negative number (addSub, mulDiv, shiftAlgebraic, setOverflow).
XerExact ==
  [][Completed => LET i == Insn IN
       /\ i.op \in AddSub \cup {"mullw"} /\ i.oe =>
            /\ (Bit(cpu'.xer, OV) = 1) = OutOfRange(TrueValue(i.op, Signed(cpu.gpr[i.ra]),
                                             Signed(cpu.gpr[i.rb]), Bit(cpu.xer, CA)))
            /\ (Bit(cpu'.xer, SO) = 1) = (Bit(cpu.xer, SO) = 1 \/ Bit(cpu'.xer, OV) = 1)
       /\ i.op \in {"sraw", "srawi"} =>
            LET s == Signed(cpu.gpr[i.rt])
                n == IF i.op = "srawi" THEN i.rb ELSE cpu.gpr[i.rb] % (2 * WordBits)
            IN  (Bit(cpu'.xer, CA) = 1) = (s < 0 /\ s % 2 ^ n # 0)]_vars

\* A call completes no more instructions than it may, and what it reports is how many it
\* completed; import glue that is refused counts itself too, but then it is named instead
\* of pc, and the limit still holds (the loop of run, its returns and fault).
ReportExact ==
  /\ count <= call.limit
  /\ result.reason \in StopReasons =>
       /\ result.instructions <= call.limit
       /\ \/ result.instructions = count
          \/ result.instructions = count + 1 /\ InImports(result.pc) /\ result.pc = cpu.gpr[12]

MemoryBytes(m) ==
  [a \in UNION {r.base .. endExclusive(r) - 1 : r \in m} |->
     LET r == CHOOSE r \in find(m, a, 1) : TRUE IN r.bytes[a - r.base]]

\* A call that stops, whatever the reason, stops before the instruction that it
\* reports has changed a byte or anything but pc and CTR; only lmw and stmw leave
\* a part of their work (every return fault(...) in run).
FaultChangesNothing ==
  Faulted /\ Insn.op \notin {"lmw", "stmw"} =>
    mem' = mem /\ [cpu' EXCEPT !.pc = 0, !.ctr = 0] = [cpu EXCEPT !.pc = 0, !.ctr = 0]

\* What a call reports is what it did: the instructions it counts are complete, but for
\* refused import glue, which counts itself; they are no more than it may execute, and
\* the one it stopped at has not begun (run, fault).
StopsExact == [][FaultChangesNothing /\ ReportExact']_vars

\* The regions of a call never overlap, whatever its configuration asks for, and once
\* the call runs they never change; an instruction changes bytes only where the memory
\* may be written (Memory::map, CallHarness::prepare, Memory::writeBytes and callers).
WritesConfined ==
  [][/\ Disjoint(mem')
     /\ result.reason = "run" =>
          /\ {[r EXCEPT !.bytes = 0] : r \in mem'} = {[r EXCEPT !.bytes = 0] : r \in mem}
          /\ \A a \in DOMAIN MemoryBytes(mem) :
               MemoryBytes(mem')[a] # MemoryBytes(mem)[a] =>
                 \E r \in find(mem, a, 1) : "write" \in r.perms]_vars

=============================================================================
