---------------------------- MODULE MCInterpreter ----------------------------
(***************************************************************************)
(* Routines a compiler would emit, with what each has to compute.  Bytes   *)
(* have 2 bits: words go to 255, and operands are those at which carries,  *)
(* signs and shifts change.  Memory: code 16-63, data 64-79, constants     *)
(* (read only) 80-87, imports 128-135, heap 144-151, stack 160-191.        *)
(***************************************************************************)
EXTENDS Interpreter, TLC

Edge  == {0, 1, 2, 90, 127, 128, 129, 255}
Sharp == {0, 1, 128, 255}

R(op, rt, ra, rb)  == [op |-> op, rt |-> rt, ra |-> ra, rb |-> rb, imm |-> 0, oe |-> FALSE,
                       rc |-> FALSE, form |-> "register"]
D(op, rt, ra, imm) == [R(op, rt, ra, 0) EXCEPT !.imm = imm % HalfModulus, !.form = "low"]
OE(i)     == [i EXCEPT !.oe = TRUE]
Rc(i)     == [i EXCEPT !.rc = TRUE]
Rot(op, ra, rt, sh, mb, me) ==
  [op |-> op, rt |-> rt, ra |-> ra, rb |-> sh, mb |-> mb, me |-> me, rc |-> TRUE]
Mem(op, size, as, rt, ra, imm) ==
  [op |-> op, size |-> size, as |-> as, rt |-> rt, ra |-> ra, rb |-> 0, imm |-> imm % HalfModulus,
   indexed |-> FALSE, update |-> FALSE]
Indexed(i, rb) == [i EXCEPT !.indexed = TRUE, !.rb = rb]
Updating(i)    == [i EXCEPT !.update = TRUE]
Word4(op, rt, ra, imm) == Mem(op, 4, "zero", rt, ra, imm)
Spr(op, spr, rt) == [op |-> op, spr |-> spr, rt |-> rt]
Bc(bo, bi, disp) == [op |-> "bc", bo |-> bo, bi |-> bi, disp |-> disp, aa |-> FALSE, lk |-> FALSE]
Bl(disp)  == [Bc(20, 0, disp) EXCEPT !.lk = TRUE]
Via(op)   == [op |-> op, bo |-> 20, bi |-> 0, lk |-> FALSE]
Blr       == Via("bclr")
Cmp(op, bf) == [op |-> op, bf |-> bf, ra |-> 3, rb |-> 4, imm |-> 0]
Sync      == [op |-> "sync"]

None0 == [x \in {} |-> 0]
Plain ==
  [image |-> << [base |-> 16, size |-> 48, perms |-> {"read", "execute"}, bytes |-> None0],
                [base |-> 64, size |-> 16, perms |-> {"read", "write"}, bytes |-> None0],
                [base |-> 80, size |-> 8, perms |-> {"read"}, bytes |-> [i \in 0 .. 7 |->
                   IF i = 1 THEN 1 ELSE IF i \in {5, 7} THEN 2 ELSE 0]] >>,
   importBase |-> 128, importSize |-> 8, heapBase |-> 144, heapSize |-> 8,
   stackBase |-> 160, stackSize |-> 32, entry |-> 16, toc |-> 64, transitionVector |-> 0,
   returnAddress |-> 240, limit |-> 20, registers |-> None0, writes |-> <<>>,
   ignoreTraps |-> FALSE, syscalls |-> 7 :> 9, defaultReturn |-> -1,
   stubs |-> 128 :> "memmove" @@ 132 :> "blockmove" @@ 133 :> "memset" @@ 134 :> "bzero"
             @@ 135 :> "float",
   code |-> None0, goal |-> "none", arg |-> 0, ends |-> "returned"]

Code(s) == [a \in {16 + 4 * n : n \in 0 .. Len(s) - 1} |-> s[((a - 16) \div 4) + 1]]

Routine(goal, arg, code, registers) ==
  [Plain EXCEPT !.goal = goal, !.arg = arg, !.code = Code(code), !.registers = registers]

Two(S)  == {3 :> a @@ 4 :> b : a, b \in S}
Four(S) == {3 :> a @@ 4 :> b @@ 5 :> c @@ 6 :> d : a, b, c, d \in S}

-----------------------------------------------------------------------------
(* Numbers of two words: r3 and r4, r5 and r6, the upper word first *)

WidePairs == { <<"+", <<R("addc", 4, 4, 6), R("adde", 3, 3, 5)>> >>,
               <<"-", <<R("subfc", 4, 6, 4), R("subfe", 3, 5, 3)>> >>,
               <<"negate", <<D("subfic", 4, 4, 0), R("subfze", 3, 3, 0)>> >>,
               <<"increment", <<D("addic", 4, 4, 1), R("addze", 3, 3, 0)>> >>,
               <<"decrement", <<Rc(D("addic", 4, 4, -1)), R("addme", 3, 3, 0)>> >>,
               <<"complement", <<D("subfic", 4, 4, -1), R("subfme", 3, 3, 0)>> >> }

WideCalls == {Routine("wide", w[1], w[2] \o <<Blr>>, g) : w \in WidePairs, g \in Four(Sharp)}

Pair(hi, lo) == hi * Modulus + lo
WideGoal(k) ==
  LET x == Pair(k.registers[3], k.registers[4])
      y == Pair(k.registers[5], k.registers[6])
      v == CASE k.arg = "+" -> x + y [] k.arg = "-" -> x - y [] k.arg = "negate" -> -x
             [] k.arg = "increment" -> x + 1 [] k.arg = "decrement" -> x - 1
             [] k.arg = "complement" -> -1 - x
  IN  /\ Pair(cpu.gpr[3], cpu.gpr[4]) = v % Modulus ^ 2
      /\ k.arg \in {"+", "increment"} => Bit(cpu.xer, CA) = v \div Modulus ^ 2
      /\ k.arg \in {"-", "decrement"} => (Bit(cpu.xer, CA) = 1) = (v >= 0)

\* Division by a power of two: an algebraic shift that is corrected by its carry.
DivideCalls ==
  {Routine("divide", n, <<R("srawi", 3, 5, n), R("addze", 5, 5, 0), Blr>>, 3 :> a)
     : n \in {0, 1, 3, 7}, a \in Word} \cup
  {Routine("divide", n, <<R("sraw", 3, 5, 4), R("addze", 5, 5, 0), Blr>>, 3 :> a @@ 4 :> n)
     : n \in {0, 1, 7, 8, 15}, a \in Edge}
DivideGoal(k) == Signed(cpu.gpr[5]) = Quotient(Signed(k.registers[3]), 2 ^ k.arg)

ProductCalls ==
  {Routine("product", 0, <<R("mulhw", 7, 3, 4), R("mullw", 8, 3, 4), R("mulhwu", 9, 3, 4),
                           R("divw", 10, 3, 4), R("divwu", 11, 3, 4), D("mulli", 6, 3, -3), Blr>>, g)
     : g \in Two(Edge)}
ProductGoal(k) ==
  LET a == k.registers[3]
      b == k.registers[4]
      sa == Signed(a)
      sb == Signed(b)
      q  == Signed(cpu.gpr[10])
  IN  /\ Signed(cpu.gpr[7]) * Modulus + cpu.gpr[8] = sa * sb
      /\ Pair(cpu.gpr[9], cpu.gpr[8]) = a * b
      /\ cpu.gpr[6] = (-3 * sa) % Modulus
      /\ b # 0 => a - b * cpu.gpr[11] \in 0 .. b - 1
      /\ b # 0 /\ ~OutOfRange(Quotient(sa, sb)) =>
           \E r \in -127 .. 127 : /\ sa = q * sb + r /\ r * r < sb * sb
                                  /\ r # 0 => (r < 0) = (sa < 0)

\* A counted loop: a count of zero means the whole range of CTR.
LoopCalls ==
  {[Routine("loop", 0, <<Spr("mtspr", "ctr", 3), D("addi", 4, 4, 1), Bc(16, 0, -4), Blr>>,
            3 :> n @@ 4 :> 250) EXCEPT !.limit = 600] : n \in {0, 1, 2, 255}}
LoopGoal(k) ==
  LET n == IF k.registers[3] = 0 THEN Modulus ELSE k.registers[3]
  IN  result.instructions = 2 * n + 2 /\ cpu.gpr[4] = (250 + n) % Modulus

\* A rotate puts bits mb to me, counted from the left and round the end, of the
\* rotated source into the target.
RotateCalls ==
  {Routine("rotate", <<op, sh, mb, me>>, <<Rot(op, 5, 3, IF op = "rlwnm" THEN 4 ELSE sh, mb, me), Blr>>,
           3 :> a @@ 4 :> sh @@ 5 :> b)
     : op \in {"rlwinm", "rlwimi", "rlwnm"}, sh \in {0, 3, 7}, mb, me \in {0, 1, 4, 5, 7},
       a, b \in {90, 129}}
FromLeft(x, p) == Bit(x, WordBits - 1 - p)
RotateGoal(k) ==
  LET sh == k.arg[2]
      chosen == {(k.arg[3] + n) % WordBits : n \in 0 .. (k.arg[4] - k.arg[3]) % WordBits}
      rest == IF k.arg[1] = "rlwimi" THEN k.registers[5] ELSE 0
  IN  \A p \in 0 .. WordBits - 1 :
        FromLeft(cpu.gpr[5], p) = IF p \in chosen THEN FromLeft(k.registers[3], (p + sh) % WordBits)
                                                  ELSE FromLeft(rest, p)

-----------------------------------------------------------------------------
(* Memory: byte order, frames, reservations and import glue *)

ByteCalls ==
  {Routine("bytes", 0, <<Indexed(Mem("store", 4, "reversed", 3, 2, 0), 0),
                         Mem("load", 1, "zero", 5, 2, 0),
                         Indexed(Mem("load", 4, "reversed", 6, 2, 0), 0),
                         Updating(Mem("store", 2, "zero", 3, 2, 4)),
                         Mem("load", 2, "algebraic", 7, 2, 0),
                         Indexed(Mem("load", 2, "reversed", 8, 2, 0), 0),
                         Updating(Word4("load", 9, 2, -2)), Blr>>, 3 :> a) : a \in Edge}
ByteGoal(k) ==
  LET a == k.registers[3]
  IN  /\ cpu.gpr[5] = a % 4 /\ cpu.gpr[6] = a
      /\ Signed(cpu.gpr[7]) % 16 = a % 16 /\ Signed(cpu.gpr[7]) \in -8 .. 7
      /\ cpu.gpr[8] = 4 * (a % 4) + ((a % 16) \div 4)
      \* the halfword at 66 is the upper half of a reversed, the one at 68 the lower half of a
      /\ cpu.gpr[2] = 66
      /\ cpu.gpr[9] = 16 * (4 * ((a \div 16) % 4) + (a \div 64)) + (a % 16)

\* A function that saves its registers, calls another that spoils them, and
\* restores them.
FrameCalls ==
  {Routine("frame", 0, <<Word4("stmw", 11, 1, -8), Spr("mfspr", "lr", 5), Bl(16),
                         Spr("mtspr", "lr", 5), Word4("lmw", 11, 1, -8), Blr,
                         D("addi", 11, 11, 1), D("addi", 12, 0, 5), Blr>>, 11 :> a @@ 12 :> b)
     : a, b \in Sharp}
FrameGoal(k) == \A r \in {11, 12} : cpu.gpr[r] = k.registers[r]

\* Of two conditional stores for one reservation the first one happens.
ReserveCalls ==
  {Routine("reserve", 0, <<Word4("lwarx", 5, 6, 0), Word4("stwcx", 3, 6, 0),
                           [op |-> "mfcr", rt |-> 8], Word4("stwcx", 4, 6, 0),
                           [op |-> "mfcr", rt |-> 9], Word4("load", 7, 6, 0), Blr>>,
           3 :> a @@ 4 :> b @@ 6 :> 68) : a, b \in Sharp}
ReserveGoal(k) ==
  cpu.gpr[7] = k.registers[3] /\ Nibble(cpu.gpr[8], 0) = 2 /\ Nibble(cpu.gpr[9], 0) = 0

\* Imported routines, also on blocks that overlap: r3, r4 and r5 are the arguments.
GlueCalls ==
  {[Routine("glue", 0, <<Spr("mtspr", "ctr", 0), Via("bcctr")>>,
            3 :> a @@ 4 :> b @@ 5 :> n @@ 12 :> id)
      EXCEPT !.writes = << [address |-> 64, value |-> 27], [address |-> 68, value |-> 228] >>,
             !.ends = ends]
     : <<id, a, b, n, ends>> \in
         {<<128, 65, 64, 5, "returned">>, <<128, 64, 66, 6, "returned">>, <<128, 64, 68, 0, "returned">>,
          <<128, 64, 76, 6, "memory_fault">>, <<128, 80, 64, 2, "memory_fault">>,
          <<128, 64, 68, 13, "memory_fault">>, <<132, 64, 67, 4, "returned">>,
          <<133, 66, 7, 5, "returned">>, <<134, 65, 3, 0, "returned">>, <<135, 0, 0, 0, "returned">>,
          <<130, 0, 0, 0, "import_trap">>} }
Before(a) == CASE a \in 64 .. 67 -> ByteOf(27, 4, a - 64) [] a \in 68 .. 71 -> ByteOf(228, 4, a - 68)
               [] OTHER -> 0
GlueGoal(k) ==
  LET g == k.registers
      id == g[12]
      to == IF id = 132 THEN g[4] ELSE g[3]
      from == IF id = 132 THEN g[3] ELSE g[4]
      n  == CASE k.ends # "returned" \/ id = 135 -> 0 [] id = 134 -> g[4] [] OTHER -> g[5]
  IN  \A a \in 64 .. 79 : MemoryBytes(mem)[a] =
        IF a \notin to .. to + n - 1 THEN Before(a)
        ELSE CASE id \in {128, 132} -> Before(from + a - to) [] id = 133 -> g[4] % 4 [] id = 134 -> 0

-----------------------------------------------------------------------------
(* Order, traps and ends *)

Less(op, a, b) == IF op \in {"cmpw", "cmpwi"} THEN Signed(a) < Signed(b) ELSE a < b
LessCalls ==
  {Routine("less", op, <<Cmp(op, 1), Bc(12, 4, 12), D("addi", 5, 0, 0), Blr, D("addi", 5, 0, 1), Blr>>, g)
     : op \in {"cmpw", "cmplw"}, g \in Two(Edge)} \cup
  {Routine("less", op, <<[Cmp(op, 1) EXCEPT !.imm = b], Bc(12, 4, 12), D("addi", 5, 0, 0), Blr,
                         D("addi", 5, 0, 1), Blr>>,
           3 :> a @@ 4 :> (IF op = "cmpwi" THEN Wrap(signExtend16(b)) ELSE b))
     : op \in {"cmpwi", "cmplwi"}, a \in Edge, b \in {0, 1, 15}}
LessGoal(k) == (cpu.gpr[5] = 1) = Less(k.arg, k.registers[3], k.registers[4])

Orders == { <<16, "signed", -1>>, <<8, "signed", 1>>, <<4, "signed", 0>>,
            <<2, "unsigned", -1>>, <<1, "unsigned", 1>> }
Sign(v) == CASE v < 0 -> -1 [] v = 0 -> 0 [] v > 0 -> 1
Traps(o, a, b) == Sign(IF o[2] = "signed" THEN Signed(a) - Signed(b) ELSE a - b) = o[3]
TrapCalls ==
  {[Routine("none", 0, <<R("tw", 0, 3, 4) @@ ("to" :> o[1]), Blr>>, g)
      EXCEPT !.ends = IF Traps(o, g[3], g[4]) THEN "trap" ELSE "returned"]
     : o \in Orders, g \in Two(Edge)} \cup
  {[Routine("none", 0, <<D("twi", 0, 3, 5) @@ ("to" :> 31), Blr>>, 3 :> 9) EXCEPT !.ignoreTraps = TRUE]}

Ending(ends, code, g) == [Routine("none", 0, code, g) EXCEPT !.ends = ends]
EndCalls ==
  {Ending("instruction_limit", <<Bc(20, 0, 0)>>, None0),
   Ending("import_trap", <<Bc(20, 0, 112)>>, None0),
   Ending("memory_fault", <<Bc(20, 0, 48)>>, None0),
   Ending("unsupported_instruction", <<Sync>>, None0),
   Ending("unsupported_instruction", <<Spr("mfspr", "pvr", 3), Blr>>, None0),
   Ending("system_call", <<[op |-> "sc"], Blr>>, None0),
   Ending("returned", <<[op |-> "sc"], Blr>>, 0 :> 7),
   [Ending("returned", <<[op |-> "sc"], Blr>>, None0) EXCEPT !.defaultReturn = 3]} \cup
  {Ending("memory_fault", <<i, Blr>>, 6 :> a @@ 5 :> 7 @@ 11 :> 3 @@ 12 :> 4)
     : a \in {77, 80, 88, 255}, i \in {Updating(Word4("store", 5, 6, 1)), Word4("stmw", 11, 6, 0)}} \cup
  {Ending("memory_fault", <<i, Blr>>, 6 :> a @@ 11 :> 3 @@ 12 :> 4)
     : a \in {77, 84, 255}, i \in {Word4("lmw", 11, 6, 1), Updating(Word4("load", 5, 6, 1))}} \cup
  {Ending(IF a = 75 THEN "returned" ELSE "memory_fault", <<Word4("dcbz", 0, 6, 0), Blr>>, 6 :> a)
     : a \in {75, 83, 255}} \cup
  {Ending("memory_fault", <<Word4("lwarx", 5, 6, 0), Word4("stwcx", 5, 6, b), Blr>>, 6 :> a)
     : a \in {65, 80, 88}, b \in {0, 1}}

\* Layouts: a heap that overlaps the stack, an area past the end, an address that
\* cannot be written, no entry, and a transition vector in the constants.
LayoutCalls ==
  {[Ending("invalid_configuration", <<Blr>>, None0) EXCEPT !.heapBase = h, !.heapSize = n]
     : h \in {156, 159, 160, 184, 190}, n \in {8}} \cup
  {[Ending("invalid_configuration", <<Blr>>, None0) EXCEPT !.stackBase = 250],
   [Ending("invalid_configuration", <<Blr>>, None0) EXCEPT !.heapSize = 0],
   [Ending("invalid_configuration", <<Blr>>, None0) EXCEPT !.entry = 0],
   [Ending("invalid_configuration", <<Blr>>, None0) EXCEPT !.transitionVector = 84],
   [Ending("invalid_configuration", <<Blr>>, None0)
      EXCEPT !.writes = << [address |-> 80, value |-> 1] >>],
   [Ending("returned", <<Blr>>, None0) EXCEPT !.heapBase = 152],
   [Ending("returned", <<Blr>>, None0) EXCEPT !.stackBase = 224],
   [Routine("vector", 0, <<Blr>>, None0) EXCEPT !.entry = 0, !.transitionVector = 80]}
VectorGoal == cpu.gpr[2] = 34 /\ cpu.gpr[12] = 80

-----------------------------------------------------------------------------
(* OE forms and algebraic shifts, for XER *)

OverflowOps == AddSub \cup {"mullw"}
XerCalls(rt, ra, rb) ==
  {Routine("none", 0, <<Spr("mtspr", "xer", 9), OE(R(op, rt, ra, rb)), Rc(OE(R(op, 8, 7, rb))), Blr>>,
           ra :> a @@ rb :> b @@ 9 :> x)
     : op \in OverflowOps, a, b \in Edge, x \in {0, 32, 128}}

AliasedCalls ==
  {XerCalls(3, 3, 4),
   {Routine("none", 0, <<R("srawi", 3, 3, n), R("addze", 3, 3, 0), Blr>>, 3 :> a)
      : n \in {1, 3}, a \in Edge}}

\* Logic on words, CR bits and counts of leading zeros: x & ~y = ~(~x | y), and so on.
LogicCalls ==
  {Routine("logic", 0, <<R("andc", 3, 5, 4), R("orc", 4, 6, 3), R("nand", 3, 7, 4), R("and", 3, 8, 4),
                         R("eqv", 3, 9, 4), R("xor", 3, 10, 4), R("nor", 3, 11, 4), R("or", 3, 12, 4), Blr>>,
           g) : g \in Two(Edge)}
LogicGoal(k) ==
  /\ cpu.gpr[5] + cpu.gpr[6] = Modulus - 1 /\ cpu.gpr[7] + cpu.gpr[8] = Modulus - 1
  /\ cpu.gpr[9] + cpu.gpr[10] = Modulus - 1 /\ cpu.gpr[11] + cpu.gpr[12] = Modulus - 1
  /\ cpu.gpr[12] = cpu.gpr[8] + cpu.gpr[10]
  /\ cpu.gpr[8] + cpu.gpr[12] = k.registers[3] + k.registers[4]
  /\ cpu.gpr[5] + cpu.gpr[8] = k.registers[3]

\* Normalising a number with cntlzw and slw, and undoing it with srw.
NormalCalls ==
  {Routine("normal", 0, <<R("cntlzw", 3, 5, 0), R("slw", 3, 6, 5), R("srw", 6, 7, 5),
                          R("extsb", 3, 8, 0), R("extsh", 3, 9, 0), D("addis", 10, 3, -1), Blr>>, 3 :> a)
     : a \in Word}
NormalGoal(k) ==
  LET a == k.registers[3]
  IN  /\ cpu.gpr[7] = a /\ (a # 0 => cpu.gpr[6] >= Modulus \div 2)
      /\ (cpu.gpr[8] - a) % 4 = 0 /\ Signed(cpu.gpr[8]) \in -2 .. 1
      /\ (cpu.gpr[9] - a) % 16 = 0 /\ Signed(cpu.gpr[9]) \in -8 .. 7
      /\ cpu.gpr[10] = (a - 16) % Modulus

\* CR moved through a register and back, bits combined, and the summary of XER.
CrCalls ==
  {Routine("cr", 0, <<[op |-> "mtcrf", rt |-> 3, fields |-> {0, 1}],
                      [op |-> "crlogic", logic |-> "xor", rt |-> 0, ra |-> 0, rb |-> 0],
                      [op |-> "mcrf", bf |-> 1, bfa |-> 0], [op |-> "mfcr", rt |-> 5],
                      Spr("mtspr", "xer", 3), [op |-> "mcrxr", bf |-> 0], [op |-> "mfcr", rt |-> 6],
                      Spr("mfspr", "xer", 7), [op |-> "mtcrf", rt |-> 3, fields |-> {1}],
                      [op |-> "mfcr", rt |-> 8], Blr>>, 3 :> a) : a \in Edge}
CrGoal(k) ==
  LET a == k.registers[3]
      high == (a \div 16) % 8
      flags == 2 * (a \div 32)
  IN  /\ cpu.gpr[5] = 17 * high
      /\ cpu.gpr[6] = 16 * flags + high /\ cpu.gpr[7] = a % 32
      /\ cpu.gpr[8] = 16 * flags + (a % 16)

MCCalls ==
  {WideCalls, DivideCalls, ProductCalls, LoopCalls, RotateCalls, ByteCalls, FrameCalls,
         ReserveCalls, GlueCalls, LessCalls, TrapCalls, EndCalls, LayoutCalls, LogicCalls,
         NormalCalls, CrCalls, XerCalls(7, 3, 4)}

\* XerExact is checked, and proved, of code whose targets are not judged as sources;
\* AliasedCalls are what is left out.
ASSUME CallsAreUnaliased ==
  \A family \in MCCalls : \A k \in family : \A a \in DOMAIN k.code : Unaliased(k.code[a])

-----------------------------------------------------------------------------
\* Each routine ends as it should, and when it returns it has computed what its
\* source line says, in unbounded integers: the carries, record bits, masks, CTR,
\* byte order, saved registers and reservations that one instruction leaves are
\* those the next one needs (run, evaluateBranchCondition, executeImportStub).
CallsCompute ==
  result.reason \in StopReasons =>
    /\ result.reason = call.ends
    /\ CASE call.goal = "wide"    -> WideGoal(call)
         [] call.goal = "divide"  -> DivideGoal(call)
         [] call.goal = "product" -> ProductGoal(call)
         [] call.goal = "loop"    -> LoopGoal(call)
         [] call.goal = "rotate"  -> RotateGoal(call)
         [] call.goal = "bytes"   -> ByteGoal(call)
         [] call.goal = "frame"   -> FrameGoal(call)
         [] call.goal = "reserve" -> ReserveGoal(call)
         [] call.goal = "glue"    -> GlueGoal(call)
         [] call.goal = "less"    -> LessGoal(call)
         [] call.goal = "vector"  -> VectorGoal
         [] call.goal = "logic"   -> LogicGoal(call)
         [] call.goal = "normal"  -> NormalGoal(call)
         [] call.goal = "cr"      -> CrGoal(call)
         [] call.goal = "none"    -> TRUE
=============================================================================
