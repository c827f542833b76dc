------------------------------- MODULE Disasm -------------------------------
(***************************************************************************)
(* How Detours copies one instruction of the function it hooks into the    *)
(* trampoline (disasm.cpp, the part for x86 and x64): it has to find the   *)
(* instruction's length, and a relative address in it has to lead from the *)
(* copy to where it led from the original.  A behaviour copies one         *)
(* instruction.                                                            *)
(*                                                                         *)
(* An instruction is its first bytes, up to the SIB byte, and the number   *)
(* in its relative field.  Such a number has 8, 16 or 32 bits, of which    *)
(* the ranges are scaled down: a field of n bytes holds -Half(n)..Half(n)-1.*)
(* The second half is about the part of disasm.cpp for ARM64.              *)
(***************************************************************************)
EXTENDS Integers, SequencesExt, FiniteSets

CONSTANTS
    Half8, Half16, Half32,  \* half the range of a field of 1, 2 and 4 bytes
    Away,         \* how far the trampoline is from the function
    DisLiberties  \* what the copier does not stand: "loop", to copy a jump that
                  \* has no long form, "rel16", a jump with 16 bits, "xbegin", a
                  \* relative field behind ModR/M, "far", to refer to what the
                  \* trampoline does not reach, "addr16", 16 bit addresses,
                  \* and "evex", instructions that are others in EVEX

VARIABLES insn, copied  \* the instruction, and its copy, <<>> before

disVars == <<insn, copied>>

Half(n) == CASE n = 1 -> Half8 [] n = 2 -> Half16 [] n = 4 -> Half32
\* What is left of v in a field of n bytes.
Kept(v, n) == ((v + Half(n)) % (2 * Half(n))) - Half(n)

Byte(b, i) == IF i \in DOMAIN b THEN b[i] ELSE 0

-----------------------------------------------------------------------------
(***************************************************************************)
(* The entries of the tables: the function that copies, and for CopyBytes  *)
(* the size, the size with 16 bit operands, where ModR/M and the relative  *)
(* field are, and a flag.  Where the code only differs in the target it    *)
(* reports (DYNAMIC), the entries are one.                                 *)
(***************************************************************************)
Entry(n, n16, m, r, f) == [copy |-> "Bytes", size |-> n, size16 |-> n16, mod |-> m, rel |-> r, flag |-> f]
By(f) == [copy |-> f]

Invalid == By("Invalid")
Bytes(n) == Entry(n, n, 0, 0, "")
Bytes2CantJump == Entry(2, 2, 0, 1, "NOENLARGE")
Bytes3Or5 == Entry(5, 3, 0, 0, "")
Bytes5Or7 == Entry(7, 5, 0, 0, "")
Bytes2Mod == Entry(2, 2, 1, 0, "")
Bytes2Mod1 == Entry(3, 3, 1, 0, "")
Bytes2ModOperand == Entry(6, 4, 1, 0, "")
Bytes3Mod == Entry(3, 3, 2, 0, "")
Bytes3Mod1 == Entry(4, 4, 2, 0, "")
Xop(imm) == Entry(5 + imm, 5 + imm, 4, 0, "")

Bytes1Address(x64) == IF x64 THEN Entry(9, 5, 0, 0, "ADDRESS") ELSE Entry(5, 3, 0, 0, "ADDRESS")
Bytes3Or5Rax(x64) == Entry(5, 3, 0, 0, IF x64 THEN "RAX" ELSE "")
Bytes3Or5Target(x64) == Entry(5, IF x64 THEN 5 ELSE 3, 0, 1, "")

OnX86(x64, e) == IF x64 THEN Invalid ELSE e

\* s_rceCopyTable.
Table00(x64, c) ==
    CASE c = \h0F -> By("0F")
      [] c \in {\h26, \h2E, \h36, \h3E} -> By("Segment")
      [] OTHER -> CASE c % 8 < 4 -> Bytes2Mod
                    [] c % 8 = 4 -> Bytes(2)
                    [] c % 8 = 5 -> Bytes3Or5
                    [] OTHER -> OnX86(x64, Bytes(1))

Table40(x64, c) ==
    CASE c < \h50 -> IF x64 THEN By("Rax") ELSE Bytes(1)
      [] c \in {\h60, \h61} -> OnX86(x64, Bytes(1))
      [] c = \h62 -> By("Evex")
      [] c = \h63 -> Bytes2Mod
      [] c \in {\h64, \h65} -> By("Segment")
      [] c = \h66 -> By("66")
      [] c = \h67 -> By("67")
      [] c = \h68 -> Bytes3Or5
      [] c = \h69 -> Bytes2ModOperand
      [] c = \h6A -> Bytes(2)
      [] c = \h6B -> Bytes2Mod1
      [] c >= \h70 -> By("Jump")
      [] OTHER -> Bytes(1)

Table80(x64, c) ==
    CASE c \in {\h80, \h83} -> Bytes2Mod1
      [] c = \h81 -> Bytes2ModOperand
      [] c = \h82 -> OnX86(x64, Bytes2Mod1)
      [] c \in \h84..\h8E -> Bytes2Mod
      [] c = \h8F -> By("Xop")
      [] c = \h9A -> OnX86(x64, Bytes5Or7)
      [] c \in \hA0..\hA3 -> Bytes1Address(x64)
      [] c = \hA8 \/ c \in \hB0..\hB7 -> Bytes(2)
      [] c = \hA9 -> Bytes3Or5
      [] c >= \hB8 -> Bytes3Or5Rax(x64)
      [] OTHER -> Bytes(1)

TableC0(x64, c) ==
    CASE c \in {\hC0, \hC1, \hC6} -> Bytes2Mod1
      [] c \in {\hC2, \hCA} -> Bytes(3)
      [] c = \hC4 -> By("Vex3")
      [] c = \hC5 -> By("Vex2")
      [] c = \hC7 -> Bytes2ModOperand
      [] c = \hC8 -> Bytes(4)
      [] c = \hCD \/ c \in \hE4..\hE7 -> Bytes(2)
      [] c = \hCE -> OnX86(x64, Bytes(1))
      [] c \in \hD0..\hD3 \cup \hD8..\hDF \cup {\hFE} -> Bytes2Mod
      [] c \in {\hD4, \hD5} -> OnX86(x64, Bytes(2))
      [] c = \hD6 -> Invalid
      [] c \in \hE0..\hE3 -> Bytes2CantJump
      [] c \in {\hE8, \hE9} -> Bytes3Or5Target(x64)
      [] c = \hEA -> OnX86(x64, Bytes5Or7)
      [] c = \hEB -> By("Jump")
      [] c = \hF0 -> By("Prefix")
      [] c = \hF2 -> By("F2")
      [] c = \hF3 -> By("F3")
      [] c = \hF6 -> By("F6")
      [] c = \hF7 -> By("F7")
      [] c = \hFF -> By("FF")
      [] OTHER -> Bytes(1)

Table(x64, c) ==
    CASE c < \h40 -> Table00(x64, c)
      [] c \in \h40..\h7F -> Table40(x64, c)
      [] c \in \h80..\hBF -> Table80(x64, c)
      [] OTHER -> TableC0(x64, c)

\* s_rceCopyTable0F; Copy0F00 copies what the entry of x64 copies.
Table0F00(x64, c) ==
    CASE c \in {\h04, \h0A, \h0C, \h25, \h27, \h36, \h39} \cup \h3B..\h3F -> Invalid
      [] c \in {\h24, \h26} -> OnX86(x64, Bytes2Mod)
      [] c \in \h05..\h09 \cup {\h0B, \h0E} \cup \h30..\h35 \cup {\h37} -> Bytes(1)
      [] c = \h0F -> Bytes2Mod1
      [] c = \h38 -> Bytes3Mod
      [] c = \h3A -> Bytes3Mod1
      [] OTHER -> Bytes2Mod

Table0F40(c) ==
    CASE c \in \h70..\h73 -> Bytes2Mod1
      [] c = \h77 -> Bytes(1)
      [] c = \h78 -> By("0F78")
      [] c \in {\h7A, \h7B} -> Invalid
      [] OTHER -> Bytes2Mod

Table0F80(x64, c) ==
    CASE c \in \h80..\h8F -> Bytes3Or5Target(x64)
      [] c \in \hA0..\hA2 \cup \hA8..\hAA -> Bytes(1)
      [] c \in {\hA4, \hAC, \hBA} -> Bytes2Mod1
      [] c = \hB8 -> IF x64 THEN Bytes2Mod ELSE By("0FB8")
      [] c = \hB9 -> Invalid
      [] OTHER -> Bytes2Mod

Table0FC0(c) ==
    CASE c \in {\hC2, \hC4, \hC5, \hC6} -> Bytes2Mod1
      [] c \in \hC8..\hCF -> Bytes(1)
      [] c = \hFF -> Invalid
      [] OTHER -> Bytes2Mod

Table0F(x64, c) ==
    CASE c < \h40 -> Table0F00(x64, c)
      [] c \in \h40..\h7F -> Table0F40(c)
      [] c \in \h80..\hBF -> Table0F80(x64, c)
      [] OTHER -> Table0FC0(c)

\* s_rbModRm: the bytes behind ModR/M, and whether they are a SIB byte that can
\* have four more behind it, or relative to the next instruction.
ModRm(m) ==
    LET mod == m \div 64
        rm == m % 8
    IN  [more |-> CASE mod = 0 -> (CASE rm = 4 -> 1 [] rm = 5 -> 4 [] OTHER -> 0)
                    [] mod = 1 -> IF rm = 4 THEN 2 ELSE 1
                    [] mod = 2 -> IF rm = 4 THEN 5 ELSE 4
                    [] mod = 3 -> 0,
         sib |-> mod = 0 /\ rm = 4, rip |-> mod = 0 /\ rm = 5]

-----------------------------------------------------------------------------
(***************************************************************************)
(* Copying.  x is the instruction, b its bytes, i the next one to look at, *)
(* and f what the prefixes say.  The answer: the length of the             *)
(* instruction, of its copy, by how much the caller is told that the copy  *)
(* is longer, and where a relative field of the copy leads, all from the   *)
(* start of the instruction.                                               *)
(***************************************************************************)
Same(n) == [next |-> n, size |-> n, extra |-> 0, leads |-> {}]

\* A bug: the field is taken from the start of the instruction.
AdjustTargetStart(x, n, width, noEnlarge) ==
    [next |-> n, size |-> n, extra |-> 0, leads |-> {x.by + n + Kept(x.old - x.by - n, width)}]

\* A field that cannot hold the new offset is cut, and the caller is told that
\* the copy is as much longer as a field of four bytes would be - or, for a
\* jump without a long form, as much shorter.
AdjustTarget(x, n, width, noEnlarge) ==
    LET new == x.old - x.by
        more == IF new \in -Half(width)..(Half(width) - 1) THEN 0 ELSE 4 - width
    IN  [next |-> n, size |-> n, extra |-> IF noEnlarge THEN 0 - more ELSE more,
         leads |-> {x.by + n + Kept(new, width)}]

\* How many bytes an entry stands for; REX.W trumps 66.
FixedSize(x64, f, e) ==
    IF e.flag = "ADDRESS" THEN IF f.address THEN e.size16 ELSE e.size
    ELSE IF x64 /\ f.rax THEN e.size + (IF e.flag = "RAX" THEN 4 ELSE 0)
    ELSE IF f.operand THEN e.size16 ELSE e.size

CopyBytes(x, f, e, i) ==
    LET m == ModRm(Byte(x.b, i + e.mod))
        rip == e.mod > 0 /\ m.rip /\ x.x64
        n == FixedSize(x.x64, f, e)
             + (IF e.mod > 0 THEN m.more ELSE 0)
             + (IF e.mod > 0 /\ m.sib /\ Byte(x.b, i + e.mod + 1) % 8 = 5 THEN 4 ELSE 0)
    IN  IF e.rel > 0 \/ rip
        THEN AdjustTarget(x, i - 1 + n, IF rip THEN 4 ELSE n - e.rel, e.flag = "NOENLARGE")
        ELSE Same(i - 1 + n)

\* A short jump becomes a long one: jmp 3 bytes longer, jcc 4.
CopyBytesJump(x, i) ==
    LET more == IF x.b[i] = \hEB THEN 3 ELSE 4
    IN  [next |-> i + 1, size |-> i + 1 + more, extra |-> more,
         leads |-> {x.by + (i + 1 + more) + Kept(x.old - (x.by + more), 4)}]

\* An entry of s_rceCopyTable0F.
CopyMapped(x, f, e, i) ==
    CASE e.copy = "Bytes" -> CopyBytes(x, f, e, i)
      [] e.copy = "0F78" -> CopyBytes(x, f, IF f.f2 \/ f.operand THEN Bytes(4) ELSE Bytes2Mod, i)
      [] e.copy = "0FB8" -> CopyBytes(x, f, IF f.f3 THEN Bytes2Mod ELSE Bytes3Or5, i)
      [] e.copy = "Invalid" -> Same(i)

Reg(m) == (m \div 8) % 8

CopyF6(x, f, i) == CopyBytes(x, f, IF Reg(Byte(x.b, i + 1)) = 0 THEN Bytes2Mod1 ELSE Bytes2Mod, i)
CopyF7(x, f, i) == CopyBytes(x, f, IF Reg(Byte(x.b, i + 1)) = 0 THEN Bytes2ModOperand ELSE Bytes2Mod, i)

\* The target of a call or jump through memory, which nobody asks for, is left
\* out.
CopyFF(x, f, i) == CopyBytes(x, f, Bytes2Mod, i)

\* p is a prefix of the instruction by another name, m the table.
CopyVexEvexCommon(x, f, m, p, i) ==
    LET g == [f EXCEPT !.operand = @ \/ p = 1, !.f3 = @ \/ p = 2, !.f2 = @ \/ p = 3]
    IN  CASE m = 1 -> CopyMapped(x, g, Table0F(x.x64, Byte(x.b, i)), i)
          [] m = 2 -> CopyBytes(x, g, Bytes2Mod, i)
          [] m = 3 -> CopyBytes(x, g, Bytes2Mod1, i)
          [] OTHER -> Same(i)

\* On x86 the first byte of VEX and EVEX is LES, LDS or BOUND as well.
IsOld(x, i) == ~x.x64 /\ Byte(x.b, i + 1) < \hC0

CopyVex3(x, f, i) ==
    IF IsOld(x, i) THEN CopyBytes(x, f, Bytes2Mod, i)
    ELSE LET last == Byte(x.b, i + 2)
         IN  CopyVexEvexCommon(x, [f EXCEPT !.rax = @ \/ (x.x64 /\ last >= \h80)],
                               Byte(x.b, i + 1) % 32, last % 4, i + 3)

CopyVex2(x, f, i) ==
    IF IsOld(x, i) THEN CopyBytes(x, f, Bytes2Mod, i)
    ELSE CopyVexEvexCommon(x, f, 1, Byte(x.b, i + 1) % 4, i + 2)

CopyEvex(x, f, i) ==
    LET p0 == Byte(x.b, i + 1)
        p1 == Byte(x.b, i + 2)
    IN  IF IsOld(x, i) THEN CopyBytes(x, f, Bytes2Mod, i)
        ELSE IF (p0 \div 4) % 4 # 0 \/ (p1 \div 4) % 2 = 0 THEN Same(i)
        ELSE CopyVexEvexCommon(x, [f EXCEPT !.rax = @ \/ (x.x64 /\ p1 >= \h80)], p0 % 4, p1 % 4, i + 4)

CopyXop(x, f, i) ==
    LET m == Byte(x.b, i + 1) % 32
    IN  CopyBytes(x, f, CASE m = 8 -> Xop(1) [] m = 9 -> Xop(0) [] m = 10 -> Xop(4) [] OTHER -> Bytes2Mod, i)

\* CopyBytesPrefix and the functions that call it.
PrefixCopies == {"Prefix", "Segment", "Rax", "66", "67", "F2", "F3"}
FirstOther(x) ==
    CHOOSE i \in DOMAIN x.b :
        /\ Table(x.x64, x.b[i]).copy \notin PrefixCopies
        /\ \A j \in 1..i - 1 : Table(x.x64, x.b[j]).copy \in PrefixCopies
FlagsOf(P) ==
    [operand |-> \h66 \in P, address |-> \h67 \in P, f2 |-> \hF2 \in P, f3 |-> \hF3 \in P,
     rax |-> \E c \in P : c \in \h48..\h4F]

CopyInstruction(x) ==
    LET i == FirstOther(x)
        f == FlagsOf({x.b[j] : j \in 1..i - 1})
        e == Table(x.x64, x.b[i])
    IN  CASE e.copy = "Bytes" -> CopyBytes(x, f, e, i)
          [] e.copy = "Jump" -> CopyBytesJump(x, i)
          [] e.copy = "0F" -> CopyMapped(x, f, Table0F(x.x64, Byte(x.b, i + 1)), i + 1)
          [] e.copy = "F6" -> CopyF6(x, f, i)
          [] e.copy = "F7" -> CopyF7(x, f, i)
          [] e.copy = "FF" -> CopyFF(x, f, i)
          [] e.copy = "Vex3" -> CopyVex3(x, f, i)
          [] e.copy = "Vex2" -> CopyVex2(x, f, i)
          [] e.copy = "Evex" -> CopyEvex(x, f, i)
          [] e.copy = "Xop" -> CopyXop(x, f, i)
          [] e.copy = "Invalid" -> Same(i)

-----------------------------------------------------------------------------
(***************************************************************************)
(* The processor's view: opcode c of a map, with prefixes pre, ModR/M m    *)
(* and SIB s.                                                              *)
(***************************************************************************)
Operand16(x) == \h66 \in x.pre /\ ~x.w
Z(x) == IF Operand16(x) THEN 2 ELSE 4
Rex == \h40..\h4F
Undefined(x64, map) ==
    IF map = "1"
    THEN {\h0F, \h26, \h2E, \h36, \h3E, \h64, \h65, \h66, \h67, \hD6, \hF0, \hF2, \hF3}
         \cup (IF x64 THEN {\h06, \h07, \h0E, \h16, \h17, \h1E, \h1F, \h27, \h2F, \h37, \h3F, \h60, \h61,
                            \h62, \h82, \h9A, \hC4, \hC5, \hCE, \hD4, \hD5, \hEA} \cup Rex
               ELSE {})
    ELSE {\h04, \h0A, \h0C, \h25, \h27, \h36, \h38, \h39, \h3A, \h7A, \h7B, \hB9, \hFF} \cup \h3B..\h3F
         \cup (IF x64 THEN {\h24, \h26} ELSE {})

HasModRm(x) ==
    LET c == x.c IN
    CASE x.map = "1" ->
            (c < \h40 /\ c % 8 < 4)
            \/ c \in \h80..\h8F \cup \hD0..\hD3 \cup \hD8..\hDF
                     \cup {\h62, \h63, \h69, \h6B, \hC0, \hC1, \hC4, \hC5, \hC6, \hC7, \hF6, \hF7, \hFE, \hFF}
      [] x.map = "0F" ->
            /\ c \notin \h05..\h09 \cup \h30..\h37 \cup \h80..\h8F \cup \hA0..\hA2 \cup \hA8..\hAA \cup \hC8..\hCF
                        \cup {\h0B, \h0E, \h77}
            /\ c = \hB8 => x.x64 \/ \hF3 \in x.pre
      [] OTHER -> TRUE

\* Width of a relative field behind the opcode; xbegin has one behind ModR/M.
Relative(x) ==
    LET near == IF x.x64 THEN 4 ELSE Z(x) IN
    CASE x.map = "1" /\ x.c \in \h70..\h7F \cup \hE0..\hE3 \cup {\hEB} -> 1
      [] x.map = "1" /\ x.c \in {\hE8, \hE9} -> near
      [] x.map = "0F" /\ x.c \in \h80..\h8F -> near
      [] x.map = "1" /\ x.c = \hC7 /\ x.m = \hF8 -> Z(x)
      [] OTHER -> 0

Immediate(x) ==
    LET c == x.c IN
    CASE x.map = "1" ->
          ( CASE c < \h40 -> IF c % 8 = 4 THEN 1 ELSE IF c % 8 = 5 THEN Z(x) ELSE 0
              [] c \in \hB0..\hB7 \cup \hE4..\hE7 \cup {\h6A, \h6B, \h80, \h82, \h83, \hA8, \hC0, \hC1, \hC6,
                                                         \hCD, \hD4, \hD5} -> 1
              [] c = \hF6 /\ Reg(x.m) = 0 -> 1
              [] c \in {\h68, \h69, \h81, \hA9, \hC7} \/ (c = \hF7 /\ Reg(x.m) = 0) -> Z(x)
              [] c \in \hB8..\hBF -> IF x.w THEN 8 ELSE Z(x)
              [] c \in {\hC2, \hCA} -> 2
              [] c = \hC8 -> 3
              [] c \in {\h9A, \hEA} -> 2 + Z(x)
              [] c \in \hA0..\hA3 -> (IF x.x64 THEN 8 ELSE 4) \div (IF \h67 \in x.pre THEN 2 ELSE 1)
              [] OTHER -> Relative(x) )
      [] x.map = "0F" ->
          ( CASE c \in \h70..\h73 \cup \hC4..\hC6 \cup {\h0F, \hA4, \hAC, \hBA, \hC2} -> 1
              [] c = \h78 /\ ~x.coded /\ x.pre \cap {\h66, \hF2} # {} -> 2
              [] c = \hB8 /\ ~HasModRm(x) -> Z(x)
              [] OTHER -> Relative(x) )
      [] x.map \in {"0F3A", "xop8"} -> 1
      [] x.map = "xopA" -> 4
      [] OTHER -> 0

\* ModR/M, SIB and displacement.
Address(x) ==
    LET mod == x.m \div 64
        rm == x.m % 8
    IN  CASE ~HasModRm(x) -> 0
          [] HasModRm(x) /\ mod = 3 -> 1
          [] HasModRm(x) /\ mod # 3 ->
                IF ~x.x64 /\ \h67 \in x.pre
                THEN 1 + CASE mod = 0 -> (IF rm = 6 THEN 2 ELSE 0) [] mod = 1 -> 1 [] mod = 2 -> 2
                ELSE 1 + (IF rm = 4 THEN 1 ELSE 0)
                       + CASE mod = 0 -> IF rm = 5 \/ (rm = 4 /\ x.s % 8 = 5) THEN 4 ELSE 0
                           [] mod = 1 -> 1 [] mod = 2 -> 4

ToInstruction(x) == x.x64 /\ HasModRm(x) /\ x.m \div 64 = 0 /\ x.m % 8 = 5

LengthOf(x) == x.front + 1 + Address(x) + Immediate(x)

\* The whole instruction is copied, the caller is told how long the copy is,
\* and the copy leads to where the instruction leads.
CopiesLead ==
    copied # <<>> =>
        LET n == LengthOf(insn)
            c == copied[1]
        IN  /\ c.next = n /\ c.size = n + c.extra
            /\ c.leads = IF Relative(insn) > 0 \/ ToInstruction(insn) THEN {n + insn.old} ELSE {}

-----------------------------------------------------------------------------
\* bound: the instructions that are copied.
PrefixSeqs(x64) ==
    {<<>>, <<\h66>>, <<\hF2>>, <<\hF3>>, <<\h64>>}
    \cup (IF x64 THEN {<<\h48>>, <<\h66, \h48>>, <<\h67>>, <<\h41>>}
          ELSE IF "addr16" \in DisLiberties THEN {<<\h67>>} ELSE {})

\* What comes between the prefixes and the opcode, the map it selects, and the
\* prefix it stands for.
Form(l, m, cs, p, r) == [lead |-> l, map |-> m, cs |-> cs, p |-> p, w |-> r]
Forms(x64) ==
    LET vex == {\h10, \h58, \h70, \h77, \hC2, \hEF}
        evex == {\h10, \h58, \h70, \hC2} \cup (IF "evex" \in DisLiberties THEN {\h78, \h7A} ELSE {})
    IN  {Form(<<>>, "1", 0..255 \ Undefined(x64, "1"), {}, FALSE),
         Form(<<\h0F>>, "0F", 0..255 \ Undefined(x64, "0F"), {}, FALSE),
         Form(<<\h0F, \h38>>, "0F38", {\h17}, {}, FALSE),
         Form(<<\h0F, \h3A>>, "0F3A", {\h17}, {}, FALSE),
         Form(<<\hC5, \hF8>>, "0F", vex, {}, FALSE),
         Form(<<\hC5, \hF9>>, "0F", vex, {\h66}, FALSE),
         Form(<<\hC4, \hE1, \hF8>>, "0F", vex, {}, TRUE),
         Form(<<\hC4, \hE2, \h79>>, "0F38", {\h98}, {\h66}, FALSE),
         Form(<<\hC4, \hE3, \h79>>, "0F3A", {\h0F}, {\h66}, FALSE),
         Form(<<\h62, \hF1, \h7D, \h48>>, "0F", evex, {\h66}, FALSE),
         Form(<<\h62, \hF2, \hFD, \h48>>, "0F38", {\h98}, {\h66}, TRUE),
         Form(<<\h62, \hF3, \h7D, \h48>>, "0F3A", {\h03}, {\h66}, FALSE),
         Form(<<\h8F, \hE8, \h78>>, "xop8", {\hC0}, {}, FALSE),
         Form(<<\h8F, \hE9, \h78>>, "xop9", {\h90}, {}, FALSE),
         Form(<<\h8F, \hEA, \h78>>, "xopA", {\h10}, {}, FALSE)}

ModRms(plain) ==
    LET all == {64 * mod + 8 * reg + rm : mod \in 0..3, reg \in {0, 2}, rm \in {0, 4, 5}}
        some == {\h05, \h44, \hD0}
    IN  (IF plain THEN all ELSE some) \cup (IF "xbegin" \in DisLiberties THEN {\hF8} ELSE {})

FieldsOf(x) ==
    LET w == IF ToInstruction(x) THEN 4 ELSE Relative(x) IN
    IF w = 0 THEN {0}
    ELSE {0 - Half(IF w = 1 THEN 1 ELSE 2), Half(IF w = 1 THEN 1 ELSE 2) - 1}
         \cup (IF w = 4 /\ "far" \in DisLiberties THEN {0 - Half32} ELSE {})

Copied(x) ==
    /\ x.map = "1" /\ x.c \in \hE0..\hE3 => "loop" \in DisLiberties
    /\ Relative(x) = 2 => "rel16" \in DisLiberties
    /\ x.map = "1" /\ x.c = \h8F => Reg(x.m) = 0
    /\ x.map = "1" /\ x.c \in {\h62, \hC4, \hC5} => x.m < \hC0
    /\ x.map = "0F" /\ x.c = \h78 /\ x.pre \cap {\h66, \hF2} # {} => x.m >= \hC0

DisInit == insn = [map |-> "none"] /\ copied = <<>>

Copy ==
    /\ copied = <<>>
    /\ \E x64 \in BOOLEAN : \E form \in Forms(x64) :
       \E pre \in IF form.map \in {"1", "0F"} /\ Len(form.lead) < 2 THEN PrefixSeqs(x64) ELSE {<<>>} :
       \E c \in form.cs, m \in ModRms(pre = <<>>), s \in {\h24, \h25}, by \in Away :
          LET x == [x64 |-> x64, map |-> form.map, c |-> c, m |-> m, s |-> s, by |-> by,
                    b |-> pre \o form.lead \o <<c, m, s>>, front |-> Len(pre) + Len(form.lead),
                    pre |-> {pre[j] : j \in DOMAIN pre} \cup form.p,
                    w |-> form.w \/ \h48 \in {pre[j] : j \in DOMAIN pre},
                    coded |-> Len(form.lead) > 1]
          IN  /\ Copied(x)
              /\ (m % 8 # 4 \/ ~HasModRm(x)) => s = \h24
              /\ ~HasModRm(x) => m \in {\h05, \h44}
              /\ Relative(x) = 0 /\ ~ToInstruction(x) => by = CHOOSE a \in Away : TRUE
              /\ \E old \in FieldsOf(x) :
                    LET y == [old |-> old] @@ x
                    IN  insn' = y /\ copied' = <<CopyInstruction(y)>>

DisSpec == DisInit /\ [][Copy]_disVars

-----------------------------------------------------------------------------
(***************************************************************************)
(* ARM64.  An instruction that refers to an address relative to itself     *)
(* becomes one or more that do in the copy what it does in the original.   *)
(*                                                                         *)
(* Numbers are scaled down: an instruction takes one address, a register   *)
(* has four pieces of Piece values, and fields reach 2 * Reach19 - 1 and   *)
(* so on; in the code they are 4, 2^16, 2^21 ...                           *)
(***************************************************************************)
CONSTANTS
    Piece,          \* values of a 16 bit piece of a register
    Page,           \* addresses of a page
    Reach14, Reach19, Reach26,  \* how far a field of 14, 19 or 26 bits reaches
    Source, Copies, \* where the instruction is, and where its copy may be
    ArmLiberties    \* what the copier does not stand: "adr", an adr out of reach,
                    \* "ldr", a literal just out of reach, "prfm", a prefetch
                    \* out of reach

VARIABLES word, code  \* the instruction, and its copy, <<>> before

armVars == <<word, code>>

All32 == Piece * Piece
All64 == All32 * All32
Field(v, reach) == ((v + reach) % (2 * reach)) - reach
Within(v, reach) == v \in -reach..(reach - 1)

Shifted(v, i) == v * Piece^i
PieceOf(v, i) == (v \div Piece^i) % Piece
Ones == Piece - 1

-----------------------------------------------------------------------------
(***************************************************************************)
(* What the copier emits: an operation, its register, a number and what    *)
(* else it has - which piece is moved, the size of a literal, or whether a *)
(* condition is turned around.  0 is the register of the instruction,    *)
(* 17 the one the copier takes.                                            *)
(***************************************************************************)
Emit(o, r, n, k) == [op |-> o, reg |-> r, imm |-> n, more |-> k]

EmitMovImmediate(r, v) ==
    LET p == [i \in 0..3 |-> PieceOf(v, i)]
        Count(x) == Cardinality({i \in 0..3 : p[i] = x})
        default == IF Count(Ones) > Count(0) THEN Ones ELSE 0
        others == {i \in 0..3 : p[i] # default}
        order == SetToSortSeq(IF others = {} THEN {0} ELSE others, >)
    IN  IF p[3] = 0 /\ p[2] = 0 /\ p[1] = Ones
        THEN <<Emit("movn32", r, Ones - p[0], 0)>>
        ELSE [j \in DOMAIN order |->
                 IF j > 1 THEN Emit("movk", r, p[order[j]], order[j])
                 ELSE IF default = Ones THEN Emit("movn", r, Ones - p[order[1]], order[1])
                 ELSE Emit("movz", r, p[order[1]], order[1])]

\* t is where the instruction leads, d where the copy is.
CopyAdr(x, t, d) ==
    LET pages == t \div Page - d \div Page
    IN  IF x.op = "adr" /\ Within(t - d, Reach19) THEN <<Emit("adr", 0, t - d, 0)>>
        ELSE IF Within(pages, Reach19)
        THEN <<Emit("adrp", 0, pages, 0)>>
             \o (IF x.op = "adr" THEN <<Emit("add32", 0, t % Page, 0)>> ELSE <<>>)
        ELSE EmitMovImmediate(0, t)

\* A bug: the far branch is reckoned from where the near one is.
CopyBranchIfHere(x, t, d, checked, reach) ==
    IF Within(t - d, checked) THEN <<Emit("if", 0, Field(t - d, reach), FALSE)>>
    ELSE IF Within(t - d, Reach26)
    THEN <<Emit("if", 0, 2, TRUE), Emit("b", 0, Field(t - d, Reach26), FALSE)>>
    ELSE EmitMovImmediate(17, t) \o <<Emit("if", 0, 2, TRUE), Emit("br", 17, 0, FALSE)>>

\* CopyBcc, CopyCbz and CopyTbz: a branch on a condition that is turned around
\* skips one that reaches further.
CopyBranchIf(x, t, d, checked, reach) ==
    IF Within(t - d, checked) THEN <<Emit("if", 0, Field(t - d, reach), FALSE)>>
    ELSE IF Within(t - (d + 1), Reach26)
    THEN <<Emit("if", 0, 2, TRUE), Emit("b", 0, Field(t - (d + 1), Reach26), FALSE)>>
    ELSE EmitMovImmediate(17, t) \o <<Emit("if", 0, 2, TRUE), Emit("br", 17, 0, FALSE)>>

CopyCbz(x, t, d) == CopyBranchIf(x, t, d, Reach19, Reach19)
CopyTbz(x, t, d) == CopyBranchIf(x, t, d, Reach14, 4 * Reach14)

CopyB_or_Bl(x, t, d) ==
    IF Within(t - d, Reach26) THEN <<Emit("b", 0, Field(t - d, Reach26), x.op = "bl")>>
    ELSE EmitMovImmediate(17, t) \o <<Emit("br", 17, 0, x.op = "bl")>>

\* The literal, as the instruction puts it into the register; the sizes of
\* general registers are "w", "x", "sw" and "prfm".
Literal(x) ==
    LET low == x.data % All32
    IN  CASE x.size = "w" -> low
          [] x.size = "sw" -> IF 2 * low < All32 THEN low ELSE All64 - All32 + low
          [] OTHER -> x.data

\* The reach that is checked is twice that of the field; the value is read
\* when the instruction is copied, and none for a prefetch.
CopyLdrLiteral(x, t, d) ==
    IF Within(t - d, 2 * Reach19) THEN <<Emit("ldr", 0, Field(t - d, Reach19), x.size)>>
    ELSE IF ~x.float THEN EmitMovImmediate(0, IF x.size = "prfm" THEN 0 ELSE Literal(x))
    ELSE EmitMovImmediate(17, t) \o <<Emit("load", 17, 0, x.size)>>

TargetOf(x) == IF x.op = "adrp" THEN (Source \div Page + x.imm) * Page ELSE Source + x.imm

CopyInstructionArm64(x, d) ==
    CASE x.op \in {"adr", "adrp"} -> CopyAdr(x, TargetOf(x), d)
      [] x.op \in {"bcc", "cbz"} -> CopyCbz(x, TargetOf(x), d)
      [] x.op = "tbz" -> CopyTbz(x, TargetOf(x), d)
      [] x.op \in {"b", "bl"} -> CopyB_or_Bl(x, TargetOf(x), d)
      [] x.op = "ldr" -> CopyLdrLiteral(x, TargetOf(x), d)
      [] x.op = "other" -> <<Emit("other", 0, 0, 0)>>

-----------------------------------------------------------------------------
(***************************************************************************)
(* The processor's view.  A state has the register of the instruction, the *)
(* 17th, the link register, which instruction is next and where control    *)
(* has left to.                                                            *)
(***************************************************************************)
NoValue == 0 - 1
Fresh == [t |-> NoValue, r17 |-> NoValue, link |-> NoValue, next |-> 1, left |-> NoValue]

\* The literal, if that is what is at address a.
Loads(x, a) == IF a = TargetOf(x) THEN Literal(x) ELSE NoValue

Set(s, r, v) == IF r = 0 THEN [s EXCEPT !.t = v] ELSE [s EXCEPT !.r17 = v]
Get(s, r) == IF r = 0 THEN s.t ELSE s.r17

\* Control goes from the copy at d, of n instructions, to address a.
Goes(s, a, d, n) ==
    IF a \in d..d + n THEN [s EXCEPT !.next = a - d + 1] ELSE [s EXCEPT !.left = a, !.next = n + 1]

Step(s, x, c, d, taken) ==
    LET e == c[s.next]
        here == d + s.next - 1
        n == Len(c)
        on == [s EXCEPT !.next = @ + 1]
        Put(v) == Set(on, e.reg, v)
        Linked(u) == IF e.more THEN [u EXCEPT !.link = here + 1] ELSE u
    IN  CASE e.op = "movz" -> Put(Shifted(e.imm, e.more))
          [] e.op = "movn" -> Put(All64 - 1 - Shifted(e.imm, e.more))
          [] e.op = "movn32" -> Put(All32 - 1 - e.imm)
          [] e.op = "movk" -> Put(Get(s, e.reg) + Shifted(e.imm - PieceOf(Get(s, e.reg), e.more), e.more))
          [] e.op = "adr" -> Put(here + e.imm)
          [] e.op = "adrp" -> Put((here \div Page + e.imm) * Page)
          [] e.op = "add32" -> Put((Get(s, e.reg) + e.imm) % All32)
          [] e.op = "if" -> IF taken # e.more THEN Goes(s, here + e.imm, d, n) ELSE on
          [] e.op = "b" -> Goes(Linked(s), here + e.imm, d, n)
          [] e.op = "br" -> Goes(Linked(s), s.r17, d, n)
          [] e.op = "ldr" -> IF e.more = "prfm" THEN on ELSE Put(Loads(x, here + e.imm))
          [] e.op = "load" -> Set(on, 0, Loads(x, s.r17))
          [] e.op = "other" -> on

Executed(x, c, d, taken) ==
    LET f[k \in Nat] == IF k = 0 THEN Fresh
                        ELSE IF f[k - 1].next > Len(c) THEN f[k - 1]
                        ELSE Step(f[k - 1], x, c, d, taken)
    IN  f[Len(c)]

Jumps(x, taken) == x.op \in {"b", "bl"} \/ (x.op \in {"bcc", "cbz", "tbz"} /\ taken)

\* Whether the condition holds or not, the copy leaves the same value in the
\* register, goes where the instruction goes, or past its own end, and links
\* to the end.
Arm64CopiesLead ==
    code # <<>> =>
        \A taken \in BOOLEAN :
            LET d == word.copy
                s == Executed(word, code, d, taken)
            IN  /\ s.left = IF Jumps(word, taken) THEN TargetOf(word) ELSE NoValue
                /\ s.t = CASE word.op \in {"adr", "adrp"} -> TargetOf(word)
                           [] word.op = "ldr" /\ word.size # "prfm" -> Literal(word)
                           [] OTHER -> NoValue
                /\ s.link = IF word.op = "bl" THEN d + Len(code) ELSE NoValue
                /\ s.next = Len(code) + 1

-----------------------------------------------------------------------------
\* bound: the fields are at their ends, around 0 and in between.
Fields(reach) == {0 - reach, 1 - reach, 0 - (reach \div 2), -1, 1, reach \div 2, reach - 1}

Words ==
    [op : {"adr", "adrp", "bcc", "cbz"}, imm : Fields(Reach19)]
    \cup [op : {"tbz"}, imm : Fields(4 * Reach14)]
    \cup [op : {"b", "bl"}, imm : Fields(Reach26)]
    \cup [op : {"other"}, imm : {0}]
    \cup [op : {"ldr"}, imm : Fields(Reach19), float : {TRUE}, size : {"x"}, data : {1}]
    \cup [op : {"ldr"}, imm : Fields(Reach19), float : {FALSE}, size : {"w", "x", "sw", "prfm"},
          data : {0, All64 - 1, All32 - 2, All64 - All32, All32 + Ones, Shifted(Ones, 1) + 2,
                  All64 - 1 - Shifted(3, 2)}]

\* The function does not lead into the trampoline; the rest is left out but for
\* a liberty.
CopiedArm64(x, d) ==
    LET far == TargetOf(x) - d
    IN  /\ far \notin 0..6
        /\ x.op = "adr" => Within(far, Reach19) \/ Len(CopyInstructionArm64(x, d)) # 2 \/ "adr" \in ArmLiberties
        /\ x.op = "ldr" => Within(far, Reach19) \/ ~Within(far, 2 * Reach19) \/ "ldr" \in ArmLiberties
        /\ x.op = "ldr" /\ x.size = "prfm" => Within(far, 2 * Reach19) \/ "prfm" \in ArmLiberties

ArmInit == word = [op |-> "none"] /\ code = <<>>

CopyArm64 ==
    /\ code = <<>>
    /\ \E x \in Words, d \in Copies :
          /\ CopiedArm64(x, d)
          /\ word' = [f \in DOMAIN x \cup {"copy"} |-> IF f = "copy" THEN d ELSE x[f]]
          /\ code' = CopyInstructionArm64(x, d)

ArmSpec == ArmInit /\ [][CopyArm64]_armVars
=============================================================================
