------------------------- MODULE PugScanner_proofs --------------------------
(***************************************************************************)
(* The levels of indentation grow, and come back whole from the bytes that *)
(* are kept with a token, for the characters, indentations, memory and     *)
(* bounds of PugAssumption.                                                *)
(*                                                                         *)
(* The size that begins a stack's bytes is compared with the index in the  *)
(* buffer when it is read back.  For the first stack, the indentations, the *)
(* index counts from the stack's own beginning, so that all of it comes    *)
(* back as long as its size fits a byte (MaxTokens).  For the others it    *)
(* does so only when they are empty.                                       *)
(*                                                                         *)
(* What handle_attr has on its stack while it reads a value is what the    *)
(* text has open (Agrees), unless the text is Excused: what handle_attr    *)
(* then takes a character for, it is (Taken).                              *)
(***************************************************************************)
EXTENDS PugScanner, SequenceTheorems, WellFoundedInduction, TLAPS

Byte == 0 .. 255

Scanner == [indents : Seq(Byte), parens : Seq(Nat), tern : Seq(Nat),
            pending : BOOLEAN, isString : BOOLEAN]

\* A state with at most n levels of indentation, which grow.
Levelled(s, n) ==
    s \in Scanner /\ Len(s.indents) \in 1 .. n /\ Growing(s.indents)

-----------------------------------------------------------------------------
(* The bytes.                                                              *)

LEMMA ByteOf == \A n \in Nat : n % 256 \in Byte
  BY DEF Byte

LEMMA SameByte == \A n \in Byte : n % 256 = n
  BY DEF Byte

\* Bytes in the order of two others.
Join(ab, a, b) ==
    /\ ab \in Seq(Byte) /\ Len(ab) = Len(a) + Len(b)
    /\ \A i \in 1 .. Len(a) : ab[i] = a[i]
    /\ \A i \in 1 .. Len(b) : ab[Len(a) + i] = b[i]

LEMMA Joined == ASSUME NEW a \in Seq(Byte), NEW b \in Seq(Byte) PROVE Join(a \o b, a, b)
  <1>1. PICK ab : ab = a \o b
    OBVIOUS
  <1>2. /\ ab \in Seq(Byte) /\ Len(ab) = Len(a) + Len(b)
        /\ \A i \in 1 .. Len(a) + Len(b) : ab[i] = IF i <= Len(a) THEN a[i] ELSE b[i - Len(a)]
    BY <1>1, ConcatProperties
  <1>3. PICK m, n \in Nat : m = Len(a) /\ n = Len(b)
    BY LenProperties
  <1>4. \A i \in 1 .. m : ab[i] = a[i]
    BY <1>2, <1>3
  <1>5. \A i \in 1 .. n : ab[m + i] = b[i]
    <2> TAKE i \in 1 .. n
    <2>1. m + i \in 1 .. m + n /\ ~(m + i <= m) /\ (m + i) - m = i
      OBVIOUS
    <2> QED
      BY <1>2, <1>3, <2>1
  <1> QED
    BY <1>1, <1>2, <1>3, <1>4, <1>5 DEF Join

LEMMA StackBytesType ==
    ASSUME NEW stack \in Seq(Nat)
    PROVE  /\ StackBytes(stack) \in Seq(Byte)
           /\ Len(StackBytes(stack)) = IF Len(stack) = 0 THEN 1 ELSE Len(stack)
           /\ StackBytes(stack)[1] = Len(stack) % 256
           /\ \A i \in 2 .. Len(stack) : StackBytes(stack)[i] = stack[i] % 256
  <1>1. Len(stack) \in Nat
    BY LenProperties
  <1>2. PICK n \in Nat : n = IF Len(stack) = 0 THEN 0 ELSE Len(stack) - 1
    <2>1. (IF Len(stack) = 0 THEN 0 ELSE Len(stack) - 1) \in Nat
      BY <1>1
    <2> QED
      BY <2>1
  <1>3. PICK size : size = <<Len(stack) % 256>>
    OBVIOUS
  <1>4. PICK rest : rest = [i \in 1 .. n |-> stack[i + 1] % 256]
    OBVIOUS
  <1>5. StackBytes(stack) = size \o rest
    <2>1. 1 .. Len(stack) - 1 = 1 .. n
      BY <1>1, <1>2
    <2> QED
      BY <1>3, <1>4, <2>1 DEF StackBytes
  <1>6. size \in Seq(Byte) /\ Len(size) = 1 /\ size[1] = Len(stack) % 256
    BY <1>1, <1>3, ByteOf
  <1>7. \A i \in 1 .. n : stack[i + 1] \in Nat
    BY <1>1, <1>2, ElementOfSeq
  <1>8. \A i \in 1 .. n : stack[i + 1] % 256 \in Byte
    BY <1>7, ByteOf
  <1>9. rest \in Seq(Byte) /\ Len(rest) = n /\ \A i \in 1 .. n : rest[i] = stack[i + 1] % 256
    BY <1>4, <1>8
  <1>10. PICK all : all = size \o rest /\ Join(all, size, rest)
    BY <1>6, <1>9, Joined
  <1>11. all = StackBytes(stack)
    BY <1>5, <1>10
  <1>12. /\ all \in Seq(Byte) /\ Len(all) = 1 + n /\ all[1] = Len(stack) % 256
         /\ \A i \in 1 .. n : all[1 + i] = stack[i + 1] % 256
    <2>1. Join(all, size, rest)
      BY <1>10
    <2>2. /\ all \in Seq(Byte) /\ Len(all) = Len(size) + Len(rest)
          /\ \A i \in 1 .. Len(size) : all[i] = size[i]
          /\ \A i \in 1 .. Len(rest) : all[Len(size) + i] = rest[i]
      BY <2>1 DEF Join
    <2>3. /\ Len(all) = 1 + n
          /\ \A i \in 1 .. 1 : all[i] = size[i]
          /\ \A i \in 1 .. n : all[1 + i] = rest[i]
      BY <1>6, <1>9, <2>2
    <2>4. all[1] = size[1]
      BY <2>3
    <2> QED
      BY <1>6, <1>9, <2>2, <2>3, <2>4
  <1>13. \A i \in 2 .. Len(stack) : all[i] = stack[i] % 256
    <2> TAKE i \in 2 .. Len(stack)
    <2>1. PICK j \in 1 .. n : 1 + j = i /\ j + 1 = i
      <3>1. i - 1 \in 1 .. n /\ 1 + (i - 1) = i /\ (i - 1) + 1 = i
        BY <1>1, <1>2
      <3> QED
        BY <3>1
    <2>2. all[1 + j] = stack[j + 1] % 256
      BY <1>12
    <2> QED
      BY <2>1, <2>2
  <1> QED
    BY <1>1, <1>2, <1>11, <1>12, <1>13

\* Where the parts of the bytes s lie in all.
Laid(all, s, a, b, c, d, p) ==
    /\ s \in Seq(Byte) /\ Len(s) = Len(a) + Len(b) + Len(c) + Len(d)
    /\ all \in Seq(Byte) /\ Len(all) = Len(s) + Len(p)
    /\ \A i \in 1 .. Len(a) : all[i] = a[i]
    /\ \A i \in 1 .. Len(b) : all[Len(a) + i] = b[i]
    /\ \A i \in 1 .. Len(c) : all[Len(a) + Len(b) + i] = c[i]
    /\ \A i \in 1 .. Len(d) : all[Len(a) + Len(b) + Len(c) + i] = d[i]

LEMMA Parts ==
    ASSUME NEW a \in Seq(Byte), NEW b \in Seq(Byte), NEW c \in Seq(Byte), NEW d \in Seq(Byte),
           NEW p \in Seq(Byte), NEW ab, NEW abc, NEW s, NEW all,
           Join(ab, a, b), Join(abc, ab, c), Join(s, abc, d), Join(all, s, p)
    PROVE  Laid(all, s, a, b, c, d, p)
  <1>1. /\ Len(a) \in Nat /\ Len(b) \in Nat /\ Len(c) \in Nat /\ Len(d) \in Nat /\ Len(p) \in Nat
    BY LenProperties
  <1>2. PICK l, m, n, o, q \in Nat :
            l = Len(a) /\ m = Len(b) /\ n = Len(c) /\ o = Len(d) /\ q = Len(p)
    BY <1>1
  <1>3. /\ ab \in Seq(Byte) /\ Len(ab) = l + m
        /\ \A i \in 1 .. l : ab[i] = a[i]
        /\ \A i \in 1 .. m : ab[l + i] = b[i]
    BY <1>2 DEF Join
  <1>4. PICK lm, lmn, lmno \in Nat : lm = l + m /\ lmn = lm + n /\ lmno = lmn + o
    <2>1. l + m \in Nat /\ l + m + n \in Nat /\ l + m + n + o \in Nat
      OBVIOUS
    <2> QED
      BY <2>1
  <1>5. /\ abc \in Seq(Byte) /\ Len(abc) = lmn
        /\ \A i \in 1 .. lm : abc[i] = ab[i]
        /\ \A i \in 1 .. n : abc[lm + i] = c[i]
    BY <1>2, <1>3, <1>4 DEF Join
  <1>6. /\ s \in Seq(Byte) /\ Len(s) = lmno
        /\ \A i \in 1 .. lmn : s[i] = abc[i]
        /\ \A i \in 1 .. o : s[lmn + i] = d[i]
    BY <1>2, <1>4, <1>5 DEF Join
  <1>7. /\ all \in Seq(Byte) /\ Len(all) = lmno + q
        /\ \A i \in 1 .. lmno : all[i] = s[i]
    BY <1>2, <1>4, <1>6 DEF Join
  <1>8. \A i \in 1 .. l : all[i] = a[i]
    <2> TAKE i \in 1 .. l
    <2>1. i \in 1 .. lm /\ i \in 1 .. lmn /\ i \in 1 .. lmno
      BY <1>4
    <2> QED
      BY <1>3, <1>5, <1>6, <1>7, <2>1
  <1>9. \A i \in 1 .. m : all[l + i] = b[i]
    <2> TAKE i \in 1 .. m
    <2>1. l + i \in 1 .. lm /\ l + i \in 1 .. lmn /\ l + i \in 1 .. lmno
      BY <1>4
    <2>2. all[l + i] = s[l + i] /\ s[l + i] = abc[l + i] /\ abc[l + i] = ab[l + i]
      BY <1>5, <1>6, <1>7, <2>1
    <2>3. ab[l + i] = b[i]
      BY <1>3
    <2> QED
      BY <2>2, <2>3
  <1>10. \A i \in 1 .. n : all[lm + i] = c[i]
    <2> TAKE i \in 1 .. n
    <2>1. lm + i \in 1 .. lmn /\ lm + i \in 1 .. lmno
      BY <1>4
    <2>2. all[lm + i] = s[lm + i] /\ s[lm + i] = abc[lm + i]
      BY <1>6, <1>7, <2>1
    <2>3. abc[lm + i] = c[i]
      BY <1>5
    <2> QED
      BY <2>2, <2>3
  <1>11. \A i \in 1 .. o : all[lmn + i] = d[i]
    <2> TAKE i \in 1 .. o
    <2>1. lmn + i \in 1 .. lmno
      BY <1>4
    <2>2. all[lmn + i] = s[lmn + i]
      BY <1>7, <2>1
    <2>3. s[lmn + i] = d[i]
      BY <1>6
    <2> QED
      BY <2>2, <2>3
  <1>12. /\ s \in Seq(Byte) /\ Len(s) = l + m + n + o
         /\ all \in Seq(Byte) /\ Len(all) = Len(s) + q
    BY <1>4, <1>6, <1>7
  <1> QED
    BY <1>2, <1>4, <1>8, <1>9, <1>10, <1>11, <1>12 DEF Laid

\* What is read back from, wherever the bytes end.
LEMMA MemoryType ==
    ASSUME NEW s, Levelled(s, 255), NEW beyond \in Byte
    PROVE  LET bytes == Memory(Serialized(s), beyond)
           IN  /\ Serialized(s) \in Seq(Byte) /\ Serialized(s) # <<>>
               /\ bytes \in Seq(Byte) /\ Len(bytes) >= 259
               /\ bytes[1] = Len(s.indents)
               /\ \A i \in 2 .. Len(s.indents) : bytes[i] = s.indents[i]
               /\ s.parens = <<0>> /\ s.tern = <<0>> =>
                     /\ bytes[Len(s.indents) + 1] = 1
                     /\ bytes[Len(s.indents) + 2] = 1
                     /\ bytes[Len(s.indents) + 3] = IF s.pending THEN 1 ELSE 0
  <1>1. PICK depth : depth = Len(s.indents)
    OBVIOUS
  <1>2. /\ s.indents \in Seq(Byte) /\ depth \in 1 .. 255
        /\ s.parens \in Seq(Nat) /\ s.tern \in Seq(Nat) /\ s.pending \in BOOLEAN
    BY <1>1 DEF Levelled, Scanner
  <1>3. s.indents \in Seq(Nat)
    <2>1. Byte \subseteq Nat
      BY DEF Byte
    <2> QED
      BY <1>2, <2>1, SeqMonotonic
  <1>4. PICK a : a = StackBytes(s.indents)
    OBVIOUS
  <1>5. PICK b : b = StackBytes(s.parens)
    OBVIOUS
  <1>6. PICK c : c = StackBytes(s.tern)
    OBVIOUS
  <1>7. PICK d : d = <<IF s.pending THEN 1 ELSE 0>>
    OBVIOUS
  <1>8. PICK p : p = [i \in 1 .. 256 |-> beyond]
    OBVIOUS
  <1>9. /\ a \in Seq(Byte) /\ Len(a) = depth /\ a[1] = depth
        /\ \A i \in 2 .. depth : a[i] = s.indents[i]
    <2>1. /\ a \in Seq(Byte) /\ Len(a) = IF depth = 0 THEN 1 ELSE depth
          /\ a[1] = depth % 256
          /\ \A i \in 2 .. depth : a[i] = s.indents[i] % 256
      <3>1. PICK levels \in Seq(Nat) : levels = s.indents
        BY <1>3
      <3>2. /\ StackBytes(levels) \in Seq(Byte)
            /\ Len(StackBytes(levels)) = IF Len(levels) = 0 THEN 1 ELSE Len(levels)
            /\ StackBytes(levels)[1] = Len(levels) % 256
            /\ \A i \in 2 .. Len(levels) : StackBytes(levels)[i] = levels[i] % 256
        BY StackBytesType
      <3>3. a = StackBytes(levels) /\ depth = Len(levels)
        BY <1>1, <1>4, <3>1
      <3> QED
        BY <3>1, <3>2, <3>3
    <2>2. depth % 256 = depth
      <3>1. depth \in Byte
        BY <1>2 DEF Byte
      <3> QED
        BY <3>1, SameByte
    <2>3. \A i \in 1 .. depth : s.indents[i] \in Byte
      BY <1>1, <1>2, ElementOfSeq
    <2>4. \A i \in 2 .. depth : s.indents[i] % 256 = s.indents[i]
      BY <1>2, <2>3, SameByte
    <2> QED
      BY <1>2, <2>1, <2>2, <2>4
  <1>10. /\ b \in Seq(Byte) /\ Len(b) \in Nat \ {0}
         /\ s.parens = <<0>> => Len(b) = 1 /\ b[1] = 1
    <2>1. /\ b \in Seq(Byte) /\ Len(b) = IF Len(s.parens) = 0 THEN 1 ELSE Len(s.parens)
          /\ b[1] = Len(s.parens) % 256
      BY <1>2, <1>5, StackBytesType
    <2>2. PICK k \in Nat : k = Len(s.parens)
      BY <1>2, LenProperties
    <2>3. s.parens = <<0>> => k = 1
      BY <2>2
    <2>4. 1 % 256 = 1
      OBVIOUS
    <2>5. Len(b) = (IF k = 0 THEN 1 ELSE k) /\ b[1] = k % 256
      BY <2>1, <2>2
    <2>6. Len(b) \in Nat \ {0}
      BY <2>5
    <2>7. s.parens = <<0>> => Len(b) = 1 /\ b[1] = 1
      BY <2>3, <2>4, <2>5
    <2> QED
      BY <2>1, <2>6, <2>7
  <1>11. /\ c \in Seq(Byte) /\ Len(c) \in Nat \ {0}
         /\ s.tern = <<0>> => Len(c) = 1 /\ c[1] = 1
    <2>1. /\ c \in Seq(Byte) /\ Len(c) = IF Len(s.tern) = 0 THEN 1 ELSE Len(s.tern)
          /\ c[1] = Len(s.tern) % 256
      BY <1>2, <1>6, StackBytesType
    <2>2. PICK k \in Nat : k = Len(s.tern)
      BY <1>2, LenProperties
    <2>3. s.tern = <<0>> => k = 1
      BY <2>2
    <2>4. 1 % 256 = 1
      OBVIOUS
    <2>5. Len(c) = (IF k = 0 THEN 1 ELSE k) /\ c[1] = k % 256
      BY <2>1, <2>2
    <2>6. Len(c) \in Nat \ {0}
      BY <2>5
    <2>7. s.tern = <<0>> => Len(c) = 1 /\ c[1] = 1
      BY <2>3, <2>4, <2>5
    <2> QED
      BY <2>1, <2>6, <2>7
  <1>12. d \in Seq(Byte) /\ Len(d) = 1 /\ d[1] = IF s.pending THEN 1 ELSE 0
    <2>1. (IF s.pending THEN 1 ELSE 0) \in Byte
      BY DEF Byte
    <2> QED
      BY <1>7, <2>1
  <1>13. p \in Seq(Byte) /\ Len(p) = 256
    BY <1>8
  <1>14. Serialized(s) = a \o b \o c \o d /\ Memory(Serialized(s), beyond) = (a \o b \o c \o d) \o p
    BY <1>4, <1>5, <1>6, <1>7, <1>8 DEF Serialized, Memory
  <1>15. PICK ab : ab = a \o b /\ Join(ab, a, b)
    BY <1>9, <1>10, Joined
  <1>16. PICK abc : abc = ab \o c /\ Join(abc, ab, c)
    <2>1. ab \in Seq(Byte) /\ c \in Seq(Byte)
      BY <1>11, <1>15 DEF Join
    <2> QED
      BY <2>1, Joined
  <1>17. PICK four : four = abc \o d /\ Join(four, abc, d)
    <2>1. abc \in Seq(Byte) /\ d \in Seq(Byte)
      BY <1>12, <1>16 DEF Join
    <2> QED
      BY <2>1, Joined
  <1>18. PICK all : all = four \o p /\ Join(all, four, p)
    <2>1. four \in Seq(Byte) /\ p \in Seq(Byte)
      BY <1>13, <1>17 DEF Join
    <2> QED
      BY <2>1, Joined
  <1>19. Join(ab, a, b) /\ Join(abc, ab, c) /\ Join(four, abc, d) /\ Join(all, four, p)
    BY <1>15, <1>16, <1>17, <1>18
  <1>20. a \in Seq(Byte) /\ b \in Seq(Byte) /\ c \in Seq(Byte) /\ d \in Seq(Byte) /\ p \in Seq(Byte)
    BY <1>9, <1>10, <1>11, <1>12, <1>13
  <1>21. /\ four \in Seq(Byte) /\ Len(four) = Len(a) + Len(b) + Len(c) + Len(d)
         /\ all \in Seq(Byte) /\ Len(all) = Len(four) + Len(p)
         /\ \A i \in 1 .. Len(a) : all[i] = a[i]
         /\ \A i \in 1 .. Len(b) : all[Len(a) + i] = b[i]
         /\ \A i \in 1 .. Len(c) : all[Len(a) + Len(b) + i] = c[i]
         /\ \A i \in 1 .. Len(d) : all[Len(a) + Len(b) + Len(c) + i] = d[i]
    <2>1. Laid(all, four, a, b, c, d, p)
      BY <1>19, <1>20, Parts
    <2> QED
      BY <2>1 DEF Laid
  <1>22. four # <<>>
    <2>1. Len(four) > 0
      BY <1>2, <1>9, <1>10, <1>11, <1>12, <1>21
    <2> QED
      BY <2>1, EmptySeq
  <1>23. Len(all) >= 259 /\ all[1] = depth /\ \A i \in 2 .. depth : all[i] = s.indents[i]
    BY <1>2, <1>9, <1>10, <1>11, <1>12, <1>13, <1>21
  <1>24. s.parens = <<0>> /\ s.tern = <<0>> =>
            all[depth + 1] = 1 /\ all[depth + 2] = 1 /\ all[depth + 3] = IF s.pending THEN 1 ELSE 0
    <2> HAVE s.parens = <<0>> /\ s.tern = <<0>>
    <2>1. Len(b) = 1 /\ b[1] = 1 /\ Len(c) = 1 /\ c[1] = 1
      BY <1>10, <1>11
    <2>2. all[depth + 1] = b[1]
      BY <1>2, <1>9, <1>21, <2>1
    <2>3. all[depth + 1 + 1] = c[1]
      BY <1>2, <1>9, <1>21, <2>1
    <2>4. all[depth + 1 + 1 + 1] = d[1]
      BY <1>2, <1>9, <1>12, <1>21, <2>1
    <2>5. depth + 1 + 1 = depth + 2 /\ depth + 1 + 1 + 1 = depth + 3
      <3>1. depth \in 1 .. 255
        BY <1>2
      <3> QED
        BY <3>1, SMT
    <2> QED
      BY <1>12, <2>1, <2>2, <2>3, <2>4, <2>5
  <1>25. Serialized(s) = four /\ Memory(Serialized(s), beyond) = all
    BY <1>14, <1>15, <1>16, <1>17, <1>18
  <1> QED
    BY <1>1, <1>21, <1>22, <1>23, <1>24, <1>25

-----------------------------------------------------------------------------
(* Reading them back.                                                      *)

LEMMA ByteNat == \A stack \in Seq(Byte) : stack \in Seq(Nat)
  <1>1. Byte \subseteq Nat
    BY DEF Byte
  <1> QED
    BY <1>1, SeqMonotonic

\* More bytes than three sizes can lead to.
Long(bytes) == bytes \in Seq(Byte) /\ Len(bytes) >= 259

LEMMA LongReaches ==
    ASSUME NEW bytes, Long(bytes), NEW i \in 1 .. 259 PROVE bytes[i] \in Byte
  <1>1. i \in 1 .. Len(bytes) /\ bytes \in Seq(Byte)
    BY LenProperties DEF Long
  <1> QED
    BY <1>1, ElementOfSeq

LEMMA PartOfLong ==
    ASSUME NEW bytes, Long(bytes), NEW m \in 1 .. 259, NEW n \in 0 .. 255
    PROVE  /\ SubSeq(bytes, m, n) \in Seq(Byte)
           /\ Len(SubSeq(bytes, m, n)) = IF m <= n THEN n - m + 1 ELSE 0
           /\ \A i \in 1 .. n - m + 1 : SubSeq(bytes, m, n)[i] = bytes[m + i - 1]
  <1>1. \A i \in m .. n : i \in 1 .. 259
    OBVIOUS
  <1>2. \A i \in m .. n : bytes[i] \in Byte
    BY <1>1, LongReaches
  <1>3. m \in Int /\ n \in Int
    OBVIOUS
  <1> QED
    BY <1>2, <1>3, SubSeqProperties

LEMMA TakeStackType ==
    ASSUME NEW bytes, Long(bytes), NEW index \in 0 .. 257
    PROVE  /\ TakeStack(bytes, index).stack \in Seq(Byte)
           /\ TakeStack(bytes, index).index \in 0 .. 258
           /\ index <= 255 => TakeStack(bytes, index).index \in 0 .. 257
  <1>1. PICK m \in 1 .. 258 : m = index + 1
    OBVIOUS
  <1>2. bytes[index + 1] \in 0 .. 255
    <2>1. m \in 1 .. 259
      BY <1>1
    <2> QED
      BY <1>1, <2>1, LongReaches DEF Byte
  <1>3. PICK size \in 0 .. 255 : size = bytes[index + 1]
    BY <1>2
  <1>4. PICK rest : rest = SubSeq(bytes, index + 2, size)
    OBVIOUS
  <1>5. rest \in Seq(Byte)
    <2>1. index + 2 \in 1 .. 259
      OBVIOUS
    <2> QED
      BY <1>4, <2>1, PartOfLong
  <1>6. <<0>> \in Seq(Byte)
    BY DEF Byte
  <1>7. <<0>> \o rest \in Seq(Byte)
    BY <1>5, <1>6, ConcatProperties
  <1>8. PICK after : after = IF index + 1 < size THEN size ELSE index + 1
    OBVIOUS
  <1>9. after \in 0 .. 258 /\ (index <= 255 => after \in 0 .. 257)
    BY <1>8
  <1>10. TakeStack(bytes, index) = [stack |-> <<0>> \o rest, index |-> after]
    BY <1>3, <1>4, <1>8 DEF TakeStack
  <1> QED
    BY <1>7, <1>9, <1>10

\* A stack at the beginning of the bytes.
Begins(bytes, stack, depth) ==
    /\ stack \in Seq(Byte) /\ Len(stack) = depth /\ stack[1] = 0
    /\ bytes[1] = depth
    /\ \A i \in 2 .. depth : bytes[i] = stack[i]

\* It comes back whole, and the next begins behind it.
LEMMA TakeFirst ==
    ASSUME NEW bytes, Long(bytes), NEW stack, NEW depth \in 1 .. 255, Begins(bytes, stack, depth)
    PROVE  TakeStack(bytes, 0) = [stack |-> stack, index |-> depth]
  <1>1. PICK rest : rest = SubSeq(bytes, 2, depth)
    OBVIOUS
  <1>2. /\ rest \in Seq(Byte)
        /\ Len(rest) = IF 2 <= depth THEN depth - 2 + 1 ELSE 0
        /\ \A i \in 1 .. depth - 2 + 1 : rest[i] = bytes[2 + i - 1]
    <2>1. PICK m \in 1 .. 259 : m = 2
      OBVIOUS
    <2>2. depth \in 0 .. 255
      OBVIOUS
    <2>3. /\ SubSeq(bytes, m, depth) \in Seq(Byte)
          /\ Len(SubSeq(bytes, m, depth)) = IF m <= depth THEN depth - m + 1 ELSE 0
          /\ \A i \in 1 .. depth - m + 1 : SubSeq(bytes, m, depth)[i] = bytes[m + i - 1]
      BY <2>2, PartOfLong
    <2> QED
      BY <1>1, <2>1, <2>3
  <1>3. Len(rest) = depth - 1
    BY <1>2
  <1>4. ASSUME NEW i \in 1 .. depth - 1 PROVE rest[i] = stack[i + 1]
    <2>1. i \in 1 .. depth - 2 + 1 /\ 2 + i - 1 = i + 1 /\ i + 1 \in 2 .. depth
      OBVIOUS
    <2>2. rest[i] = bytes[i + 1]
      BY <1>2, <2>1
    <2> QED
      BY <2>1, <2>2 DEF Begins
  <1>5. PICK zero : zero = <<0>>
    OBVIOUS
  <1>6. zero \in Seq(Byte) /\ Len(zero) = 1 /\ zero[1] = 0
    BY <1>5 DEF Byte
  <1>7. PICK whole : whole = zero \o rest /\ Join(whole, zero, rest)
    BY <1>2, <1>6, Joined
  <1>8. whole = stack
    <2>1. Join(whole, zero, rest)
      BY <1>7
    <2>2. /\ whole \in Seq(Byte) /\ Len(whole) = 1 + (depth - 1) /\ whole[1] = 0
          /\ \A i \in 1 .. depth - 1 : whole[1 + i] = rest[i]
      BY <1>3, <1>6, <2>1 DEF Join
    <2>3. Len(whole) = depth
      BY <2>2
    <2>4. \A i \in 1 .. depth : whole[i] = stack[i]
      <3> TAKE i \in 1 .. depth
      <3>1. CASE i = 1
        BY <2>2, <3>1 DEF Begins
      <3>2. CASE i # 1
        <4>1. i - 1 \in 1 .. depth - 1 /\ 1 + (i - 1) = i /\ (i - 1) + 1 = i
          BY <3>2
        <4> QED
          BY <1>4, <2>2, <4>1
      <3> QED
        BY <3>1, <3>2
    <2>5. stack \in Seq(Byte) /\ Len(stack) = depth
      BY DEF Begins
    <2> QED
      BY <2>2, <2>3, <2>4, <2>5, SeqEqual
  <1>9. (IF 0 + 1 < depth THEN depth ELSE 0 + 1) = depth
    OBVIOUS
  <1>10. bytes[0 + 1] = depth /\ SubSeq(bytes, 0 + 2, depth) = rest
    BY <1>1 DEF Begins
  <1> QED
    BY <1>5, <1>7, <1>8, <1>9, <1>10 DEF TakeStack

\* An empty one behind it comes back empty.
LEMMA TakeEmpty ==
    ASSUME NEW bytes, NEW index \in 1 .. 257, bytes[index + 1] = 1
    PROVE  TakeStack(bytes, index) = [stack |-> <<0>>, index |-> index + 1]
  <1>1. SubSeq(bytes, index + 2, 1) = <<>>
    <2>1. index + 2 \in Int /\ 1 \in Int /\ 1 < index + 2
      OBVIOUS
    <2> QED
      BY <2>1, SubSeqEmpty
  <1>2. <<0>> \o <<>> = <<0>>
    <2>1. <<0>> \in Seq(Nat)
      OBVIOUS
    <2> QED
      BY <2>1, ConcatEmptySeq
  <1>3. (IF index + 1 < 1 THEN 1 ELSE index + 1) = index + 1
    OBVIOUS
  <1> QED
    BY <1>1, <1>2, <1>3 DEF TakeStack

\* The bytes of a state give it back: the indentation always, the rest when
\* nothing is open.
LEMMA RestoredType ==
    ASSUME NEW now \in Scanner, NEW s, Levelled(s, 255), NEW beyond \in Byte
    PROVE  /\ Restored(now, Serialized(s), beyond) \in Scanner
           /\ Restored(now, Serialized(s), beyond).indents = s.indents
           /\ s.parens = <<0>> /\ s.tern = <<0>> =>
                 /\ Restored(now, Serialized(s), beyond).parens = <<0>>
                 /\ Restored(now, Serialized(s), beyond).tern = <<0>>
                 /\ Restored(now, Serialized(s), beyond).pending = s.pending
  <1>1. PICK bytes : bytes = Memory(Serialized(s), beyond)
    OBVIOUS
  <1>2. PICK depth : depth = Len(s.indents)
    OBVIOUS
  <1>3. /\ Serialized(s) # <<>>
        /\ bytes \in Seq(Byte) /\ Len(bytes) >= 259
        /\ bytes[1] = depth
        /\ \A i \in 2 .. depth : bytes[i] = s.indents[i]
        /\ s.parens = <<0>> /\ s.tern = <<0>> =>
              /\ bytes[depth + 1] = 1 /\ bytes[depth + 2] = 1
              /\ bytes[depth + 3] = IF s.pending THEN 1 ELSE 0
    BY <1>1, <1>2, MemoryType
  <1>4. s.indents \in Seq(Byte) /\ depth \in 1 .. 255 /\ s.indents[1] = 0 /\ s.pending \in BOOLEAN
    BY <1>2 DEF Levelled, Scanner, Growing
  <1>5. TakeStack(bytes, 0) = [stack |-> s.indents, index |-> depth]
    <2>1. Long(bytes) /\ Begins(bytes, s.indents, depth)
      BY <1>2, <1>3, <1>4 DEF Long, Begins
    <2> QED
      BY <1>4, <2>1, TakeFirst
  <1>6. PICK parens : parens = TakeStack(bytes, depth)
    OBVIOUS
  <1>7. parens.stack \in Seq(Byte) /\ parens.index \in 0 .. 257
    <2>1. Long(bytes)
      BY <1>3 DEF Long
    <2>2. depth \in 0 .. 257 /\ depth <= 255
      BY <1>4
    <2> QED
      BY <1>6, <2>1, <2>2, TakeStackType
  <1>8. PICK tern : tern = TakeStack(bytes, parens.index)
    OBVIOUS
  <1>9. tern.stack \in Seq(Byte)
    <2>1. Long(bytes)
      BY <1>3 DEF Long
    <2> QED
      BY <1>7, <1>8, <2>1, TakeStackType
  <1>10. Restored(now, Serialized(s), beyond) =
           [indents |-> s.indents, parens |-> parens.stack, tern |-> tern.stack,
            pending |-> bytes[tern.index + 1] # 0, isString |-> now.isString]
    <2>1. TakeStack(bytes, 0).stack = s.indents /\ TakeStack(bytes, 0).index = depth
      BY <1>5
    <2> QED
      BY <1>1, <1>3, <1>6, <1>8, <2>1 DEF Restored
  <1>11. s.parens = <<0>> /\ s.tern = <<0>> =>
           parens.stack = <<0>> /\ tern.stack = <<0>> /\ (bytes[tern.index + 1] # 0) = s.pending
    <2> HAVE s.parens = <<0>> /\ s.tern = <<0>>
    <2>1. bytes[depth + 1] = 1 /\ bytes[depth + 2] = 1 /\ bytes[depth + 3] = IF s.pending THEN 1 ELSE 0
      BY <1>3
    <2>2. PICK next1 \in 1 .. 256 : next1 = depth + 1
      BY <1>4
    <2>3. parens = [stack |-> <<0>>, index |-> next1]
      <3>1. depth \in 1 .. 257
        BY <1>4
      <3> QED
        BY <1>3, <1>6, <2>1, <2>2, <3>1, TakeEmpty
    <2>4. next1 + 1 = depth + 2 /\ (next1 + 1) + 1 = depth + 3
      BY <1>4, <2>2
    <2>5. tern = [stack |-> <<0>>, index |-> next1 + 1]
      <3>1. next1 \in 1 .. 257 /\ bytes[next1 + 1] = 1
        BY <2>1, <2>2, <2>4
      <3> QED
        BY <1>3, <1>8, <2>3, <3>1, TakeEmpty
    <2>6. bytes[tern.index + 1] = IF s.pending THEN 1 ELSE 0
      BY <2>1, <2>4, <2>5
    <2> QED
      BY <1>4, <2>3, <2>5, <2>6
  <1>12. now.isString \in BOOLEAN /\ (bytes[tern.index + 1] # 0) \in BOOLEAN
    BY DEF Scanner
  <1>13. parens.stack \in Seq(Nat) /\ tern.stack \in Seq(Nat)
    BY <1>7, <1>9, ByteNat
  <1> QED
    BY <1>4, <1>10, <1>11, <1>12, <1>13 DEF Scanner

-----------------------------------------------------------------------------
(* The invariant.  A state has at most one level more than the document    *)
(* has tokens before it, so that its size fits a byte.                     *)

Kept(states) ==
    \A i \in 1 .. Len(states) :
        states[i].bytes = Serialized(states[i].of) /\ Levelled(states[i].of, i + 1)

\* There are n tokens.
Counts(states, n) == n \in 0 .. MaxTokens /\ Len(states) = n

Inv ==
    /\ Levelled(scanner, MaxTokens + 1)
    /\ saved \in Seq([bytes : Seq(Byte), of : Scanner])
    /\ Kept(saved)
    /\ next \in Nat
    /\ \E n \in 0 .. 254 : Counts(saved, n) /\ (InValue => n < MaxTokens /\ Levelled(scanner, n + 1))

LEMMA TokensBound == MaxTokens \in 0 .. 254
  BY PugAssumption

LEMMA Levels ==
    ASSUME NEW s, NEW m \in Nat, NEW n \in Nat, m <= n, Levelled(s, m) PROVE Levelled(s, n)
  <1>1. s \in Scanner /\ Growing(s.indents) /\ Len(s.indents) \in 1 .. m
    BY DEF Levelled
  <1>2. Len(s.indents) \in 1 .. n
    BY <1>1
  <1> QED
    BY <1>1, <1>2 DEF Levelled

\* The state that create makes, and deserialize where there are no bytes.
LEMMA Fresh ==
    ASSUME NEW pending \in BOOLEAN, NEW isString \in BOOLEAN, NEW n \in Nat, n >= 1
    PROVE  Levelled([indents |-> <<0>>, parens |-> <<0>>, tern |-> <<0>>,
                     pending |-> pending, isString |-> isString], n)
  <1>1. <<0>> \in Seq(Byte) /\ <<0>> \in Seq(Nat) /\ Len(<<0>>) = 1
    BY DEF Byte
  <1>2. Growing(<<0>>)
    BY DEF Growing
  <1> QED
    BY <1>1, <1>2 DEF Levelled, Scanner

\* The state handed back is that of the last token, as far as it is indented.
LEMMA HandedType ==
    ASSUME Inv, NEW n \in 0 .. 254, Counts(saved, n), NEW s \in Handed PROVE Levelled(s, n + 1)
  <1>1. PICK beyond \in Beyond :
            s = Restored(scanner, IF saved = <<>> THEN <<>> ELSE Back(saved).bytes, beyond)
    BY DEF Handed
  <1>2. beyond \in Byte
    BY PugAssumption DEF Byte
  <1>3. scanner \in Scanner
    BY DEF Inv, Levelled
  <1>4. CASE saved = <<>>
    <2>1. s = [indents |-> <<0>>, parens |-> <<0>>, tern |-> <<0>>,
               pending |-> scanner.pending, isString |-> scanner.isString]
      BY <1>1, <1>4 DEF Restored
    <2>2. n + 1 \in Nat /\ n + 1 >= 1
      OBVIOUS
    <2>3. scanner.pending \in BOOLEAN /\ scanner.isString \in BOOLEAN
      BY <1>3 DEF Scanner
    <2> QED
      BY <2>1, <2>2, <2>3, Fresh
  <1>5. CASE saved # <<>>
    <2>1. PICK last : last = Back(saved)
      OBVIOUS
    <2>2. n \in 1 .. 254
      <3>1. Len(saved) # 0
        BY <1>5, EmptySeq DEF Inv
      <3>2. n # 0
        BY <3>1 DEF Counts
      <3> QED
        BY <3>2
    <2>3. last.bytes = Serialized(last.of) /\ Levelled(last.of, n + 1)
      <3>1. last = saved[n]
        BY <2>1 DEF Back, Counts
      <3>2. \A i \in 1 .. n :
                saved[i].bytes = Serialized(saved[i].of) /\ Levelled(saved[i].of, i + 1)
        BY DEF Inv, Kept, Counts
      <3>3. n \in 1 .. n
        BY <2>2
      <3> QED
        BY <3>1, <3>2, <3>3
    <2>4. Levelled(last.of, 255)
      <3>1. n + 1 \in Nat /\ 255 \in Nat /\ n + 1 <= 255
        OBVIOUS
      <3> QED
        BY <2>3, <3>1, Levels
    <2>5. s = Restored(scanner, Serialized(last.of), beyond)
      BY <1>1, <1>5, <2>1, <2>3
    <2>6. s \in Scanner /\ s.indents = last.of.indents
      BY <1>2, <1>3, <2>4, <2>5, RestoredType
    <2> QED
      BY <2>3, <2>6 DEF Levelled
  <1> QED
    BY <1>4, <1>5

Ending(how) == how # "in value"

\* A scan that ends.
LEMMA EndScanKeeps ==
    ASSUME Inv, NEW n \in 0 .. 253, Counts(saved, n), n < MaxTokens,
           NEW s, Levelled(s, n + 2), NEW how, Ending(how), EndScan(s, how), next' \in Nat
    PROVE  Inv'
  <1>1. MaxTokens \in 0 .. 254
    BY TokensBound
  <1>2. Levelled(scanner', MaxTokens + 1)
    <2>1. scanner' = s
      BY DEF EndScan
    <2>2. n + 2 \in Nat /\ MaxTokens + 1 \in Nat /\ n + 2 <= MaxTokens + 1
      BY <1>1
    <2> QED
      BY <2>1, <2>2, Levels
  <1>3. ~InValue'
    BY DEF EndScan, Ending, InValue
  <1>4. saved \in Seq([bytes : Seq(Byte), of : Scanner])
    BY DEF Inv
  <1>5. CASE how \in {"token", "found"}
    <2>1. PICK kept : kept = [bytes |-> Serialized(s), of |-> s]
      OBVIOUS
    <2>2. saved' = Append(saved, kept)
      BY <1>5, <2>1 DEF EndScan, Keep
    <2>3. kept \in [bytes : Seq(Byte), of : Scanner]
      <3>1. Levelled(s, 255)
        <4>1. n + 2 \in Nat /\ 255 \in Nat /\ n + 2 <= 255
          OBVIOUS
        <4> QED
          BY <4>1, Levels
      <3>2. 0 \in Byte
        BY DEF Byte
      <3>3. Serialized(s) \in Seq(Byte)
        BY <3>1, <3>2, MemoryType
      <3> QED
        BY <2>1, <3>1, <3>3 DEF Levelled
    <2>4. Len(saved) = n
      BY DEF Counts
    <2>5. saved' \in Seq([bytes : Seq(Byte), of : Scanner]) /\ Len(saved') = n + 1
          /\ (\A i \in 1 .. n : saved'[i] = saved[i]) /\ saved'[n + 1] = kept
      BY <1>4, <2>2, <2>3, <2>4
    <2>6. \A i \in 1 .. n + 1 :
             saved'[i].bytes = Serialized(saved'[i].of) /\ Levelled(saved'[i].of, i + 1)
      <3> TAKE i \in 1 .. n + 1
      <3>1. CASE i = n + 1
        <4>1. i + 1 = n + 2
          BY <3>1
        <4> QED
          BY <2>1, <2>5, <3>1, <4>1
      <3>2. CASE i # n + 1
        <4>1. i \in 1 .. n
          BY <3>2
        <4>2. saved[i].bytes = Serialized(saved[i].of) /\ Levelled(saved[i].of, i + 1)
          BY <2>4, <4>1 DEF Inv, Kept
        <4> QED
          BY <2>5, <4>1, <4>2
      <3> QED
        BY <3>1, <3>2
    <2>7. Kept(saved')
      BY <2>5, <2>6 DEF Kept
    <2>8. Counts(saved', n + 1) /\ n + 1 \in 0 .. 254
      BY <1>1, <2>5 DEF Counts
    <2> QED
      BY <1>2, <1>3, <2>5, <2>7, <2>8 DEF Inv
  <1>6. CASE how \notin {"token", "found"}
    <2>1. saved' = saved
      BY <1>6 DEF EndScan
    <2>2. Counts(saved', n) /\ n \in 0 .. 254
      BY <2>1
    <2> QED
      BY <1>2, <1>3, <1>4, <2>1, <2>2 DEF Inv
  <1> QED
    BY <1>5, <1>6

\* A turn of the loop leaves the indentation alone.
LEMMA TurnKeeps ==
    ASSUME Inv, InValue, NEW s \in Scanner, s.indents = scanner.indents,
           scanner' = s, saved' = saved, phase' = phase, next' \in Nat
    PROVE  Inv'
  BY DEF Inv, InValue, Levelled

\* So does the end of a value.
LEMMA StopKeeps ==
    ASSUME Inv, InValue, NEW s \in Scanner, s.indents = scanner.indents, NEW how,
           Ending(how), EndScan(s, how), next' \in Nat
    PROVE  Inv'
  <1>1. PICK n \in 0 .. 254 : Counts(saved, n) /\ n < MaxTokens /\ Levelled(scanner, n + 1)
    BY DEF Inv
  <1>2. n \in 0 .. 253
    BY <1>1, TokensBound
  <1>3. Levelled(s, n + 1)
    BY <1>1 DEF Levelled
  <1>4. Levelled(s, n + 2)
    <2>1. n + 1 \in Nat /\ n + 2 \in Nat /\ n + 1 <= n + 2
      OBVIOUS
    <2> QED
      BY <1>3, <2>1, Levels
  <1> QED
    BY <1>1, <1>2, <1>4, EndScanKeeps

LEMMA PushLevels ==
    ASSUME NEW s, NEW m \in Nat, Levelled(s, m), NEW width \in Byte, width > Back(s.indents)
    PROVE  Levelled([s EXCEPT !.indents = Push(@, width)], m + 1)
  <1>1. PICK levels : levels = s.indents
    OBVIOUS
  <1>2. s \in Scanner /\ levels \in Seq(Byte) /\ Len(levels) \in 1 .. m
    BY <1>1 DEF Levelled, Scanner
  <1>3. PICK k \in 1 .. m : k = Len(levels)
    BY <1>2
  <1>4. levels[1] = 0 /\ \A i \in 1 .. k - 1 : levels[i] < levels[i + 1]
    BY <1>1, <1>3 DEF Levelled, Growing
  <1>5. PICK deeper : deeper = Append(levels, width)
    OBVIOUS
  <1>6. /\ deeper \in Seq(Byte) /\ Len(deeper) = k + 1 /\ deeper[k + 1] = width
        /\ \A i \in 1 .. k : deeper[i] = levels[i]
    BY <1>2, <1>3, <1>5
  <1>7. \A i \in 1 .. (k + 1) - 1 : deeper[i] < deeper[i + 1]
    <2> TAKE i \in 1 .. (k + 1) - 1
    <2>1. CASE i = k
      <3>1. levels[k] < width
        BY <1>1, <1>2, <1>3, ElementOfSeq DEF Back, Byte
      <3> QED
        BY <1>6, <2>1, <3>1
    <2>2. CASE i # k
      <3>1. i \in 1 .. k - 1 /\ i \in 1 .. k /\ i + 1 \in 1 .. k
        BY <2>2
      <3> QED
        BY <1>4, <1>6, <3>1
    <2> QED
      BY <2>1, <2>2
  <1>8. deeper[1] = 0
    <2>1. 1 \in 1 .. k
      OBVIOUS
    <2> QED
      BY <1>4, <1>6, <2>1
  <1>9. Growing(deeper)
    BY <1>6, <1>7, <1>8 DEF Growing
  <1>10. [s EXCEPT !.indents = Push(@, width)] \in Scanner
         /\ [s EXCEPT !.indents = Push(@, width)].indents = deeper
    BY <1>1, <1>2, <1>5, <1>6 DEF Push, Scanner
  <1>11. k + 1 \in 1 .. m + 1
    OBVIOUS
  <1> QED
    BY <1>6, <1>9, <1>10, <1>11 DEF Levelled

LEMMA PopLevels ==
    ASSUME NEW s, NEW m \in Nat, Levelled(s, m), NEW width \in Byte, width < Back(s.indents)
    PROVE  Levelled([s EXCEPT !.indents = Pop(@)], m)
  <1>1. PICK levels : levels = s.indents
    OBVIOUS
  <1>2. s \in Scanner /\ levels \in Seq(Byte) /\ Len(levels) \in 1 .. m
    BY <1>1 DEF Levelled, Scanner
  <1>3. PICK k \in 1 .. m : k = Len(levels)
    BY <1>2
  <1>4. levels[1] = 0 /\ \A i \in 1 .. k - 1 : levels[i] < levels[i + 1]
    BY <1>1, <1>3 DEF Levelled, Growing
  <1>5. k > 1
    <2>1. levels[k] # 0
      BY <1>1, <1>3 DEF Back, Byte
    <2> QED
      BY <1>4, <2>1
  <1>6. PICK left : left = SubSeq(levels, 1, k - 1)
    OBVIOUS
  <1>7. /\ left \in Seq(Byte) /\ Len(left) = k - 1
        /\ \A i \in 1 .. k - 1 : left[i] = levels[i]
    <2>1. \A i \in 1 .. k - 1 : levels[i] \in Byte
      BY <1>2, <1>3, ElementOfSeq
    <2> QED
      BY <1>5, <1>6, <2>1
  <1>8. Growing(left)
    <2>1. left[1] = 0
      BY <1>4, <1>5, <1>7
    <2>2. \A i \in 1 .. (k - 1) - 1 : left[i] < left[i + 1]
      <3> TAKE i \in 1 .. (k - 1) - 1
      <3>1. i \in 1 .. k - 1 /\ i + 1 \in 1 .. k - 1
        OBVIOUS
      <3> QED
        BY <1>4, <1>7, <3>1
    <2> QED
      BY <1>7, <2>1, <2>2 DEF Growing
  <1>9. [s EXCEPT !.indents = Pop(@)] \in Scanner /\ [s EXCEPT !.indents = Pop(@)].indents = left
    BY <1>1, <1>2, <1>3, <1>6, <1>7 DEF Pop, Scanner
  <1>10. k - 1 \in 1 .. m
    BY <1>5
  <1> QED
    BY <1>7, <1>8, <1>9, <1>10 DEF Levelled

LEMMA InitKeeps == Init => Inv
  <1> SUFFICES ASSUME Init PROVE Inv
    OBVIOUS
  <1>1. MaxTokens + 1 \in Nat /\ MaxTokens + 1 >= 1 /\ 0 \in 0 .. MaxTokens
    BY TokensBound
  <1>2. Levelled(scanner, MaxTokens + 1)
    <2>1. scanner = [indents |-> <<0>>, parens |-> <<0>>, tern |-> <<0>>,
                     pending |-> FALSE, isString |-> FALSE]
      BY DEF Init
    <2>2. FALSE \in BOOLEAN
      OBVIOUS
    <2> QED
      BY <1>1, <2>1, <2>2, Fresh
  <1>3. saved \in Seq([bytes : Seq(Byte), of : Scanner]) /\ Len(saved) = 0
    BY DEF Init
  <1>4. Counts(saved, 0) /\ 0 \in 0 .. 254
    BY <1>1, <1>3 DEF Counts
  <1>5. Kept(saved)
    BY <1>3 DEF Kept
  <1>6. next \in Nat /\ ~InValue
    BY DEF Init, Eof, InValue
  <1> QED
    BY <1>2, <1>3, <1>4, <1>5, <1>6 DEF Inv

\* Fewer tokens.
LEMMA GoBackKeeps == Inv /\ GoBack => Inv'
  <1> SUFFICES ASSUME Inv, GoBack PROVE Inv'
    OBVIOUS
  <1>1. PICK n \in 0 .. 254 : Counts(saved, n)
    BY DEF Inv
  <1>2. PICK k \in 0 .. n - 1 : saved' = SubSeq(saved, 1, k)
    BY <1>1 DEF GoBack, Counts
  <1>3. saved \in Seq([bytes : Seq(Byte), of : Scanner]) /\ Len(saved) = n
    BY <1>1 DEF Inv, Counts
  <1>4. /\ saved' \in Seq([bytes : Seq(Byte), of : Scanner]) /\ Len(saved') = k
        /\ \A i \in 1 .. k : saved'[i] = saved[i]
    <2>1. \A i \in 1 .. k : i \in 1 .. Len(saved)
      BY <1>2, <1>3
    <2>2. \A i \in 1 .. k : saved[i] \in [bytes : Seq(Byte), of : Scanner]
      BY <1>3, <2>1, ElementOfSeq
    <2> QED
      BY <1>2, <1>3, <2>2
  <1>5. Counts(saved', k) /\ k \in 0 .. 254
    <2>1. n \in 0 .. MaxTokens /\ MaxTokens \in 0 .. 254
      BY <1>1, TokensBound DEF Counts
    <2> QED
      BY <1>2, <1>4, <2>1 DEF Counts
  <1>6. Kept(saved')
    <2>1. \A i \in 1 .. k : saved[i].bytes = Serialized(saved[i].of) /\ Levelled(saved[i].of, i + 1)
      <3>1. \A i \in 1 .. k : i \in 1 .. n
        BY <1>2
      <3> QED
        BY <1>3, <3>1 DEF Inv, Kept
    <2> QED
      BY <1>4, <2>1 DEF Kept
  <1>7. scanner' = scanner /\ next' \in Nat /\ ~InValue'
    BY DEF GoBack, Forget, Eof, InValue
  <1> QED
    BY <1>4, <1>5, <1>6, <1>7 DEF Inv

\* Where a scan may begin there is room for a token.
LEMMA RoomToScan ==
    ASSUME Inv, MayScan
    PROVE  \E n \in 0 .. 253 : Counts(saved, n) /\ n < MaxTokens
  <1>1. PICK n \in 0 .. 254 : Counts(saved, n)
    BY DEF Inv
  <1>2. n < MaxTokens
    BY <1>1 DEF Counts, MayScan
  <1>3. n \in 0 .. 253
    BY <1>2, TokensBound
  <1> QED
    BY <1>1, <1>2, <1>3

LEMMA ScanLineKeeps == Inv /\ ScanLine => Inv'
  <1> SUFFICES ASSUME Inv, ScanLine PROVE Inv'
    OBVIOUS
  <1>1. PICK n \in 0 .. 253 : Counts(saved, n) /\ n < MaxTokens
    BY RoomToScan DEF ScanLine
  <1>2. PICK s \in Handed, valid \in Asked, width \in Indentations :
            ScanIndent(valid, s, width) \/ ScanDedent(valid, s, width) \/ ScanNewline(valid, s, width)
    BY DEF ScanLine
  <1>3. Levelled(s, n + 1)
    <2>1. n \in 0 .. 254
      OBVIOUS
    <2> QED
      BY <1>1, <2>1, HandedType
  <1>4. width \in Byte
    BY PugAssumption DEF Byte
  <1>5. next' \in Nat
    BY DEF ScanLine, Forget, Eof
  <1>6. n + 1 \in Nat /\ n + 2 \in Nat /\ n + 1 <= n + 2 /\ (n + 1) + 1 = n + 2
    OBVIOUS
  <1>7. Levelled(s, n + 2)
    BY <1>3, <1>6, Levels
  <1>8. Ending("token") /\ Ending("idle")
    BY DEF Ending
  <1>9. CASE ScanIndent(valid, s, width)
    <2>1. Levelled([s EXCEPT !.indents = Push(@, width)], n + 2)
      <3>1. width > Back(s.indents)
        BY <1>9 DEF ScanIndent
      <3>2. Levelled([s EXCEPT !.indents = Push(@, width)], (n + 1) + 1)
        BY <1>3, <1>4, <1>6, <3>1, PushLevels
      <3> QED
        BY <1>6, <3>2
    <2>2. EndScan([s EXCEPT !.indents = Push(@, width)], "token")
      BY <1>9 DEF ScanIndent
    <2> QED
      BY <1>1, <1>5, <1>8, <2>1, <2>2, EndScanKeeps
  <1>10. CASE ScanDedent(valid, s, width)
    <2>1. Levelled([s EXCEPT !.indents = Pop(@)], n + 2)
      <3>1. width < Back(s.indents)
        BY <1>10 DEF ScanDedent
      <3> QED
        BY <1>4, <1>6, <1>7, <3>1, PopLevels
    <2>2. EndScan([s EXCEPT !.indents = Pop(@)], "token")
      BY <1>10 DEF ScanDedent
    <2> QED
      BY <1>1, <1>5, <1>8, <2>1, <2>2, EndScanKeeps
  <1>11. CASE ScanNewline(valid, s, width)
    <2>1. PICK how : how = IF valid.newline /\ ~valid.recovery THEN "token" ELSE "idle"
      OBVIOUS
    <2>2. EndScan(s, how) /\ Ending(how)
      BY <1>8, <1>11, <2>1 DEF ScanNewline
    <2> QED
      BY <1>1, <1>5, <1>7, <2>2, EndScanKeeps
  <1> QED
    BY <1>2, <1>9, <1>10, <1>11

LEMMA ScanNoLineKeeps == Inv /\ ScanNoLine => Inv'
  <1> SUFFICES ASSUME Inv, ScanNoLine PROVE Inv'
    OBVIOUS
  <1>1. PICK n \in 0 .. 253 : Counts(saved, n) /\ n < MaxTokens
    BY RoomToScan DEF ScanNoLine
  <1>2. PICK s \in Handed : EndScan(s, "idle")
    BY DEF ScanNoLine
  <1>3. Levelled(s, n + 2)
    <2>1. n \in 0 .. 254 /\ n + 1 \in Nat /\ n + 2 \in Nat /\ n + 1 <= n + 2
      OBVIOUS
    <2>2. Levelled(s, n + 1)
      BY <1>1, <2>1, HandedType
    <2> QED
      BY <2>1, <2>2, Levels
  <1>4. next' \in Nat /\ Ending("idle")
    BY DEF ScanNoLine, Forget, Eof, Ending
  <1> QED
    BY <1>1, <1>2, <1>3, <1>4, EndScanKeeps

LEMMA StartValueKeeps == Inv /\ StartValue => Inv'
  <1> SUFFICES ASSUME Inv, StartValue PROVE Inv'
    OBVIOUS
  <1>1. PICK n \in 0 .. 253 : Counts(saved, n) /\ n < MaxTokens
    BY RoomToScan DEF StartValue
  <1>2. PICK s \in Handed, first \in Following(0) :
            scanner' = [s EXCEPT !.isString = Char(first) \in {34, 39}] /\ next' = first
    BY DEF StartValue
  <1>3. saved' = saved
    BY DEF StartValue
  <1>4. Levelled(scanner', n + 1)
    <2>1. n \in 0 .. 254
      OBVIOUS
    <2>2. Levelled(s, n + 1)
      BY <1>1, <2>1, HandedType
    <2>3. (Char(first) \in {34, 39}) = TRUE \/ (Char(first) \in {34, 39}) = FALSE
      OBVIOUS
    <2>4. PICK quoted \in BOOLEAN : scanner' = [s EXCEPT !.isString = quoted]
      BY <1>2, <2>3
    <2>5. s \in Scanner
      BY <2>2 DEF Levelled
    <2>6. scanner' \in Scanner /\ scanner'.indents = s.indents
      BY <2>4, <2>5 DEF Scanner
    <2> QED
      BY <2>2, <2>6 DEF Levelled
  <1>5. Levelled(scanner', MaxTokens + 1)
    <2>1. n + 1 \in Nat /\ MaxTokens + 1 \in Nat /\ n + 1 <= MaxTokens + 1
      BY <1>1, TokensBound
    <2> QED
      BY <1>4, <2>1, Levels
  <1>6. next' \in Nat
    BY <1>2, PugAssumption DEF Following, Eof
  <1>7. n \in 0 .. 254
    OBVIOUS
  <1> QED
    BY <1>1, <1>3, <1>4, <1>5, <1>6, <1>7 DEF Inv

\* Brackets and question marks come and go within the type.
LEMMA PopType == \A stack \in Seq(Nat) : Pop(stack) \in Seq(Nat)
  <1> SUFFICES ASSUME NEW stack \in Seq(Nat) PROVE Pop(stack) \in Seq(Nat)
    OBVIOUS
  <1>1. PICK n \in Nat : n = Len(stack)
    BY LenProperties
  <1>2. \A i \in 1 .. n - 1 : i \in 1 .. n
    OBVIOUS
  <1>3. \A i \in 1 .. n - 1 : stack[i] \in Nat
    BY <1>1, <1>2, ElementOfSeq
  <1>4. 1 \in Int /\ n - 1 \in Int
    OBVIOUS
  <1> QED
    BY <1>1, <1>3, <1>4, SubSeqProperties DEF Pop

LEMMA PushType == \A stack \in Seq(Nat) : \A x \in Nat : Push(stack, x) \in Seq(Nat)
  BY DEF Push

\* The characters that may follow.
LEMMA FollowingNat == \A read : Following(read) \subseteq Nat
  BY PugAssumption DEF Following, Eof

LEMMA SixteenBits == \A c \in Nat : Short(c) \in Nat
  BY SMT DEF Short

\* The turns and the ends of the loop of handle_attr.
GoesOn == \E s \in Scanner :
    s.indents = scanner.indents /\ scanner' = s /\ saved' = saved /\ phase' = phase
Ends == \E s \in Scanner : \E how \in {"found", "not found"} :
    s.indents = scanner.indents /\ EndScan(s, how)

LEMMA TurnOrEnd ==
    ASSUME Inv, InValue, next' \in Nat, GoesOn \/ Ends PROVE Inv'
  <1>1. CASE GoesOn
    BY <1>1, TurnKeeps DEF GoesOn
  <1>2. CASE Ends
    <2>1. PICK s \in Scanner, how \in {"found", "not found"} :
              s.indents = scanner.indents /\ EndScan(s, how)
      BY <1>2 DEF Ends
    <2>2. Ending(how)
      BY <2>1 DEF Ending
    <2> QED
      BY <2>1, <2>2, StopKeeps
  <1> QED
    BY <1>1, <1>2

LEMMA GoOnGoes == ASSUME NEW s \in Scanner, s.indents = scanner.indents, GoOn(s) PROVE GoesOn
  BY DEF GoOn, GoesOn

LEMMA StopEnds ==
    ASSUME NEW s \in Scanner, s.indents = scanner.indents, NEW found, NEW marked,
           Stop(s, found, marked)
    PROVE  Ends /\ next' = next
  BY DEF Stop, Ends

LEMMA AdvanceNat == ASSUME NEW more, Advance(more) PROVE next' \in Nat
  BY FollowingNat DEF Advance

LEMMA ScanValueKeeps == Inv /\ ScanValue => Inv'
  <1> SUFFICES ASSUME Inv, ScanValue PROVE Inv'
    OBVIOUS
  <1>1. scanner \in Scanner /\ next \in Nat
    BY DEF Inv, Levelled
  <1>2. scanner.parens \in Seq(Nat) /\ scanner.tern \in Seq(Nat)
        /\ scanner.pending \in BOOLEAN /\ scanner.isString \in BOOLEAN
    BY <1>1 DEF Scanner
  <1>3. Pop(scanner.parens) \in Seq(Nat) /\ Push(scanner.parens, Short(next)) \in Seq(Nat)
        /\ Pop(scanner.tern) \in Seq(Nat) /\ Push(scanner.tern, Len(scanner.parens)) \in Seq(Nat)
        /\ AfterQuote(scanner.parens, next) \in Seq(Nat)
    BY <1>1, <1>2, PopType, PushType, SixteenBits, LenProperties DEF AfterQuote
  <1>4. CASE AtEof
    <2>1. InValue /\ Stop(scanner, AttrFound(scanner, symbol), mark)
      BY <1>4 DEF AtEof
    <2> QED
      BY <1>1, <2>1, StopEnds, TurnOrEnd
  <1>5. CASE Escape
    <2>1. InValue /\ GoOn(scanner)
      BY <1>5 DEF Escape
    <2>2. next' \in Nat
      BY <1>5, AdvanceNat DEF Escape, Eof
    <2> QED
      BY <1>1, <2>1, <2>2, GoOnGoes, TurnOrEnd
  <1>6. CASE Alphanumeric
    <2>1. PICK s : s = [scanner EXCEPT !.pending = FALSE, !.isString = @ /\ InQuotes(scanner)]
      OBVIOUS
    <2>2. InValue /\ GoOn(s) /\ Advance(<<>>)
      BY <1>6, <2>1 DEF Alphanumeric
    <2>3. s \in Scanner /\ s.indents = scanner.indents
      BY <1>1, <2>1 DEF Scanner
    <2> QED
      BY <2>2, <2>3, GoOnGoes, AdvanceNat, TurnOrEnd
  <1>7. CASE Quote
    <2>1. PICK s : s = Quoted(scanner, next)
      OBVIOUS
    <2>2. InValue /\ GoOn(s) /\ Advance(<<>>)
      BY <1>7, <2>1 DEF Quote
    <2>3. s \in Scanner /\ s.indents = scanner.indents
      BY <1>1, <1>3, <2>1 DEF Quoted, Scanner
    <2> QED
      BY <2>2, <2>3, GoOnGoes, AdvanceNat, TurnOrEnd
  <1>8. CASE OpenBracket
    <2>1. PICK s : s = [scanner EXCEPT !.pending = FALSE, !.parens = Push(@, Short(next)), !.isString = FALSE]
      OBVIOUS
    <2>2. InValue /\ GoOn(s) /\ Advance(<<>>)
      BY <1>8, <2>1 DEF OpenBracket, Outside
    <2>3. s \in Scanner /\ s.indents = scanner.indents
      BY <1>1, <1>3, <2>1 DEF Scanner
    <2> QED
      BY <2>2, <2>3, GoOnGoes, AdvanceNat, TurnOrEnd
  <1>9. CASE CloseBracket
    <2>1. PICK closed : closed = [scanner EXCEPT !.pending = FALSE, !.parens = Pop(@), !.isString = FALSE]
      OBVIOUS
    <2>2. PICK wrong : wrong = [scanner EXCEPT !.pending = FALSE]
      OBVIOUS
    <2>3. InValue /\ (\/ GoOn(closed) /\ Advance(<<>>)
                      \/ Stop(wrong, AttrFound(scanner, symbol), Len(text)))
      BY <1>9, <2>1, <2>2 DEF CloseBracket, Outside
    <2>4. closed \in Scanner /\ closed.indents = scanner.indents
          /\ wrong \in Scanner /\ wrong.indents = scanner.indents
      BY <1>1, <1>3, <2>1, <2>2 DEF Scanner
    <2> QED
      BY <1>1, <2>3, <2>4, GoOnGoes, AdvanceNat, StopEnds, TurnOrEnd
  <1>10. CASE OperatorInParens
    <2>1. PICK s : s = [scanner EXCEPT !.pending = TRUE, !.isString = FALSE]
      OBVIOUS
    <2>2. InValue /\ GoOn(s) /\ Advance(<<>>)
      BY <1>10, <2>1 DEF OperatorInParens, Outside
    <2>3. s \in Scanner /\ s.indents = scanner.indents
      BY <1>1, <2>1 DEF Scanner
    <2> QED
      BY <2>2, <2>3, GoOnGoes, AdvanceNat, TurnOrEnd
  <1>11. CASE OperatorAtRoot
    <2>1. PICK asked : asked = IF Look = Question
                               THEN [scanner EXCEPT !.tern = Push(@, Len(scanner.parens))]
                               ELSE scanner
      OBVIOUS
    <2>2. PICK onward : onward = [asked EXCEPT !.pending = TRUE, !.isString = FALSE]
      OBVIOUS
    <2>3. PICK matched : matched = [onward EXCEPT !.tern = Pop(@)]
      OBVIOUS
    <2>4. InValue /\ (\/ GoOn(onward) /\ Advance(<<>>)
                      \/ GoOn(matched) /\ Advance(<<>>)
                      \/ Stop(asked, TRUE, Len(text)))
      BY <1>11, <2>1, <2>2, <2>3 DEF OperatorAtRoot, Outside
    <2>5. asked \in Scanner /\ asked.indents = scanner.indents
      BY <1>1, <1>3, <2>1 DEF Scanner
    <2>6. onward \in Scanner /\ onward.indents = scanner.indents
      BY <2>2, <2>5 DEF Scanner
    <2>7. matched \in Scanner /\ matched.indents = scanner.indents
      <3>1. Pop(onward.tern) \in Seq(Nat)
        BY <2>6, PopType DEF Scanner
      <3> QED
        BY <2>3, <2>6, <3>1 DEF Scanner
    <2> QED
      BY <1>1, <2>4, <2>5, <2>6, <2>7, GoOnGoes, AdvanceNat, StopEnds, TurnOrEnd
  <1>12. CASE Whitespace
    <2>1. InValue
      BY <1>12 DEF Whitespace, Outside
    <2>2. next' \in Nat
      BY <1>12, FollowingNat DEF Whitespace
    <2>3. GoesOn \/ Ends
      BY <1>1, <1>12 DEF Whitespace, GoesOn, Ends
    <2> QED
      BY <2>1, <2>2, <2>3, TurnOrEnd
  <1>13. CASE Unexpected
    <2>1. InValue /\ Stop(scanner, AttrFound(scanner, symbol), Len(text))
      BY <1>13 DEF Unexpected, Outside
    <2> QED
      BY <1>1, <2>1, StopEnds, TurnOrEnd
  <1> QED
    BY <1>4, <1>5, <1>6, <1>7, <1>8, <1>9, <1>10, <1>11, <1>12, <1>13 DEF ScanValue

LEMMA NextKeeps == Inv /\ [Next]_vars => Inv'
  <1> SUFFICES ASSUME Inv, [Next]_vars PROVE Inv'
    OBVIOUS
  <1>1. CASE UNCHANGED vars
    BY <1>1 DEF vars, Inv, InValue
  <1> QED
    BY <1>1, GoBackKeeps, ScanLineKeeps, ScanNoLineKeeps, StartValueKeeps, ScanValueKeeps DEF Next

LEMMA Invariance == Spec => []Inv
  BY InitKeeps, NextKeeps, PTL DEF Spec

\* IndentsGrow holds of scanner.c for any template, whatever the parser asks for
\* and wherever it goes back to, and whatever is in memory behind the bytes: a
\* line is never left of the level around it and no DEDENT takes the left margin
\* away.
THEOREM LevelsGrow == Spec => []IndentsGrow
  <1>1. Inv => IndentsGrow
    BY DEF Inv, Levelled, Kept, IndentsGrow
  <1> QED
    BY <1>1, Invariance, PTL

\* RestoredAsSaved: tree_sitter_pug_external_scanner_deserialize gives back the
\* indentation that was serialized, and the brackets and the pending operator
\* when nothing was open.
THEOREM ComesBack == Spec => []RestoredAsSaved
  <1>1. ASSUME Inv PROVE RestoredAsSaved
    <2> SUFFICES ASSUME NEW i \in 1 .. Len(saved), NEW beyond \in Beyond
                 PROVE  LET was == saved[i].of
                            now == Restored(scanner, saved[i].bytes, beyond)
                        IN  /\ now.indents = was.indents
                            /\ was.parens = <<0>> /\ was.tern = <<0>> =>
                                  now.parens = <<0>> /\ now.tern = <<0>> /\ now.pending = was.pending
      BY DEF RestoredAsSaved
    <2>1. PICK n \in 0 .. 254 : Counts(saved, n)
      BY <1>1 DEF Inv
    <2>2. PICK j \in 1 .. n : j = i
      BY <2>1 DEF Counts
    <2>3. saved[i].bytes = Serialized(saved[i].of) /\ Levelled(saved[i].of, j + 1)
      BY <1>1, <2>2 DEF Inv, Kept
    <2>4. Levelled(saved[i].of, 255)
      <3>1. j + 1 \in Nat /\ 255 \in Nat /\ j + 1 <= 255
        BY <2>1
      <3> QED
        BY <2>3, <3>1, Levels
    <2>5. beyond \in Byte /\ scanner \in Scanner
      BY <1>1, PugAssumption DEF Inv, Levelled, Byte
    <2> QED
      BY <2>3, <2>4, <2>5, RestoredType
  <1> QED
    BY <1>1, Invariance, PTL

-----------------------------------------------------------------------------
(* What is open after each character.                                      *)

\* One turn of OpenAfter.
Turn(before, c) ==
    LET inner == IF before.open = <<>> THEN 0 ELSE Back(before.open)
        open  == IF inner \in Quotes
                 THEN IF c = inner /\ ~before.escaped THEN Pop(before.open)
                      ELSE before.open
                 ELSE IF c \in Opens \cup Quotes THEN Push(before.open, c)
                 ELSE IF c \in Closes /\ Opening(c) = inner THEN Pop(before.open)
                 ELSE before.open
    IN  [open    |-> open,
         escaped |-> inner \in Quotes /\ c = Backslash /\ ~before.escaped]

Nothing == [open |-> <<>>, escaped |-> FALSE]

\* f is OpenAfter of the text t.
IsAfter(f, t) == f = [n \in 0 .. Len(t) |-> IF n = 0 THEN Nothing ELSE Turn(f[n - 1], t[n])]

After(t) == CHOOSE f : IsAfter(f, t)

\* A set of numbers has a least one.
LEMMA Least ==
    ASSUME NEW T \in SUBSET Nat, T # {}
    PROVE  \E m \in T : \A n \in T : m <= n
  <1>1. PICK m \in T : \A y \in T : <<y, m>> \notin OpToRel(<, Nat)
    BY NatLessThanWellFounded, WFMin
  <1>2. \A y \in T : ~(y < m)
    BY <1>1 DEF OpToRel
  <1> QED
    BY <1>2

\* There is such a function for every text: if not, take the shortest
\* beginning of it for which there is none.
LEMMA AfterExists ==
    ASSUME NEW t \in Seq(Nat)
    PROVE  IsAfter(After(t), t)
  <1> DEFINE Is(f, m) == f = [n \in 0 .. m |-> IF n = 0 THEN Nothing ELSE Turn(f[n - 1], t[n])]
             Has(m) == \E f : Is(f, m)
             none == {m \in 0 .. Len(t) : ~Has(m)}
  <1>0. Len(t) \in Nat
    OBVIOUS
  <1>1. Has(0)
    <2>1. Is([n \in 0 .. 0 |-> Nothing], 0)
      OBVIOUS
    <2> QED
      BY <2>1
  <1>2. ASSUME NEW m \in 1 .. Len(t), Has(m - 1) PROVE Has(m)
    <2>0. m \in Nat /\ m >= 1
      BY <1>0
    <2>1. PICK f : Is(f, m - 1)
      BY <1>2
    <2> DEFINE g == [n \in 0 .. m |-> IF n = m THEN Turn(f[m - 1], t[m]) ELSE f[n]]
    <2>2. ASSUME NEW n \in 0 .. m
          PROVE  g[n] = IF n = 0 THEN Nothing ELSE Turn(g[n - 1], t[n])
      <3>1. CASE n = m
        <4>1. m - 1 \in 0 .. m /\ m - 1 # m
          BY <2>0
        <4>2. g[m] = Turn(f[m - 1], t[m]) /\ g[m - 1] = f[m - 1]
          BY <2>0, <4>1
        <4> HIDE DEF g
        <4> QED
          BY <2>0, <3>1, <4>2
      <3>2. CASE n # m
        <4>1. n \in 0 .. m - 1 /\ (n # 0 => n - 1 \in 0 .. m /\ n - 1 # m)
          BY <2>0, <3>2
        <4>2. g[n] = f[n] /\ (n # 0 => g[n - 1] = f[n - 1])
          BY <3>2, <4>1
        <4>3. f[n] = IF n = 0 THEN Nothing ELSE Turn(f[n - 1], t[n])
          BY <2>1, <4>1
        <4> HIDE DEF g
        <4> QED
          BY <4>2, <4>3
      <3> QED
        BY <3>1, <3>2
    <2>3. g = [n \in 0 .. m |-> g[n]]
      OBVIOUS
    <2> HIDE DEF g
    <2>4. Is(g, m)
      BY <2>2, <2>3
    <2> QED
      BY <2>4
  <1> HIDE DEF Has
  <1>3. none = {}
    <2> SUFFICES ASSUME none # {} PROVE FALSE
      OBVIOUS
    <2>1. none \in SUBSET Nat
      BY <1>0
    <2>2. PICK m \in none : \A n \in none : m <= n
      <3> HIDE DEF none
      <3> QED
        BY <2>1, Least
    <2>3. m \in 0 .. Len(t) /\ ~Has(m)
      OBVIOUS
    <2>4. m \in 1 .. Len(t)
      <3>1. m # 0
        BY <1>1, <2>3
      <3> QED
        BY <1>0, <2>3, <3>1
    <2>5. m - 1 \in 0 .. Len(t) /\ m - 1 \notin none
      BY <1>0, <2>2, <2>4
    <2>6. Has(m - 1)
      BY <2>5
    <2> HIDE DEF none
    <2> QED
      BY <1>2, <2>3, <2>4, <2>6
  <1>4. Has(Len(t))
    BY <1>0, <1>3
  <1>5. \E f : IsAfter(f, t)
    BY <1>4 DEF IsAfter, Has
  <1> QED
    BY <1>5 DEF After

LEMMA AfterText == OpenAfter = After(text)
  BY DEF OpenAfter, After, IsAfter, Nothing, Turn

LEMMA AfterTurns ==
    ASSUME NEW t \in Seq(Nat)
    PROVE  /\ After(t)[0] = Nothing
           /\ \A n \in 1 .. Len(t) : After(t)[n] = Turn(After(t)[n - 1], t[n])
  <1>1. PICK f : f = After(t)
    OBVIOUS
  <1>2. f = [n \in 0 .. Len(t) |-> IF n = 0 THEN Nothing ELSE Turn(f[n - 1], t[n])]
    BY <1>1, AfterExists DEF IsAfter
  <1>3. 0 \in 0 .. Len(t) /\ \A n \in 1 .. Len(t) : n \in 0 .. Len(t) /\ n # 0
    BY LenProperties
  <1> QED
    BY <1>1, <1>2, <1>3

\* What is open before a character does not depend on those after it.
LEMMA SameBeginning ==
    ASSUME NEW t \in Seq(Nat), NEW c \in Nat, NEW k \in 0 .. Len(t)
    PROVE  After(Append(t, c))[k] = After(t)[k]
  <1> DEFINE other == {m \in 0 .. Len(t) : After(Append(t, c))[m] # After(t)[m]}
  <1>0. Len(t) \in Nat
    OBVIOUS
  <1>1. Append(t, c) \in Seq(Nat) /\ Len(Append(t, c)) = Len(t) + 1
        /\ \A i \in 1 .. Len(t) : Append(t, c)[i] = t[i]
    OBVIOUS
  <1>2. PICK f, g : f = After(t) /\ g = After(Append(t, c))
    OBVIOUS
  <1>3. f[0] = Nothing /\ g[0] = Nothing
    BY <1>1, <1>2, AfterTurns
  <1>4. \A n \in 1 .. Len(t) : f[n] = Turn(f[n - 1], t[n]) /\ g[n] = Turn(g[n - 1], t[n])
    <2> TAKE n \in 1 .. Len(t)
    <2>1. n \in 1 .. Len(Append(t, c))
      BY <1>0, <1>1
    <2>2. f[n] = Turn(f[n - 1], t[n])
      BY <1>2, AfterTurns
    <2>3. g[n] = Turn(g[n - 1], Append(t, c)[n])
      BY <1>1, <1>2, <2>1, AfterTurns
    <2> QED
      BY <1>1, <2>2, <2>3
  <1>5. other = {}
    <2> SUFFICES ASSUME other # {} PROVE FALSE
      OBVIOUS
    <2>1. other \in SUBSET Nat
      BY <1>0
    <2>2. PICK m \in other : \A n \in other : m <= n
      <3> HIDE DEF other
      <3> QED
        BY <2>1, Least
    <2>3. m \in 0 .. Len(t) /\ g[m] # f[m]
      BY <1>2
    <2>4. m # 0
      BY <1>3, <2>3
    <2>5. m \in 1 .. Len(t)
      BY <1>0, <2>3, <2>4
    <2>6. m - 1 \in 0 .. Len(t) /\ m - 1 \notin other
      BY <1>0, <2>2, <2>5
    <2>7. g[m - 1] = f[m - 1]
      BY <1>2, <2>6
    <2> HIDE DEF other
    <2> QED
      BY <1>4, <2>3, <2>5, <2>7
  <1> QED
    BY <1>5

\* What is open at the end of a text, an apostrophe anywhere in it, and
\* anything in it that is more than a string.
Now(t) == After(t)[Len(t)]
Inner(open) == IF open = <<>> THEN 0 ELSE Back(open)
AnApostrophe(before, c) ==
    Inner(before.open) \in Quotes /\ c \in Quotes \ {Inner(before.open)} /\ ~before.escaped
APart(before, c) == Inner(before.open) \notin {34, 39} /\ c \notin {34, 39, Space}
SomeApostrophe(t) == \E n \in 1 .. Len(t) : AnApostrophe(After(t)[n - 1], t[n])
SomePart(t) == \E n \in 1 .. Len(t) : APart(After(t)[n - 1], t[n])

Disguise(c) == c > 127 /\ Char(c) \in Quotes \cup Opens \cup Closes \cup {Backslash}
SomeDisguise(t) == \E n \in 1 .. Len(t) : Disguise(t[n])

\* What the scanner and JavaScript need not agree about.
Excused(t) == SomeApostrophe(t) \/ SomeDisguise(t)

LEMMA OfText ==
    /\ Apostrophe \/ Disguised <=> Excused(text)
    /\ (\E n \in 1 .. Len(text) : Within(n) \notin {34, 39} /\ text[n] \notin {34, 39, Space})
           <=> SomePart(text)
    /\ OpenAfter[Len(text)] = Now(text)
  BY AfterText DEF Apostrophe, Within, Inner, AnApostrophe, APart, SomeApostrophe, SomePart, Now,
                   Disguised, Disguise, SomeDisguise, Excused

LEMMA OfNothing == Now(<<>>) = Nothing /\ ~SomeApostrophe(<<>>) /\ ~SomePart(<<>>)
  <1>1. <<>> \in Seq(Nat) /\ Len(<<>>) = 0
    OBVIOUS
  <1>2. Now(<<>>) = Nothing
    BY <1>1, AfterTurns DEF Now
  <1>3. 1 .. Len(<<>>) = {}
    BY <1>1
  <1> QED
    BY <1>2, <1>3 DEF SomeApostrophe, SomePart

\* One more character.
LEMMA Grown ==
    ASSUME NEW t \in Seq(Nat), NEW c \in Nat
    PROVE  /\ Now(Append(t, c)) = Turn(Now(t), c)
           /\ SomeApostrophe(Append(t, c)) <=> SomeApostrophe(t) \/ AnApostrophe(Now(t), c)
           /\ SomePart(Append(t, c)) <=> SomePart(t) \/ APart(Now(t), c)
  <1> DEFINE u == Append(t, c)
  <1>0. PICK k \in Nat : k = Len(t)
    BY LenProperties
  <1>1. u \in Seq(Nat) /\ Len(u) = k + 1 /\ u[k + 1] = c /\ \A i \in 1 .. k : u[i] = t[i]
    BY <1>0
  <1>2. \A n \in 0 .. k : After(u)[n] = After(t)[n]
    BY <1>0, SameBeginning
  <1> HIDE DEF u
  <1>3. After(u)[k] = Now(t)
    BY <1>0, <1>2 DEF Now
  <1>4. Now(u) = Turn(Now(t), c)
    <2>1. k + 1 \in 1 .. Len(u) /\ (k + 1) - 1 = k
      BY <1>0, <1>1
    <2>2. After(u)[k + 1] = Turn(After(u)[(k + 1) - 1], u[k + 1])
      BY <1>1, <2>1, AfterTurns
    <2> QED
      BY <1>1, <1>3, <2>1, <2>2 DEF Now
  <1>5. \A n \in 1 .. k : After(u)[n - 1] = After(t)[n - 1] /\ u[n] = t[n]
    BY <1>0, <1>1, <1>2
  <1>6. 1 .. Len(u) = (1 .. k) \cup {k + 1} /\ (k + 1) - 1 = k
    BY <1>0, <1>1
  <1>7. SomeApostrophe(u) <=> SomeApostrophe(t) \/ AnApostrophe(Now(t), c)
    <2>1. SomeApostrophe(u) <=> (\E n \in 1 .. k : AnApostrophe(After(u)[n - 1], u[n]))
                                  \/ AnApostrophe(After(u)[k], u[k + 1])
      BY <1>6 DEF SomeApostrophe
    <2>2. (\E n \in 1 .. k : AnApostrophe(After(u)[n - 1], u[n])) <=> SomeApostrophe(t)
      BY <1>0, <1>5 DEF SomeApostrophe
    <2> QED
      BY <1>1, <1>3, <2>1, <2>2
  <1>8. SomePart(u) <=> SomePart(t) \/ APart(Now(t), c)
    <2>1. SomePart(u) <=> (\E n \in 1 .. k : APart(After(u)[n - 1], u[n]))
                                  \/ APart(After(u)[k], u[k + 1])
      BY <1>6 DEF SomePart
    <2>2. (\E n \in 1 .. k : APart(After(u)[n - 1], u[n])) <=> SomePart(t)
      BY <1>0, <1>5 DEF SomePart
    <2> QED
      BY <1>1, <1>3, <2>1, <2>2
  <1> QED
    BY <1>4, <1>7, <1>8 DEF u

LEMMA ExcusedGrown ==
    ASSUME NEW t \in Seq(Nat), NEW c \in Nat
    PROVE  Excused(Append(t, c)) <=> Excused(t) \/ AnApostrophe(Now(t), c) \/ Disguise(c)
  <1> DEFINE u == Append(t, c)
  <1>1. PICK k \in Nat : k = Len(t)
    BY LenProperties
  <1>2. Len(u) = k + 1 /\ u[k + 1] = c /\ \A n \in 1 .. k : u[n] = t[n]
    BY <1>1, AppendProperties
  <1> HIDE DEF u
  <1>3. SomeDisguise(u) <=> SomeDisguise(t) \/ Disguise(c)
    <2>1. \A n : n \in 1 .. k + 1 <=> n \in 1 .. k \/ n = k + 1
      OBVIOUS
    <2>2. SomeDisguise(u) <=> (\E n \in 1 .. k : Disguise(u[n])) \/ Disguise(u[k + 1])
      BY <1>2, <2>1 DEF SomeDisguise
    <2>3. (\E n \in 1 .. k : Disguise(u[n])) <=> SomeDisguise(t)
      BY <1>1, <1>2 DEF SomeDisguise
    <2> QED
      BY <1>2, <2>2, <2>3
  <1>4. SomeApostrophe(u) <=> SomeApostrophe(t) \/ AnApostrophe(Now(t), c)
    BY Grown DEF u
  <1> QED
    BY <1>3, <1>4 DEF Excused, u

-----------------------------------------------------------------------------
(* The scanner's brackets are those of the text.                           *)

\* The characters that open, close and escape.
Signs == Quotes \cup Opens \cup Closes \cup {Backslash}

LEMMA Ascii == \A c \in 0 .. 127 : Char(c) = c
  BY DEF Char

LEMMA SignsAscii == Signs \subseteq 1 .. 127
  BY DEF Signs, Quotes, Opens, Closes, Backslash

\* A character that is no disguise is taken for a sign when it is that sign.
LEMMA Taken ==
    ASSUME NEW c \in Nat, ~Disguise(c)
    PROVE  /\ \A x \in Signs : Char(c) = x <=> c = x
           /\ c \in Signs => Char(c) = c /\ Short(c) = c
  <1>1. CASE c \in 0 .. 127
    <2>1. Char(c) = c
      BY <1>1, Ascii
    <2>2. Short(c) = c
      BY <1>1, SMT DEF Short
    <2> QED
      BY <2>1, <2>2
  <1>2. CASE c > 127
    <2>1. Char(c) \notin Signs
      BY <1>2 DEF Disguise, Signs
    <2>2. c \notin Signs
      BY <1>2, SignsAscii
    <2> QED
      BY <2>1, <2>2
  <1> QED
    BY <1>1, <1>2

Same(parens, open) ==
    /\ open \in Seq(Nat) /\ Len(parens) = Len(open) + 1
    /\ parens[1] = 0
    /\ \A i \in 1 .. Len(open) : parens[i + 1] = open[i] /\ open[i] \in Signs

LEMMA SameInner ==
    ASSUME NEW parens \in Seq(Nat), NEW open, Same(parens, open)
    PROVE  /\ Back(parens) = Inner(open) /\ Inner(open) \in Nat
           /\ Inner(open) # 0 <=> open # <<>>
           /\ Char(Back(parens)) = Back(parens)
  <1>1. PICK n \in Nat : n = Len(open)
    BY LenProperties DEF Same
  <1>2. CASE open = <<>>
    <2>1. Back(parens) = 0 /\ Inner(open) = 0
      BY <1>1, <1>2 DEF Same, Back, Inner
    <2>2. Char(0) = 0
      BY Ascii
    <2> QED
      BY <1>2, <2>1, <2>2
  <1>3. CASE open # <<>>
    <2>1. n # 0
      BY <1>1, <1>3, EmptySeq DEF Same
    <2>2. n \in 1 .. n /\ Len(parens) = n + 1
      BY <1>1, <2>1 DEF Same
    <2>3. parens[n + 1] = open[n] /\ open[n] \in Signs
      BY <1>1, <2>2 DEF Same
    <2>4. open[n] \in 1 .. 127
      BY <2>3, SignsAscii
    <2>5. Back(parens) = open[n] /\ Inner(open) = open[n]
      BY <1>1, <1>3, <2>2, <2>3 DEF Back, Inner
    <2>6. PICK c \in 1 .. 127 : c = open[n]
      BY <2>4
    <2>7. c \in Nat /\ c # 0 /\ Char(c) = c
      <3>1. c \in 0 .. 127 /\ c \in Nat /\ c # 0
        OBVIOUS
      <3>2. Char(c) = c
        BY <3>1, Ascii
      <3> QED
        BY <3>1, <3>2
    <2>8. Back(parens) = c /\ Inner(open) = c
      BY <2>5, <2>6
    <2>9. Back(parens) = Inner(open) /\ Inner(open) \in Nat /\ Inner(open) # 0
      BY <2>7, <2>8
    <2>10. Char(Back(parens)) = Back(parens)
      BY <2>7, <2>8
    <2> QED
      BY <1>3, <2>9, <2>10
  <1> QED
    BY <1>2, <1>3

LEMMA SameTail ==
    ASSUME NEW parens \in Seq(Nat), NEW open, Same(parens, open)
    PROVE  Tail(parens) = open
  <1>1. PICK n \in Nat : n = Len(open)
    BY LenProperties DEF Same
  <1>2. Len(parens) = n + 1 /\ parens # <<>>
    BY <1>1 DEF Same
  <1>3. Tail(parens) \in Seq(Nat) /\ Len(Tail(parens)) = n
        /\ \A i \in 1 .. n : Tail(parens)[i] = parens[i + 1]
    BY <1>2, HeadTailProperties
  <1> QED
    BY <1>1, <1>3, SeqEqual DEF Same

LEMMA SamePush ==
    ASSUME NEW parens \in Seq(Nat), NEW open, Same(parens, open), NEW c \in Signs
    PROVE  Same(Push(parens, c), Push(open, c))
  <1>1. c \in Nat
    BY SignsAscii
  <1> QED
    BY <1>1 DEF Same, Push

LEMMA SamePop ==
    ASSUME NEW parens \in Seq(Nat), NEW open, Same(parens, open), open # <<>>
    PROVE  Same(Pop(parens), Pop(open))
  <1>1. PICK n \in Nat : n = Len(open)
    BY LenProperties DEF Same
  <1>2. n # 0
    BY <1>1, EmptySeq DEF Same
  <1>3. PICK m \in Nat : n = m + 1
    BY <1>2
  <1>4. \A i \in 1 .. m : i \in 1 .. n
    BY <1>3
  <1>5. \A i \in 1 .. m : open[i] \in Nat
    BY <1>1, <1>4, ElementOfSeq DEF Same
  <1>6. Pop(open) \in Seq(Nat) /\ Len(Pop(open)) = m /\ \A i \in 1 .. m : Pop(open)[i] = open[i]
    BY <1>1, <1>3, <1>5, SubSeqProperties DEF Pop, Same
  <1>7. Len(parens) = m + 2
    BY <1>1, <1>3 DEF Same
  <1>8. \A i \in 1 .. m + 1 : i \in 1 .. Len(parens)
    BY <1>7
  <1>9. \A i \in 1 .. m + 1 : parens[i] \in Nat
    BY <1>8, ElementOfSeq
  <1>10. Len(Pop(parens)) = m + 1 /\ \A i \in 1 .. m + 1 : Pop(parens)[i] = parens[i]
    BY <1>7, <1>9, SubSeqProperties DEF Pop
  <1>11. \A i \in 1 .. m : i + 1 \in 1 .. m + 1 /\ parens[i + 1] = open[i] /\ open[i] \in Signs
    BY <1>1, <1>4 DEF Same
  <1>12. 1 \in 1 .. m + 1 /\ parens[1] = 0
    BY DEF Same
  <1> QED
    BY <1>6, <1>10, <1>11, <1>12 DEF Same

LEMMA LongerText ==
    ASSUME NEW t \in Seq(Nat), NEW c \in Nat
    PROVE  /\ Append(t, c) \in Seq(Nat) /\ Append(t, c) # <<>>
           /\ Len(Append(t, c)) = Len(t) + 1 /\ Append(t, c)[Len(t) + 1] = c
  BY AppendProperties

\* What a scanner that began with nothing left over knows of a text that is not
\* excused, before the character nx.
Agrees(s, t, nx) ==
    /\ Same(s.parens, Now(t).open)
    /\ Now(t).escaped => nx = Eof
    /\ s.isString => Len(s.parens) <= 2 /\ Back(s.parens) \in {0, 34, 39}
    /\ t = <<>> => nx # Space /\ (s.isString <=> Char(nx) \in {34, 39})
    /\ t # <<>> => (s.isString <=> ~SomePart(t))

\* It takes the text for a string as long as each character is in quotes or a
\* quote, or a blank.
Goes(s, c) == s.isString /\ (Back(s.parens) \in {34, 39} \/ c \in {34, 39, Space})

LEMMA StringSoFar ==
    ASSUME NEW s \in Scanner, NEW t \in Seq(Nat), NEW c \in Nat, Agrees(s, t, c), ~Disguise(c)
    PROVE  ~SomePart(Append(t, c)) <=> Goes(s, c)
  <1>1. Back(s.parens) = Inner(Now(t).open)
    BY SameInner DEF Agrees, Scanner
  <1>2. SomePart(Append(t, c)) <=> SomePart(t) \/ APart(Now(t), c)
    BY Grown
  <1>3. CASE t = <<>>
    <2>1. Back(s.parens) = 0 /\ ~SomePart(t)
      BY <1>1, <1>3, OfNothing DEF Nothing, Inner
    <2>2. c # Space /\ (s.isString <=> c \in {34, 39})
      <3>1. c # Space /\ (s.isString <=> Char(c) \in {34, 39})
        BY <1>3 DEF Agrees
      <3>2. 34 \in Signs /\ 39 \in Signs
        BY DEF Signs, Quotes
      <3> QED
        BY <3>1, <3>2, Taken
    <2> QED
      BY <1>1, <1>2, <2>1, <2>2 DEF APart, Goes
  <1>4. CASE t # <<>>
    <2>1. s.isString <=> ~SomePart(t)
      BY <1>4 DEF Agrees
    <2> QED
      BY <1>1, <1>2, <2>1 DEF APart, Goes
  <1> QED
    BY <1>3, <1>4

\* A turn keeps the agreement when it does to the brackets what the character
\* does to those of the text.
LEMMA TurnAgrees ==
    ASSUME NEW s \in Scanner, NEW after \in Scanner, NEW t \in Seq(Nat), NEW c \in Nat, NEW nx,
           Agrees(s, t, c), ~Disguise(c),
           Same(after.parens, Turn(Now(t), c).open),
           Turn(Now(t), c).escaped => nx = Eof,
           after.isString <=> Goes(s, c),
           after.isString => Len(after.parens) <= 2 /\ Back(after.parens) \in {0, 34, 39}
    PROVE  Agrees(after, Append(t, c), nx)
  <1>1. Now(Append(t, c)) = Turn(Now(t), c)
    BY Grown
  <1>2. ~SomePart(Append(t, c)) <=> Goes(s, c)
    BY StringSoFar
  <1>3. Append(t, c) # <<>>
    BY LongerText
  <1> QED
    BY <1>1, <1>2, <1>3 DEF Agrees

\* What a character does to what is open.
LEMMA TurnCases ==
    ASSUME NEW before, NEW c
    PROVE  LET inner == Inner(before.open)
               after == Turn(before, c)
           IN  /\ inner \in Quotes /\ c = inner /\ ~before.escaped =>
                     after.open = Pop(before.open) /\ ~after.escaped
               /\ inner \in Quotes /\ (c # inner \/ before.escaped) => after.open = before.open
               /\ inner \in Quotes => (after.escaped <=> c = Backslash /\ ~before.escaped)
               /\ inner \notin Quotes => ~after.escaped
               /\ inner \notin Quotes /\ c \in Opens \cup Quotes => after.open = Push(before.open, c)
               /\ inner \notin Quotes /\ c \in Closes /\ Opening(c) = inner =>
                     after.open = Pop(before.open)
               /\ inner \notin Quotes /\ c \notin Opens \cup Quotes \cup Closes =>
                     after.open = before.open
  <1>1. PICK inner : inner = Inner(before.open)
    OBVIOUS
  <1>2. Turn(before, c).open =
            IF inner \in Quotes
            THEN IF c = inner /\ ~before.escaped THEN Pop(before.open) ELSE before.open
            ELSE IF c \in Opens \cup Quotes THEN Push(before.open, c)
            ELSE IF c \in Closes /\ Opening(c) = inner THEN Pop(before.open)
            ELSE before.open
    BY <1>1 DEF Turn, Inner
  <1>3. Turn(before, c).escaped <=> inner \in Quotes /\ c = Backslash /\ ~before.escaped
    BY <1>1 DEF Turn, Inner
  <1>4. Backslash \notin Quotes /\ \A x \in Closes : x \notin Opens \cup Quotes
    BY DEF Backslash, Quotes, Opens, Closes
  <1> QED
    BY <1>1, <1>2, <1>3, <1>4

LEMMA TurnIs ==
    ASSUME NEW s \in Scanner, NEW t \in Seq(Nat), NEW c \in Nat, Agrees(s, t, c), c # Eof
    PROVE  LET inner == Back(s.parens)
               open  == Now(t).open
               after == Turn(Now(t), c)
           IN  /\ inner \in Quotes /\ c = inner => after.open = Pop(open) /\ ~after.escaped
               /\ inner \in Quotes /\ c # inner =>
                     after.open = open /\ (after.escaped <=> c = Backslash)
               /\ inner \notin Quotes => ~after.escaped
               /\ inner \notin Quotes /\ c \in Opens \cup Quotes => after.open = Push(open, c)
               /\ inner \notin Quotes /\ c \in Closes /\ Opening(c) = inner => after.open = Pop(open)
               /\ inner \notin Quotes /\ c \notin Opens \cup Quotes \cup Closes => after.open = open
  <1>1. Back(s.parens) = Inner(Now(t).open) /\ ~Now(t).escaped
    BY SameInner DEF Agrees, Scanner
  <1> QED
    BY <1>1, TurnCases

\* A character that opens and closes nothing.
LEMMA PlainAgrees ==
    ASSUME NEW s \in Scanner, NEW after \in Scanner, NEW t \in Seq(Nat), NEW c \in Nat, NEW nx,
           Agrees(s, t, c), c # Eof, ~Disguise(c),
           after.parens = s.parens,
           after.isString <=> Goes(s, c),
           \/ Back(s.parens) \in Quotes /\ c \notin Quotes \cup {Backslash}
           \/ Back(s.parens) \notin Quotes /\ c \notin Opens \cup Quotes \cup Closes
    PROVE  Agrees(after, Append(t, c), nx)
  <1>1. Turn(Now(t), c).open = Now(t).open /\ ~Turn(Now(t), c).escaped
    BY TurnIs
  <1>2. Same(after.parens, Turn(Now(t), c).open)
    BY <1>1 DEF Agrees
  <1>3. after.isString => Len(after.parens) <= 2 /\ Back(after.parens) \in {0, 34, 39}
    BY DEF Agrees, Goes
  <1> QED
    BY <1>1, <1>2, <1>3, TurnAgrees

\* A quote, where it is no apostrophe.
LEMMA QuoteAgrees ==
    ASSUME NEW s \in Scanner, NEW t \in Seq(Nat), NEW c \in Quotes, NEW nx,
           Agrees(s, t, c), ~AnApostrophe(Now(t), c), Quoted(s, c) \in Scanner
    PROVE  Agrees(Quoted(s, c), Append(t, c), nx)
  <1>0. c \in Nat \ {0} /\ c # Eof /\ c \in Signs /\ ~Disguise(c) /\ Short(c) = c
    <2>1. c \in Nat \ {0} /\ c # Eof /\ c \in Signs /\ ~Disguise(c)
      BY DEF Quotes, Eof, Signs, Disguise
    <2> QED
      BY <2>1, Taken
  <1>1. Back(s.parens) = Inner(Now(t).open) /\ ~Now(t).escaped /\ s.parens \in Seq(Nat)
        /\ (Inner(Now(t).open) # 0 <=> Now(t).open # <<>>)
        /\ Char(Back(s.parens)) = Back(s.parens)
        /\ Same(s.parens, Now(t).open)
    BY <1>0, SameInner DEF Agrees, Scanner
  <1>2. Quoted(s, c).parens = (IF Back(s.parens) = c THEN Pop(s.parens) ELSE Push(s.parens, c))
        /\ (Quoted(s, c).isString <=> s.isString /\ c # 96)
    BY <1>0, <1>1 DEF Quoted, AfterQuote, Scanner
  <1>3. PICK k \in Nat : k = Len(s.parens) /\ k >= 1
    BY <1>1, LenProperties DEF Same
  <1>4. CASE Back(s.parens) = c
    <2>1. Turn(Now(t), c).open = Pop(Now(t).open) /\ ~Turn(Now(t), c).escaped
      BY <1>0, <1>4, TurnIs
    <2>2. Now(t).open # <<>>
      BY <1>0, <1>1, <1>4
    <2>3. Same(Quoted(s, c).parens, Turn(Now(t), c).open)
      BY <1>1, <1>2, <1>4, <2>1, <2>2, SamePop
    <2>4. Quoted(s, c).isString <=> Goes(s, c)
      BY <1>2, <1>4 DEF Goes, Quotes, Space
    <2>5. Quoted(s, c).isString => Len(Quoted(s, c).parens) <= 2 /\ Back(Quoted(s, c).parens) \in {0, 34, 39}
      <3> SUFFICES ASSUME s.isString
                   PROVE  Len(Pop(s.parens)) <= 2 /\ Back(Pop(s.parens)) \in {0, 34, 39}
        BY <1>2, <1>4
      <3>1. k <= 2
        BY <1>3 DEF Agrees
      <3>2. s.parens[1] = 0 /\ Same(Pop(s.parens), Pop(Now(t).open))
        <4>1. s.parens[1] = 0
          BY <1>1 DEF Same
        <4> QED
          BY <1>1, <2>2, <4>1, SamePop
      <3>3. Len(Pop(s.parens)) = k - 1 /\ k - 1 >= 1
        <4>1. Len(Pop(s.parens)) = k - 1
          BY <1>1, <1>3 DEF Pop
        <4>2. Len(Pop(s.parens)) >= 1
          <5>1. Len(Pop(Now(t).open)) \in Nat
            BY <3>2, LenProperties DEF Same
          <5> QED
            BY <3>2, <5>1 DEF Same
        <4> QED
          BY <4>1, <4>2
      <3>4. k - 1 = 1
        BY <3>1, <3>3
      <3> QED
        BY <3>2, <3>3, <3>4 DEF Back, Same
    <2> QED
      BY <1>0, <2>1, <2>3, <2>4, <2>5, TurnAgrees
  <1>5. CASE Back(s.parens) # c
    <2>1. Back(s.parens) \notin Quotes
      BY <1>1, <1>5 DEF AnApostrophe
    <2>2. Turn(Now(t), c).open = Push(Now(t).open, c) /\ ~Turn(Now(t), c).escaped
      BY <1>0, <2>1, TurnIs
    <2>3. Same(Quoted(s, c).parens, Turn(Now(t), c).open)
      BY <1>0, <1>1, <1>2, <1>5, <2>2, SamePush
    <2>4. Quoted(s, c).isString <=> Goes(s, c)
      BY <1>2, <2>1 DEF Goes, Quotes, Space
    <2>5. Quoted(s, c).isString => Len(Quoted(s, c).parens) <= 2 /\ Back(Quoted(s, c).parens) \in {0, 34, 39}
      <3> SUFFICES ASSUME s.isString, c # 96
                   PROVE  Len(Push(s.parens, c)) <= 2 /\ Back(Push(s.parens, c)) \in {0, 34, 39}
        BY <1>2, <1>5
      <3>1. k <= 2 /\ Back(s.parens) = 0
        BY <1>3, <2>1 DEF Agrees, Quotes
      <3>2. Now(t).open = <<>>
        BY <1>1, <3>1
      <3>3. k = 1
        BY <1>1, <1>3, <3>2 DEF Same
      <3>4. Len(Push(s.parens, c)) = 2 /\ Push(s.parens, c)[2] = c
        <4>1. Len(s.parens) = 1 /\ 1 + 1 = 2
          BY <1>3, <3>3
        <4>2. Len(Append(s.parens, c)) = Len(s.parens) + 1 /\ Append(s.parens, c)[Len(s.parens) + 1] = c
          BY <1>0, <1>1, LongerText
        <4> QED
          BY <4>1, <4>2 DEF Push
      <3> QED
        BY <3>4 DEF Back, Quotes
    <2> QED
      BY <1>0, <2>2, <2>3, <2>4, <2>5, TurnAgrees
  <1> QED
    BY <1>4, <1>5

LEMMA OpenAgrees ==
    ASSUME NEW s \in Scanner, NEW after \in Scanner, NEW t \in Seq(Nat), NEW c \in Opens, NEW nx,
           Agrees(s, t, c), Back(s.parens) \notin Quotes,
           after.parens = Push(s.parens, c), ~after.isString
    PROVE  Agrees(after, Append(t, c), nx)
  <1>0. c \in Nat \ {0} /\ c # Eof /\ c \notin {34, 39, Space} /\ c \in Signs /\ ~Disguise(c)
    BY DEF Opens, Eof, Space, Signs, Disguise
  <1>1. Turn(Now(t), c).open = Push(Now(t).open, c) /\ ~Turn(Now(t), c).escaped
    BY <1>0, TurnIs
  <1>2. Same(after.parens, Turn(Now(t), c).open)
    BY <1>0, <1>1, SamePush DEF Agrees, Scanner
  <1>3. ~Goes(s, c)
    BY <1>0 DEF Goes, Quotes
  <1> QED
    BY <1>0, <1>1, <1>2, <1>3, TurnAgrees

LEMMA CloseAgrees ==
    ASSUME NEW s \in Scanner, NEW after \in Scanner, NEW t \in Seq(Nat), NEW c \in Closes, NEW nx,
           Agrees(s, t, c), Back(s.parens) = Opening(c),
           after.parens = Pop(s.parens), ~after.isString
    PROVE  Agrees(after, Append(t, c), nx)
  <1>0. c \in Nat \ {0} /\ c # Eof /\ c \notin {34, 39, Space} /\ ~Disguise(c)
    BY DEF Closes, Eof, Space, Disguise
  <1>1. Opening(c) \in Opens
    BY DEF Opening, Opens, Closes
  <1>2. Back(s.parens) \notin Quotes /\ Back(s.parens) # 0
    BY <1>1 DEF Opens, Quotes
  <1>3. Turn(Now(t), c).open = Pop(Now(t).open) /\ ~Turn(Now(t), c).escaped
    BY <1>0, <1>2, TurnIs
  <1>4. Now(t).open # <<>>
    BY <1>2, SameInner DEF Agrees, Scanner
  <1>5. Same(after.parens, Turn(Now(t), c).open)
    BY <1>3, <1>4, SamePop DEF Agrees, Scanner
  <1>6. ~Goes(s, c)
    BY <1>0, <1>2 DEF Goes, Quotes
  <1> QED
    BY <1>0, <1>3, <1>5, <1>6, TurnAgrees

\* A backslash in quotes, and the character after it if there is one.
LEMMA EscapeAgrees ==
    ASSUME NEW s \in Scanner, NEW t \in Seq(Nat), NEW c \in Nat, NEW nx,
           Agrees(s, t, Backslash), Back(s.parens) \in Quotes
    PROVE  /\ Agrees(s, Append(t, Backslash), Eof)
           /\ Agrees(s, Append(Append(t, Backslash), c), nx)
           /\ ~AnApostrophe(Now(t), Backslash)
           /\ ~AnApostrophe(Now(Append(t, Backslash)), c)
  <1>0. Backslash \in Nat \ {0} /\ Backslash # Eof /\ Backslash \notin Quotes \cup {34, 39, Space}
        /\ ~Disguise(Backslash)
    BY DEF Backslash, Eof, Quotes, Space, Disguise
  <1> DEFINE u == Append(t, Backslash)
  <1>1. u \in Seq(Nat) /\ u # <<>>
    BY <1>0, LongerText
  <1>2. Now(u) = Turn(Now(t), Backslash)
    BY <1>0, Grown
  <1>3. Turn(Now(t), Backslash).open = Now(t).open /\ Turn(Now(t), Backslash).escaped
    BY <1>0, TurnIs
  <1>4. Inner(Now(t).open) = Back(s.parens)
    BY SameInner DEF Agrees, Scanner
  <1>5. s.isString <=> Goes(s, Backslash)
    BY DEF Goes, Agrees, Quotes
  <1>6. Agrees(s, u, Eof)
    <2>1. Same(s.parens, Turn(Now(t), Backslash).open)
      BY <1>3 DEF Agrees
    <2>2. s.isString => Len(s.parens) <= 2 /\ Back(s.parens) \in {0, 34, 39}
      BY DEF Agrees
    <2> QED
      BY <1>0, <1>5, <2>1, <2>2, TurnAgrees
  <1> HIDE DEF u
  <1>7. Turn(Now(u), c).open = Now(u).open /\ ~Turn(Now(u), c).escaped
    <2>1. Inner(Now(u).open) \in Quotes /\ Now(u).escaped
      BY <1>2, <1>3, <1>4
    <2> QED
      BY <2>1, TurnCases
  <1>8. Agrees(s, Append(u, c), nx)
    <2>1. Now(Append(u, c)) = Turn(Now(u), c)
      BY <1>1, Grown
    <2>2. SomePart(Append(u, c)) <=> SomePart(u) \/ APart(Now(u), c)
      BY <1>1, Grown
    <2>3. Append(u, c) # <<>>
      BY <1>1, LongerText
    <2>4. s.isString <=> ~SomePart(u)
      BY <1>1, <1>6 DEF Agrees
    <2>5. s.isString => Back(s.parens) \in {34, 39}
      BY <1>6 DEF Agrees, Quotes
    <2>6. s.isString => ~APart(Now(u), c)
      BY <1>2, <1>3, <1>4, <2>5 DEF APart
    <2> QED
      BY <1>6, <1>7, <2>1, <2>2, <2>3, <2>4, <2>6 DEF Agrees
  <1>9. ~AnApostrophe(Now(t), Backslash) /\ ~AnApostrophe(Now(u), c)
    BY <1>0, <1>2, <1>3 DEF AnApostrophe
  <1> QED
    BY <1>6, <1>8, <1>9 DEF u

-----------------------------------------------------------------------------
(* While a value is read, and when that has ended.                         *)

\* StringsLeft.
Left(ended, t, nx, began) ==
    ended \in {"found", "not found"} /\ began /\ nx # Eof /\ Char(nx) # Colon /\ ~Excused(t)
    /\ t # <<>> =>
        (ended = "found" <=> SomePart(t))

Reading ==
    /\ text \in Seq(Nat)
    /\ InValue /\ clean /\ ~Excused(text) =>
           Agrees(scanner, text, next) /\ (text # <<>> => symbol)
    /\ Left(phase, text, next, clean)

LEMMA ReadingGives == Inv /\ Reading => ParensAreOpen /\ StringsLeft
  <1> SUFFICES ASSUME Inv, Reading PROVE ParensAreOpen /\ StringsLeft
    OBVIOUS
  <1>1. ParensAreOpen
    <2> SUFFICES ASSUME InValue, clean, ~Apostrophe, ~Disguised
                 PROVE  Tail(scanner.parens) = OpenAfter[Len(text)].open
      BY DEF ParensAreOpen
    <2>1. Same(scanner.parens, Now(text).open)
      BY OfText DEF Reading, Agrees
    <2>2. scanner.parens \in Seq(Nat)
      BY DEF Inv, Levelled, Scanner
    <2> QED
      BY <2>1, <2>2, SameTail, OfText
  <1>2. StringsLeft
    BY OfText DEF Reading, Left, StringsLeft, Look
  <1> QED
    BY <1>1, <1>2

LEMMA AdvanceText ==
    ASSUME text \in Seq(Nat), next \in Nat, Advance(<<>>)
    PROVE  text' = Append(text, next)
  <1>1. text' = text \o <<next>> \o <<>>
    BY DEF Advance
  <1>2. text \o <<next>> = Append(text, next)
    BY AppendIsConcat
  <1>3. Append(text, next) \in Seq(Nat)
    BY LongerText
  <1>4. Append(text, next) \o <<>> = Append(text, next)
    BY <1>3, ConcatEmptySeq
  <1> QED
    BY <1>1, <1>2, <1>4

\* A turn of the loop that goes on past one character.
LEMMA TurnReads ==
    ASSUME Inv, Reading, InValue, NEW s, GoOn(s), Advance(<<>>),
           clean /\ Agrees(scanner, text, next) /\ ~AnApostrophe(Now(text), next)
               /\ ~Disguise(next) =>
               Agrees(s, Append(text, next), next')
    PROVE  Reading'
  <1>1. text \in Seq(Nat) /\ next \in Nat
    BY DEF Reading, Inv
  <1>2. text' = Append(text, next)
    BY <1>1, AdvanceText
  <1>3. text' \in Seq(Nat)
    BY <1>1, <1>2, LongerText
  <1>4. phase' = "in value" /\ clean' = clean /\ scanner' = s /\ symbol'
    BY DEF GoOn, InValue
  <1>5. Excused(text') <=> Excused(text) \/ AnApostrophe(Now(text), next) \/ Disguise(next)
    BY <1>1, <1>2, ExcusedGrown
  <1>6. clean' /\ ~Excused(text') => Agrees(scanner', text', next')
    BY <1>2, <1>4, <1>5 DEF Reading
  <1>7. Left(phase', text', next', clean')
    BY <1>4 DEF Left
  <1> QED
    BY <1>3, <1>4, <1>6, <1>7 DEF Reading

\* The loop ends, with a value if there was something but a string.
LEMMA StopReads ==
    ASSUME Inv, Reading, InValue, NEW s, NEW marked, Stop(s, AttrFound(scanner, symbol), marked)
    PROVE  Reading'
  <1>1. text' = text /\ next' = next /\ clean' = clean /\ phase' # "in value"
        /\ (phase' = "found" <=> symbol /\ ~scanner.isString)
    BY DEF Stop, EndScan, AttrFound
  <1>2. Left(phase', text', next', clean')
    <2> SUFFICES ASSUME clean, ~Excused(text), text # <<>>
                 PROVE  phase' = "found" <=> SomePart(text)
      BY <1>1 DEF Left
    <2> QED
      BY <1>1 DEF Reading, Agrees
  <1>3. text' \in Seq(Nat) /\ ~InValue'
    BY <1>1 DEF Reading, InValue
  <1> QED
    BY <1>2, <1>3 DEF Reading

LEMMA ForgetReads ==
    ASSUME Forget, phase' # "in value"
    PROVE  Reading'
  <1>1. text' = <<>> /\ ~InValue'
    BY DEF Forget, InValue
  <1>2. text' \in Seq(Nat)
    BY <1>1, EmptySeq
  <1>3. Left(phase', text', next', clean')
    BY <1>1 DEF Left
  <1> QED
    BY <1>1, <1>2, <1>3 DEF Reading

LEMMA StartValueReads == Inv /\ StartValue => Reading'
  <1> SUFFICES ASSUME Inv, StartValue PROVE Reading'
    OBVIOUS
  <1>1. PICK n \in 0 .. 253 : Counts(saved, n) /\ n < MaxTokens
    BY RoomToScan DEF StartValue
  <1>2. PICK s \in Handed, first \in Following(0) \ {Space} :
            /\ scanner' = [s EXCEPT !.isString = Char(first) \in {34, 39}]
            /\ next' = first
            /\ clean' = (s.parens = <<0>> /\ s.tern = <<0>> /\ ~s.pending)
    BY DEF StartValue
  <1>3. s \in Scanner
    <2>1. n \in 0 .. 254
      OBVIOUS
    <2> QED
      BY <1>1, <2>1, HandedType DEF Levelled
  <1>4. text' = <<>> /\ phase' = "in value"
    BY DEF StartValue
  <1>5. scanner'.parens = s.parens /\ (scanner'.isString <=> Char(first) \in {34, 39})
    BY <1>2, <1>3 DEF Scanner
  <1>6. ASSUME clean' PROVE Agrees(scanner', <<>>, next')
    <2>1. scanner'.parens = <<0>>
      BY <1>2, <1>5, <1>6
    <2>2. Now(<<>>).open = <<>> /\ ~Now(<<>>).escaped
      BY OfNothing DEF Nothing
    <2>3. Len(<<0>>) = 1 /\ <<0>>[1] = 0
      OBVIOUS
    <2>4. Same(<<0>>, <<>>)
      <3>1. <<>> \in Seq(Nat) /\ Len(<<>>) = 0
        OBVIOUS
      <3>2. 1 .. Len(<<>>) = {}
        BY <3>1
      <3> QED
        BY <2>3, <3>1, <3>2 DEF Same
    <2>5. Len(scanner'.parens) <= 2 /\ Back(scanner'.parens) \in {0, 34, 39}
      BY <2>1, <2>3 DEF Back
    <2>6. next' # Space /\ (scanner'.isString <=> Char(next') \in {34, 39})
      BY <1>2, <1>5
    <2> QED
      BY <2>1, <2>2, <2>4, <2>5, <2>6 DEF Agrees
  <1>7. Left(phase', text', next', clean')
    BY <1>4 DEF Left
  <1>8. text' \in Seq(Nat)
    BY <1>4, EmptySeq
  <1>9. clean' => Agrees(scanner', text', next')
    BY <1>4, <1>6
  <1> QED
    BY <1>4, <1>7, <1>8, <1>9 DEF Reading

\* The characters of the program's tables.
LEMMA Characters ==
    /\ Eof \notin Quotes \cup Opens \cup Closes
    /\ Backslash \notin Quotes /\ Space \notin Quotes \cup Opens \cup Closes
    /\ RootOperators \subseteq Operators
    /\ Operators \cap (Quotes \cup Opens \cup Closes \cup {34, 39, Space}) = {}
    /\ Word \cap (Quotes \cup Opens \cup Closes \cup {34, 39, Space}) = {}
    /\ Quotes = {34, 39} \cup {96}
    /\ Quotes \cup Opens \cup Closes \cup {34, 39, Space, Backslash} \subseteq 0 .. 127
  BY DEF Eof, Quotes, Opens, Closes, Backslash, Space, RootOperators, Operators, Word, Question, Colon

\* What handle_attr does not take the next character for, it is not.
LEMMA LooksSo == \A x \in 0 .. 127 : Look # x => next # x
  BY Ascii DEF Look

LEMMA SeenSo ==
    \A x \in Quotes \cup Opens \cup Closes \cup {34, 39, Space, Backslash} : Look # x => next # x
  BY Characters, LooksSo

LEMMA EscapeReads == Inv /\ Reading /\ Escape => Reading'
  <1> SUFFICES ASSUME Inv, Reading, Escape PROVE Reading'
    OBVIOUS
  <1>1. text \in Seq(Nat) /\ scanner \in Scanner
    BY DEF Reading, Inv, Levelled
  <1>2. InValue /\ Char(next) = Backslash /\ Char(Back(scanner.parens)) \in Quotes /\ next \in Nat
    BY DEF Escape, Escaped, InString, InQuotes, Look, Inv
  <1>3. scanner' = scanner /\ symbol' /\ phase' = "in value" /\ clean' = clean
    BY <1>2 DEF Escape, GoOn, InValue
  <1>4. PICK c \in Following(Len(text) + 1) :
            IF c = Eof THEN text' = Append(text, next) /\ next' = Eof ELSE Advance(<<c>>)
    BY DEF Escape
  <1>5. c \in Nat
    BY <1>4, FollowingNat
  <1> DEFINE u == Append(text, next)
  <1>6. u \in Seq(Nat) /\ Append(u, c) \in Seq(Nat)
    BY <1>1, <1>2, <1>5, LongerText
  <1>7. \/ text' = u /\ next' = Eof
        \/ text' = Append(u, c)
    <2>1. CASE c = Eof
      BY <1>4, <2>1
    <2>2. CASE c # Eof
      <3>1. text' = text \o <<next>> \o <<c>>
        BY <1>4, <2>2 DEF Advance
      <3>2. text \o <<next>> = u
        BY <1>1, <1>2, AppendIsConcat
      <3> HIDE DEF u
      <3>3. u \o <<c>> = Append(u, c)
        BY <1>5, <1>6, AppendIsConcat
      <3> QED
        BY <3>1, <3>2, <3>3
    <2> QED
      BY <2>1, <2>2
  <1>8. Excused(text) \/ Disguise(next) => Excused(u) /\ Excused(Append(u, c))
    <2>1. Excused(text) \/ Disguise(next) => Excused(u)
      BY <1>1, <1>2, ExcusedGrown
    <2> HIDE DEF u
    <2>2. Excused(u) => Excused(Append(u, c))
      BY <1>5, <1>6, ExcusedGrown
    <2> QED
      BY <2>1, <2>2
  <1>9. ASSUME clean', ~Excused(text') PROVE Agrees(scanner', text', next')
    <2>1. ~Excused(text) /\ ~Disguise(next)
      BY <1>7, <1>8, <1>9
    <2>2. next = Backslash
      <3>1. Backslash \in Signs
        BY DEF Signs
      <3> QED
        BY <1>2, <2>1, <3>1, Taken
    <2>3. Agrees(scanner, text, Backslash)
      BY <1>2, <1>3, <1>9, <2>1, <2>2 DEF Reading
    <2>4. Back(scanner.parens) \in Quotes
      BY <1>1, <1>2, <2>3, SameInner DEF Agrees, Scanner
    <2>5. Agrees(scanner, u, Eof) /\ Agrees(scanner, Append(u, c), next')
      BY <1>1, <1>5, <2>2, <2>3, <2>4, EscapeAgrees
    <2> HIDE DEF u
    <2> QED
      BY <1>3, <1>7, <2>5
  <1> HIDE DEF u
  <1>10. text' \in Seq(Nat)
    BY <1>6, <1>7
  <1>11. Left(phase', text', next', clean')
    BY <1>3 DEF Left
  <1> QED
    BY <1>3, <1>9, <1>10, <1>11 DEF Reading

\* What a turn past a character that opens and closes nothing needs.
LEMMA PlainReads ==
    ASSUME Inv, Reading, InValue, NEW s \in Scanner, GoOn(s), Advance(<<>>), next # Eof,
           s.parens = scanner.parens,
           Agrees(scanner, text, next) => (s.isString <=> Goes(scanner, next)),
           \/ InQuotes(scanner) /\ next \notin Quotes \cup {Backslash}
           \/ ~InQuotes(scanner) /\ next \notin Opens \cup Quotes \cup Closes
    PROVE  Reading'
  <1>1. text \in Seq(Nat) /\ next \in Nat /\ scanner \in Scanner
    BY DEF Reading, Inv, Levelled
  <1>2. Agrees(scanner, text, next) /\ ~Disguise(next) => Agrees(s, Append(text, next), next')
    <2> SUFFICES ASSUME Agrees(scanner, text, next), ~Disguise(next)
                 PROVE  Agrees(s, Append(text, next), next')
      OBVIOUS
    <2>1. InQuotes(scanner) <=> Back(scanner.parens) \in Quotes
      BY <1>1, SameInner DEF Agrees, Scanner, InQuotes
    <2> QED
      BY <1>1, <2>1, PlainAgrees
  <1> QED
    BY <1>2, TurnReads

LEMMA AlphanumericReads == Inv /\ Reading /\ Alphanumeric => Reading'
  <1> SUFFICES ASSUME Inv, Reading, Alphanumeric PROVE Reading'
    OBVIOUS
  <1>1. PICK s : s = [scanner EXCEPT !.pending = FALSE, !.isString = @ /\ InQuotes(scanner)]
    OBVIOUS
  <1>2. InValue /\ next # Eof /\ GoOn(s) /\ Advance(<<>>)
    BY <1>1 DEF Alphanumeric
  <1>3. scanner \in Scanner
    BY DEF Inv, Levelled
  <1>4. s \in Scanner /\ s.parens = scanner.parens
        /\ (s.isString <=> scanner.isString /\ InQuotes(scanner))
    BY <1>1, <1>3 DEF Scanner
  <1>5. Look \in Word => Look \notin Quotes \cup Opens \cup Closes \cup {34, 39, Space, Backslash}
    BY DEF Word, Quotes, Opens, Closes, Space, Backslash
  <1>6. \/ InQuotes(scanner) /\ next \notin Quotes \cup {Backslash}
        \/ ~InQuotes(scanner) /\ next \notin Quotes \cup Opens \cup Closes \cup {34, 39, Space, Backslash}
    <2>1. \/ InQuotes(scanner) /\ Look \notin Quotes \cup {Backslash}
          \/ ~InQuotes(scanner) /\ Look \in Word
      BY <1>5 DEF Alphanumeric, Escaped, ValidAlpha, InString
    <2> QED
      BY <1>5, <2>1, SeenSo
  <1>7. ASSUME Agrees(scanner, text, next) PROVE s.isString <=> Goes(scanner, next)
    <2>1. scanner.isString => Back(scanner.parens) \in {0, 34, 39}
      BY <1>7 DEF Agrees
    <2>2. InQuotes(scanner) <=> Back(scanner.parens) \in Quotes
      BY <1>3, <1>7, SameInner DEF Agrees, Scanner, InQuotes
    <2> QED
      BY <1>4, <1>6, <2>1, <2>2, Characters DEF Goes
  <1> QED
    BY <1>2, <1>4, <1>5, <1>6, <1>7, PlainReads

LEMMA OperatorReads ==
    ASSUME Inv, Reading, Outside, Look \in Operators, NEW s \in Scanner, GoOn(s), Advance(<<>>),
           s.parens = scanner.parens, ~s.isString
    PROVE  Reading'
  <1>1. ~InQuotes(scanner) /\ next # Eof /\ InValue
    BY Characters DEF Outside, ValidAlpha, InString
  <1>2. next \notin Quotes \cup Opens \cup Closes \cup {34, 39, Space}
    <2> DEFINE Apart == Quotes \cup Opens \cup Closes \cup {34, 39, Space}
    <2>1. Look \notin Apart
      BY Characters
    <2>2. \A x \in Apart : Look # x => next # x
      BY SeenSo
    <2> HIDE DEF Apart
    <2>3. next \notin Apart
      BY <2>1, <2>2
    <2> QED
      BY <2>3 DEF Apart
  <1>3. ~Goes(scanner, next)
    <2>1. Back(scanner.parens) \notin {34, 39}
      BY <1>1, Ascii, Characters DEF InQuotes
    <2> QED
      BY <1>2, <2>1 DEF Goes
  <1> QED
    BY <1>1, <1>2, <1>3, PlainReads

LEMMA QuoteReads == Inv /\ Reading /\ Quote => Reading'
  <1> SUFFICES ASSUME Inv, Reading, Quote PROVE Reading'
    OBVIOUS
  <1>1. text \in Seq(Nat) /\ Char(next) \in Quotes /\ next \in Nat /\ scanner \in Scanner
    BY DEF Reading, Inv, Levelled, Quote, Look
  <1>2. InValue /\ GoOn(Quoted(scanner, next)) /\ Advance(<<>>)
    BY DEF Quote
  <1>3. Quoted(scanner, next) \in Scanner
    <2>1. scanner.parens \in Seq(Nat) /\ scanner.isString \in BOOLEAN
      BY <1>1 DEF Scanner
    <2>2. AfterQuote(scanner.parens, next) \in Seq(Nat)
      BY <1>1, <2>1, PopType, PushType, SixteenBits DEF AfterQuote
    <2> QED
      BY <1>1, <2>1, <2>2 DEF Quoted, Scanner
  <1>4. ~Disguise(next) => next \in Quotes
    <2>1. Quotes \subseteq Signs
      BY DEF Signs
    <2> QED
      BY <1>1, <2>1, Taken
  <1>5. Agrees(scanner, text, next) /\ ~AnApostrophe(Now(text), next) /\ ~Disguise(next) =>
            Agrees(Quoted(scanner, next), Append(text, next), next')
    BY <1>1, <1>3, <1>4, QuoteAgrees
  <1> QED
    BY <1>2, <1>5, TurnReads

LEMMA OpenBracketReads == Inv /\ Reading /\ OpenBracket => Reading'
  <1> SUFFICES ASSUME Inv, Reading, OpenBracket PROVE Reading'
    OBVIOUS
  <1>1. PICK s : s = [scanner EXCEPT !.pending = FALSE, !.parens = Push(@, Short(next)), !.isString = FALSE]
    OBVIOUS
  <1>2. InValue /\ Char(next) \in Opens /\ GoOn(s) /\ Advance(<<>>)
    BY <1>1 DEF OpenBracket, Outside, Look
  <1>3. text \in Seq(Nat) /\ next \in Nat /\ scanner \in Scanner /\ scanner.parens \in Seq(Nat)
    BY DEF Reading, Inv, Levelled, Scanner
  <1>4. s \in Scanner /\ s.parens = Push(scanner.parens, Short(next)) /\ ~s.isString
    <2>1. Push(scanner.parens, Short(next)) \in Seq(Nat)
      BY <1>3, PushType, SixteenBits
    <2> QED
      BY <1>1, <1>3, <2>1 DEF Scanner
  <1>5. Char(Back(scanner.parens)) \notin Quotes
    <2>1. Look \notin Quotes
      BY <1>2 DEF Opens, Quotes, Look
    <2> QED
      BY <2>1 DEF OpenBracket, Outside, ValidAlpha, InString, InQuotes
  <1>6. ~Disguise(next) => next \in Opens /\ Short(next) = next
    <2>1. Opens \subseteq Signs
      BY DEF Signs
    <2> QED
      BY <1>2, <1>3, <2>1, Taken
  <1>7. Agrees(scanner, text, next) /\ ~Disguise(next) => Agrees(s, Append(text, next), next')
    <2> SUFFICES ASSUME Agrees(scanner, text, next), ~Disguise(next)
                 PROVE  Agrees(s, Append(text, next), next')
      OBVIOUS
    <2>1. Back(scanner.parens) \notin Quotes
      BY <1>3, <1>5, SameInner DEF Agrees
    <2> QED
      BY <1>3, <1>4, <1>6, <2>1, OpenAgrees
  <1> QED
    BY <1>2, <1>7, TurnReads

LEMMA CloseBracketReads == Inv /\ Reading /\ CloseBracket => Reading'
  <1> SUFFICES ASSUME Inv, Reading, CloseBracket PROVE Reading'
    OBVIOUS
  <1>1. PICK s : s = [scanner EXCEPT !.pending = FALSE, !.parens = Pop(@), !.isString = FALSE]
    OBVIOUS
  <1>2. InValue /\ Char(next) \in Closes
    BY DEF CloseBracket, Outside, Look
  <1>3. text \in Seq(Nat) /\ next \in Nat /\ scanner \in Scanner /\ scanner.parens \in Seq(Nat)
    BY DEF Reading, Inv, Levelled, Scanner
  <1>4. s \in Scanner /\ s.parens = Pop(scanner.parens) /\ ~s.isString
    <2>1. Pop(scanner.parens) \in Seq(Nat)
      BY <1>3, PopType
    <2> QED
      BY <1>1, <1>3, <2>1 DEF Scanner
  <1>5. CASE Char(Back(scanner.parens)) = Opening(Char(next))
    <2>1. GoOn(s) /\ Advance(<<>>)
      BY <1>1, <1>5 DEF CloseBracket, Look
    <2>2. Agrees(scanner, text, next) /\ ~Disguise(next) => Agrees(s, Append(text, next), next')
      <3> SUFFICES ASSUME Agrees(scanner, text, next), ~Disguise(next)
                   PROVE  Agrees(s, Append(text, next), next')
        OBVIOUS
      <3>1. Closes \subseteq Signs
        BY DEF Signs
      <3>2. next \in Closes /\ Char(next) = next
        BY <1>2, <1>3, <3>1, Taken
      <3>3. Back(scanner.parens) = Opening(next)
        BY <1>3, <1>5, <3>2, SameInner DEF Agrees
      <3> QED
        BY <1>3, <1>4, <3>2, <3>3, CloseAgrees
    <2> QED
      BY <1>2, <2>1, <2>2, TurnReads
  <1>6. CASE Char(Back(scanner.parens)) # Opening(Char(next))
    <2>1. Stop([scanner EXCEPT !.pending = FALSE], AttrFound(scanner, symbol), Len(text))
      BY <1>6 DEF CloseBracket, Look
    <2> QED
      BY <1>2, <2>1, StopReads
  <1> QED
    BY <1>5, <1>6

LEMMA OperatorInParensReads == Inv /\ Reading /\ OperatorInParens => Reading'
  <1> SUFFICES ASSUME Inv, Reading, OperatorInParens PROVE Reading'
    OBVIOUS
  <1>1. PICK s : s = [scanner EXCEPT !.pending = TRUE, !.isString = FALSE]
    OBVIOUS
  <1>2. Outside /\ Look \in Operators /\ GoOn(s) /\ Advance(<<>>)
    BY <1>1 DEF OperatorInParens
  <1>3. scanner \in Scanner
    BY DEF Inv, Levelled
  <1>4. s \in Scanner /\ s.parens = scanner.parens /\ ~s.isString
    BY <1>1, <1>3 DEF Scanner
  <1> QED
    BY <1>2, <1>4, OperatorReads

\* Where a colon ends the value, StringsLeft says nothing.
LEMMA OperatorAtRootReads == Inv /\ Reading /\ OperatorAtRoot => Reading'
  <1> SUFFICES ASSUME Inv, Reading, OperatorAtRoot PROVE Reading'
    OBVIOUS
  <1>1. PICK asked : asked = IF Look = Question
                             THEN [scanner EXCEPT !.tern = Push(@, Len(scanner.parens))]
                             ELSE scanner
    OBVIOUS
  <1>2. PICK onward : onward = [asked EXCEPT !.pending = TRUE, !.isString = FALSE]
    OBVIOUS
  <1>3. PICK matched : matched = [onward EXCEPT !.tern = Pop(@)]
    OBVIOUS
  <1>4. \/ GoOn(onward) /\ Advance(<<>>)
        \/ GoOn(matched) /\ Advance(<<>>)
        \/ Look = Colon /\ Stop(asked, TRUE, Len(text))
    BY <1>1, <1>2, <1>3 DEF OperatorAtRoot
  <1>5. Outside /\ Look \in Operators /\ InValue
    BY Characters DEF OperatorAtRoot, Outside
  <1>6. scanner \in Scanner /\ scanner.tern \in Seq(Nat) /\ Len(scanner.parens) \in Nat
    BY LenProperties DEF Inv, Levelled, Scanner
  <1>7. asked \in Scanner /\ asked.parens = scanner.parens
    <2>1. Push(scanner.tern, Len(scanner.parens)) \in Seq(Nat)
      BY <1>6, PushType
    <2> QED
      BY <1>1, <1>6, <2>1 DEF Scanner
  <1>8. onward \in Scanner /\ onward.parens = scanner.parens /\ ~onward.isString
    BY <1>2, <1>7 DEF Scanner
  <1>9. matched \in Scanner /\ matched.parens = scanner.parens /\ ~matched.isString
    <2>1. Pop(onward.tern) \in Seq(Nat)
      BY <1>8, PopType DEF Scanner
    <2> QED
      BY <1>3, <1>8, <2>1 DEF Scanner
  <1>10. CASE Look = Colon /\ Stop(asked, TRUE, Len(text))
    <2>1. text' = text /\ Char(next') = Colon /\ ~InValue'
      BY <1>10 DEF Stop, EndScan, InValue, Look
    <2>2. Left(phase', text', next', clean')
      BY <2>1 DEF Left
    <2> QED
      BY <2>1, <2>2 DEF Reading
  <1> QED
    BY <1>4, <1>5, <1>8, <1>9, <1>10, OperatorReads

LEMMA WhitespaceReads == Inv /\ Reading /\ Whitespace => Reading'
  <1> SUFFICES ASSUME Inv, Reading, Whitespace PROVE Reading'
    OBVIOUS
  <1>1. text \in Seq(Nat) /\ scanner \in Scanner /\ Space \in Nat /\ Space # Eof
    BY DEF Reading, Inv, Levelled, Space, Eof
  <1>2. InValue /\ next = Space /\ ~InQuotes(scanner) /\ clean' = clean /\ symbol' = symbol
    <2>1. InValue /\ next = Space /\ clean' = clean /\ symbol' = symbol /\ ~ValidAlpha(Look, scanner)
      BY DEF Whitespace, Outside
    <2>2. Look = Space
      BY <2>1, Ascii DEF Look, Space
    <2> QED
      BY <2>1, <2>2, Characters DEF ValidAlpha, InString
  <1>3. PICK read : read = Append(text, Space)
    OBVIOUS
  <1>4. text' = read
    BY <1>3 DEF Whitespace
  <1>5. \/ ~InValue' /\ phase' = (IF AttrFound(scanner, symbol) THEN "found" ELSE "not found")
        \/ scanner' = scanner /\ phase' = phase
    BY DEF Whitespace, EndScan, InValue
  <1>6. read \in Seq(Nat) /\ read # <<>>
    BY <1>1, <1>3, LongerText
  <1>7. Excused(text) => Excused(read)
    BY <1>1, <1>3, ExcusedGrown
  <1>8. ASSUME clean, ~Excused(read)
        PROVE  /\ Agrees(scanner, read, next') /\ symbol
               /\ scanner.isString <=> ~SomePart(read)
    <2>1. Agrees(scanner, text, Space)
      BY <1>2, <1>7, <1>8 DEF Reading
    <2>2. text # <<>>
      BY <2>1 DEF Agrees
    <2>3. symbol
      BY <1>2, <1>7, <1>8, <2>2 DEF Reading
    <2>4. scanner.isString <=> Goes(scanner, Space)
      BY DEF Goes
    <2>5. Agrees(scanner, read, next')
      <3>1. Back(scanner.parens) \notin Quotes
        BY <1>1, <1>2, <2>1, SameInner DEF InQuotes, Agrees, Scanner
      <3>2. ~Disguise(Space) /\ Space \notin Opens \cup Quotes \cup Closes
        BY Characters DEF Disguise, Space
      <3> QED
        BY <1>1, <1>3, <2>1, <2>4, <3>1, <3>2, PlainAgrees
    <2> QED
      BY <1>6, <2>3, <2>5 DEF Agrees
  <1>9. CASE scanner' = scanner /\ phase' = phase
    <2>1. Left(phase', text', next', clean')
      BY <1>2, <1>9 DEF Left, InValue
    <2>2. clean' /\ ~Excused(text') => Agrees(scanner', text', next') /\ symbol'
      BY <1>2, <1>4, <1>8, <1>9
    <2> QED
      BY <1>4, <1>6, <2>1, <2>2 DEF Reading
  <1>10. CASE ~InValue' /\ phase' = (IF AttrFound(scanner, symbol) THEN "found" ELSE "not found")
    <2>1. phase' = "found" <=> symbol /\ ~scanner.isString
      BY <1>10 DEF AttrFound
    <2>2. Left(phase', text', next', clean')
      BY <1>2, <1>4, <1>8, <2>1 DEF Left
    <2> QED
      BY <1>4, <1>6, <1>10, <2>2 DEF Reading
  <1> QED
    BY <1>5, <1>9, <1>10

LEMMA ReadingKeeps == Inv /\ Reading /\ [Next]_vars => Reading'
  <1> SUFFICES ASSUME Inv, Reading, [Next]_vars PROVE Reading'
    OBVIOUS
  <1>1. CASE UNCHANGED vars
    BY <1>1 DEF vars, Reading, InValue
  <1>2. CASE GoBack
    <2>1. Forget /\ phase' # "in value"
      BY <1>2 DEF GoBack
    <2> QED
      BY <2>1, ForgetReads
  <1>3. CASE ScanLine
    <2>1. Forget /\ phase' # "in value"
      BY <1>3 DEF ScanLine, ScanIndent, ScanDedent, ScanNewline, EndScan
    <2> QED
      BY <2>1, ForgetReads
  <1>4. CASE ScanNoLine
    <2>1. Forget /\ phase' # "in value"
      BY <1>4 DEF ScanNoLine, EndScan
    <2> QED
      BY <2>1, ForgetReads
  <1>5. CASE AtEof
    <2>1. InValue /\ Stop(scanner, AttrFound(scanner, symbol), mark)
      BY <1>5 DEF AtEof
    <2> QED
      BY <2>1, StopReads
  <1>6. CASE Unexpected
    <2>1. InValue /\ Stop(scanner, AttrFound(scanner, symbol), Len(text))
      BY <1>6 DEF Unexpected, Outside
    <2> QED
      BY <2>1, StopReads
  <1> QED
    BY <1>1, <1>2, <1>3, <1>4, <1>5, <1>6, StartValueReads, EscapeReads, AlphanumericReads,
       QuoteReads, OpenBracketReads, CloseBracketReads, OperatorInParensReads,
       OperatorAtRootReads, WhitespaceReads DEF Next, ScanValue

LEMMA ReadingHolds == Spec => [](Inv /\ Reading)
  <1>1. Init => Reading
    <2> SUFFICES ASSUME Init PROVE Reading
      OBVIOUS
    <2>1. text \in Seq(Nat) /\ text = <<>> /\ ~InValue
      BY EmptySeq DEF Init, InValue
    <2> QED
      BY <2>1 DEF Reading, Left
  <1> QED
    BY <1>1, InitKeeps, NextKeeps, ReadingKeeps, PTL DEF Spec

\* ParensAreOpen: while handle_attr reads a value that it began with nothing left
\* over, the brackets and quotes it remembers are those that JavaScript has open
\* in what it has read, for any characters of Unicode (PugAssumption bounds how
\* many), unless an apostrophe or a disguised character is among them.
THEOREM BracketsAreOpen == Spec => []ParensAreOpen
  <1>1. Inv /\ Reading => ParensAreOpen
    BY ReadingGives
  <1> QED
    BY <1>1, ReadingHolds, PTL

\* StringsLeft: handle_attr finds every value that is more than a string in
\* quotes, and leaves every string to the grammar, for any characters of Unicode
\* (PugAssumption bounds how many), unless the end of the template or what passes
\* for a colon ends it, or an apostrophe or a disguised character is in it.
THEOREM StringsAreLeft == Spec => []StringsLeft
  <1>1. Inv /\ Reading => StringsLeft
    BY ReadingGives
  <1> QED
    BY <1>1, ReadingHolds, PTL
=============================================================================
