-------------------------- MODULE TermParserProofs --------------------------
(***************************************************************************)
(* Four properties of TermParser, for whatever the programs write.  A new  *)
(* line resynchronises the parser; a multi-byte character is printed only  *)
(* for the shortest encoding of a code point that exists; an item that is  *)
(* complete does what it means, whatever was written before it; and        *)
(* std::stoi throws only at a colour written without a number that is an   *)
(* int, or at pieces of two items.                                         *)
(*                                                                         *)
(* The second needs to know what the decoder has read when it is in the    *)
(* middle of a character: DecoderInv says it, state by state.  That        *)
(* current_utf8 and the bytes read agree is then a matter of the digits to *)
(* the base 64, which the lemmas on Above and Further settle.              *)
(*                                                                         *)
(* The last two are about items that are complete: text, the encoding of a *)
(* code point, bytes that are no UTF-8, or one control function from its   *)
(* introducer to its end.  Complete says what each of these is and means,  *)
(* without the parser; what the parameters of a CSI or the text of an OSC  *)
(* mean is read from the whole of it by Effects, Sgr, Clipboard and        *)
(* ColorReport, and so is whether it throws.  CompleteInv says how far the *)
(* parser is in an item after any of its bytes, and is inductive together  *)
(* with DecoderInv.                                                        *)
(***************************************************************************)
EXTENDS TermParser, SequenceTheorems, TLAPS

-----------------------------------------------------------------------------
(* Digits to the base 64                                                   *)

\* The number c has q above its digits below unit, and those are r.
Splits(c, unit, q, r) ==
  /\ q \in Nat /\ r \in Nat /\ r < unit
  /\ c = q * unit + r

\* The quotients and the rest that Encode takes.
LEMMA Above64 ==
  ASSUME NEW c, NEW q, NEW r, Splits(c, 64, q, r)
  PROVE  Above(c, 64) = q /\ Further(c) = 128 + r
<1>1. c \div 64 = q
  BY SMTT(20) DEF Splits
<1>2. c % 64 = r
  BY SMTT(20) DEF Splits
<1> QED BY <1>1, <1>2 DEF Above, Further

LEMMA Above4096 ==
  ASSUME NEW c, NEW q, NEW r, Splits(c, 4096, q, r)
  PROVE  Above(c, 4096) = q
BY SMTT(20) DEF Above, Splits

LEMMA Above262144 ==
  ASSUME NEW c, NEW q, NEW r, Splits(c, 262144, q, r)
  PROVE  Above(c, 262144) = q
BY SMTT(20) DEF Above, Splits

\* What the last byte of two, of three and of four completes.
LEMMA Encode2 ==
  ASSUME NEW c, NEW a, NEW b, 1 < a, a < 32, Splits(c, 64, a, b)
  PROVE  Encode(c) = <<192 + a, 128 + b>> /\ c < 2048
<1>1. c \in Nat /\ 127 < c /\ c < 2048
  BY DEF Splits
<1>2. Above(c, 64) = a /\ Further(c) = 128 + b
  BY Above64
<1> QED BY <1>1, <1>2 DEF Encode

LEMMA Encode3 ==
  ASSUME NEW c, NEW a, NEW m, NEW b, NEW d, a < 16, a = 0 => b >= 32,
         Splits(m, 64, a, b), Splits(c, 64, m, d)
  PROVE  Encode(c) = <<224 + a, 128 + b, 128 + d>> /\ c < 65536
<1>1. c \in Nat /\ 2047 < c /\ c < 65536
  BY DEF Splits
<1>2. Splits(c, 4096, a, b * 64 + d)
  BY DEF Splits
<1>3. Above(c, 4096) = a
  BY <1>2, Above4096
<1>4. Above(c, 64) = m /\ Further(c) = 128 + d /\ Further(m) = 128 + b
  BY Above64
<1> QED BY <1>1, <1>3, <1>4 DEF Encode

LEMMA Encode4 ==
  ASSUME NEW c, NEW a, NEW m, NEW n, NEW b, NEW d, NEW e,
         a < 5, a = 0 => b >= 16, a = 4 => b <= 15,
         Splits(m, 64, a, b), Splits(n, 64, m, d), Splits(c, 64, n, e)
  PROVE  Encode(c) = <<240 + a, 128 + b, 128 + d, 128 + e>> /\ c <= 1114111
<1>1. c \in Nat /\ 65535 < c /\ c <= 1114111
  BY DEF Splits
<1>2. Splits(c, 262144, a, b * 4096 + d * 64 + e)
  BY DEF Splits
<1>3. Splits(c, 4096, m, d * 64 + e)
  BY DEF Splits
<1>4. Above(c, 262144) = a
  BY <1>2, Above262144
<1>5. Above(c, 4096) = m
  BY <1>3, Above4096
<1>6. Above(c, 64) = n /\ Further(c) = 128 + e /\ Further(m) = 128 + b /\ Further(n) = 128 + d
  BY Above64
<1> QED BY <1>1, <1>4, <1>5, <1>6 DEF Encode

\* Append on sequences as short as those of the decoder.
LEMMA Appended ==
  ASSUME NEW s \in Seq(Nat), NEW x \in Nat, NEW t \in Seq(Nat),
         Len(t) = Len(s) + 1, \A i \in 1 .. Len(s) : t[i] = s[i], t[Len(s) + 1] = x
  PROVE  Append(s, x) = t
<1>1. Append(s, x) \in Seq(Nat) /\ Len(Append(s, x)) = Len(t)
  BY AppendProperties
<1>2. \A i \in 1 .. Len(t) : Append(s, x)[i] = t[i]
  BY AppendProperties
<1> QED BY <1>1, <1>2, SeqEqual

LEMMA Append2 ==
  ASSUME NEW x \in Nat, NEW y \in Nat
  PROVE  Append(<<x>>, y) = <<x, y>>
<1> DEFINE s == <<x>>
           t == <<x, y>>
<1>1. s \in Seq(Nat) /\ t \in Seq(Nat) /\ Len(s) = 1 /\ Len(t) = 2 /\ s[1] = x /\ t[1] = x /\ t[2] = y
  OBVIOUS
<1> HIDE DEF s, t
<1>2. \A i \in 1 .. Len(s) : t[i] = s[i]
  BY <1>1
<1>3. Len(t) = Len(s) + 1 /\ t[Len(s) + 1] = y
  BY <1>1
<1>4. Append(s, y) = t
  BY <1>1, <1>2, <1>3, Appended
<1> QED BY <1>4 DEF s, t

LEMMA Append3 ==
  ASSUME NEW x \in Nat, NEW y \in Nat, NEW z \in Nat
  PROVE  Append(<<x, y>>, z) = <<x, y, z>>
<1> DEFINE s == <<x, y>>
           t == <<x, y, z>>
<1>1. /\ s \in Seq(Nat) /\ t \in Seq(Nat) /\ Len(s) = 2 /\ Len(t) = 3
      /\ s[1] = x /\ s[2] = y /\ t[1] = x /\ t[2] = y /\ t[3] = z
  OBVIOUS
<1> HIDE DEF s, t
<1>2. \A i \in 1 .. Len(s) : t[i] = s[i]
  BY <1>1
<1>3. Len(t) = Len(s) + 1 /\ t[Len(s) + 1] = z
  BY <1>1
<1>4. Append(s, z) = t
  BY <1>1, <1>2, <1>3, Appended
<1> QED BY <1>4 DEF s, t

LEMMA Append4 ==
  ASSUME NEW x \in Nat, NEW y \in Nat, NEW z \in Nat, NEW w \in Nat
  PROVE  Append(<<x, y, z>>, w) = <<x, y, z, w>>
<1> DEFINE s == <<x, y, z>>
           t == <<x, y, z, w>>
<1>1. /\ s \in Seq(Nat) /\ t \in Seq(Nat) /\ Len(s) = 3 /\ Len(t) = 4
      /\ s[1] = x /\ s[2] = y /\ s[3] = z /\ t[1] = x /\ t[2] = y /\ t[3] = z /\ t[4] = w
  OBVIOUS
<1> HIDE DEF s, t
<1>2. \A i \in 1 .. Len(s) : t[i] = s[i]
  BY <1>1
<1>3. Len(t) = Len(s) + 1 /\ t[Len(s) + 1] = w
  BY <1>1
<1>4. Append(s, w) = t
  BY <1>1, <1>2, <1>3, Appended
<1> QED BY <1>4 DEF s, t

\* The bits that the masks leave of a byte.
LEMMA LowBits ==
  ASSUME NEW byte \in Nat
  PROVE  /\ byte \in 128 .. 191 => byte % 64 = byte - 128
         /\ byte \in 194 .. 223 => byte % 32 = byte - 192
         /\ byte \in 225 .. 239 => byte % 16 = byte - 224
         /\ byte \in 241 .. 243 => byte % 8 = byte - 240
<1>1. byte \in 128 .. 191 => byte % 64 = byte - 128
  BY SMTT(20)
<1>2. byte \in 194 .. 223 => byte % 32 = byte - 192
  BY SMTT(20)
<1>3. byte \in 225 .. 239 => byte % 16 = byte - 224
  BY SMTT(20)
<1>4. byte \in 241 .. 243 => byte % 8 = byte - 240
  BY SMTT(20)
<1> QED BY <1>1, <1>2, <1>3, <1>4
-----------------------------------------------------------------------------
(* The decoder                                                             *)

States ==
  {"state_2byte_2", "state_3byte_2_e0", "state_3byte_2_non_e0", "state_3byte_3",
   "state_4byte_2_f0", "state_4byte_2_f1_f3", "state_4byte_2_f4", "state_4byte_3", "state_4byte_4"}

\* The states between two bytes of a character, and what each accepts.
LEMMA StatesOfContinuation ==
  /\ DOMAIN Continuation = States
  /\ Continuation["state_2byte_2"] = Go(128, 191, 1, "state_initial")
  /\ Continuation["state_3byte_2_e0"] = Go(160, 191, 64, "state_3byte_3")
  /\ Continuation["state_3byte_2_non_e0"] = Go(128, 191, 64, "state_3byte_3")
  /\ Continuation["state_3byte_3"] = Go(128, 191, 1, "state_initial")
  /\ Continuation["state_4byte_2_f0"] = Go(144, 191, 4096, "state_4byte_3")
  /\ Continuation["state_4byte_2_f1_f3"] = Go(128, 191, 4096, "state_4byte_3")
  /\ Continuation["state_4byte_2_f4"] = Go(128, 143, 4096, "state_4byte_3")
  /\ Continuation["state_4byte_3"] = Go(128, 191, 64, "state_4byte_4")
  /\ Continuation["state_4byte_4"] = Go(128, 191, 1, "state_initial")
BY DEF Continuation, AfterE0, States

\* The values of six bits.
Six == 0 .. 63

\* The bytes read of a character, and what they have put into current_utf8.
Holds(bytes, code) == read = bytes /\ current_utf8 = code

\* So many bytes of a character of so many; the restrictions on the second byte
\* are those of 0xe0, 0xf0 and 0xf4.
OneOfTwo == \E a \in 2 .. 31 : Holds(<<192 + a>>, a * 64)
OneOfThree == \E a \in 1 .. 15 : Holds(<<224 + a>>, a * 4096)
TwoAre(a, b) == (a = 0 => b >= 32) /\ Holds(<<224 + a, 128 + b>>, a * 4096 + b * 64)
TwoOfThree == \E a \in 0 .. 15, b \in Six : TwoAre(a, b)
OneOfFour == \E a \in 1 .. 3 : Holds(<<240 + a>>, a * 262144)
Exists(a, b) == (a = 0 => b >= 16) /\ (a = 4 => b <= 15)
HeadIs(a, b) == Exists(a, b) /\ Holds(<<240 + a, 128 + b>>, a * 262144 + b * 4096)
TwoOfFour == \E a \in 0 .. 4, b \in Six : HeadIs(a, b)
ThreeAre(a, b, d) ==
  Exists(a, b) /\ Holds(<<240 + a, 128 + b, 128 + d>>, a * 262144 + b * 4096 + d * 64)
ThreeOfFour == \E a \in 0 .. 4, b \in Six, d \in Six : ThreeAre(a, b, d)

\* What has been read in each state of the decoder.
DecoderInv ==
  /\ utf8_state \in {"state_initial"} \cup States
  /\ utf8_state = "state_2byte_2" => OneOfTwo
  /\ utf8_state = "state_3byte_2_e0" => Holds(<<224>>, 0)
  /\ utf8_state = "state_3byte_2_non_e0" => OneOfThree
  /\ utf8_state = "state_3byte_3" => TwoOfThree
  /\ utf8_state = "state_4byte_2_f0" => Holds(<<240>>, 0)
  /\ utf8_state = "state_4byte_2_f1_f3" => OneOfFour
  /\ utf8_state = "state_4byte_2_f4" => Holds(<<244>>, 4 * 262144)
  /\ utf8_state = "state_4byte_3" => TwoOfFour
  /\ utf8_state = "state_4byte_4" => ThreeOfFour

\* A control function is read between two characters only.
ModesInv == escape_state # "state_idle" => utf8_state = "state_initial"

IInv == DecoderInv /\ ModesInv /\ ShortestForm

\* A first byte puts its bits where Holds expects them.
LEMMA FirstByte ==
  ASSUME DecoderInv, NEW input, input \in Leads, ParseInitial(input)
  PROVE  DecoderInv'
<1>1. /\ input \in Nat /\ read' = <<input>>
      /\ utf8_state' = Lead(input).state /\ current_utf8' = Lead(input).bits
  BY DEF ParseInitial, Leads, Controls, CR, LF, BS, HT, ESC
<1>2. CASE input \in 194 .. 223
  <2>1. Lead(input) = [state |-> "state_2byte_2", bits |-> (input - 192) * 64]
    BY <1>1, <1>2, LowBits DEF Lead
  <2>2. input - 192 \in 2 .. 31 /\ input = 192 + (input - 192)
    BY <1>2
  <2>3. OneOfTwo'
    BY <1>1, <2>1, <2>2 DEF OneOfTwo, Holds
  <2> QED BY <1>1, <2>1, <2>3 DEF DecoderInv, States
<1>3. CASE input = 224
  BY <1>1, <1>3 DEF Lead, DecoderInv, Holds, States
<1>4. CASE input \in 225 .. 239
  <2>1. Lead(input) = [state |-> "state_3byte_2_non_e0", bits |-> (input - 224) * 4096]
    BY <1>1, <1>4, LowBits DEF Lead
  <2>2. input - 224 \in 1 .. 15 /\ input = 224 + (input - 224)
    BY <1>4
  <2>3. OneOfThree'
    BY <1>1, <2>1, <2>2 DEF OneOfThree, Holds
  <2> QED BY <1>1, <2>1, <2>3 DEF DecoderInv, States
<1>5. CASE input = 240
  BY <1>1, <1>5 DEF Lead, DecoderInv, Holds, States
<1>6. CASE input \in 241 .. 243
  <2>1. Lead(input) = [state |-> "state_4byte_2_f1_f3", bits |-> (input - 240) * 262144]
    BY <1>1, <1>6, LowBits DEF Lead
  <2>2. input - 240 \in 1 .. 3 /\ input = 240 + (input - 240)
    BY <1>6
  <2>3. OneOfFour'
    BY <1>1, <2>1, <2>2 DEF OneOfFour, Holds
  <2> QED BY <1>1, <2>1, <2>3 DEF DecoderInv, States
<1>7. CASE input = 244
  BY <1>1, <1>7 DEF Lead, DecoderInv, Holds, States
<1> QED BY <1>2, <1>3, <1>4, <1>5, <1>6, <1>7 DEF Leads

\* A continuation byte is 128 and six bits; each state restricts them.
LEMMA SixBits ==
  ASSUME NEW input, input \in 128 .. 191
  PROVE  \E b \in Six : input = 128 + b /\ input % 64 = b
BY LowBits DEF Six

\* The bytes a state accepts, and what comes next.
LEMMA Goes ==
  ASSUME utf8_state \in States
  PROVE  /\ Continuation[utf8_state].bytes \subseteq 128 .. 191
         /\ Continuation[utf8_state].next \in {"state_initial", "state_3byte_3", "state_4byte_3", "state_4byte_4"}
BY StatesOfContinuation DEF Go, States

\* A further byte that does not complete the character.
LEMMA FurtherByte ==
  ASSUME DecoderInv, NEW input, ParseContinuation(input),
         input \in Continuation[utf8_state].bytes,
         Continuation[utf8_state].next # "state_initial"
  PROVE  DecoderInv'
<1>1. utf8_state \in States
  BY DEF DecoderInv, ParseContinuation
<1>2. PICK b \in Six : input = 128 + b /\ input % 64 = b
  BY <1>1, Goes, SixBits
<1>3. /\ read' = Append(read, 128 + b)
      /\ utf8_state' = Continuation[utf8_state].next
      /\ current_utf8' = current_utf8 + b * Continuation[utf8_state].unit
  BY <1>2 DEF ParseContinuation
<1>4. CASE utf8_state = "state_3byte_2_e0"
  <2>0. Continuation[utf8_state] = Go(160, 191, 64, "state_3byte_3")
    BY <1>4, StatesOfContinuation
  <2>1. b >= 32 /\ utf8_state' = "state_3byte_3" /\ current_utf8' = current_utf8 + b * 64
    BY <1>2, <1>3, <2>0 DEF Go, Six
  <2>2. Holds(<<224>>, 0)
    BY <1>4 DEF DecoderInv
  <2>3. read' = <<224 + 0, 128 + b>>
    BY <1>3, <2>2, Append2 DEF Holds, Six
  <2>4. current_utf8' = 0 * 4096 + b * 64
    BY <2>1, <2>2 DEF Holds, Six
  <2>5. TwoOfThree'
    BY <2>1, <2>3, <2>4 DEF TwoOfThree, TwoAre, Holds
  <2> QED BY <2>1, <2>5 DEF DecoderInv, States
<1>5. CASE utf8_state = "state_3byte_2_non_e0"
  <2>0. Continuation[utf8_state] = Go(128, 191, 64, "state_3byte_3")
    BY <1>5, StatesOfContinuation
  <2>1. utf8_state' = "state_3byte_3" /\ current_utf8' = current_utf8 + b * 64
    BY <1>3, <2>0 DEF Go, Six
  <2>2. PICK a \in 1 .. 15 : Holds(<<224 + a>>, a * 4096)
    BY <1>5 DEF DecoderInv, OneOfThree
  <2>3. read' = <<224 + a, 128 + b>>
    BY <1>3, <2>2, Append2 DEF Holds, Six
  <2>4. current_utf8' = a * 4096 + b * 64
    BY <2>1, <2>2 DEF Holds, Six
  <2>5. TwoOfThree'
    BY <2>1, <2>3, <2>4 DEF TwoOfThree, TwoAre, Holds
  <2> QED BY <2>1, <2>5 DEF DecoderInv, States
<1>6. CASE utf8_state = "state_4byte_2_f0"
  <2>0. Continuation[utf8_state] = Go(144, 191, 4096, "state_4byte_3")
    BY <1>6, StatesOfContinuation
  <2>1. b >= 16 /\ utf8_state' = "state_4byte_3" /\ current_utf8' = current_utf8 + b * 4096
    BY <1>2, <1>3, <2>0 DEF Go, Six
  <2>2. Holds(<<240>>, 0)
    BY <1>6 DEF DecoderInv
  <2>3. read' = <<240 + 0, 128 + b>>
    BY <1>3, <2>2, Append2 DEF Holds, Six
  <2>4. current_utf8' = 0 * 262144 + b * 4096
    BY <2>1, <2>2 DEF Holds, Six
  <2>5. TwoOfFour'
    BY <2>1, <2>3, <2>4 DEF TwoOfFour, HeadIs, Exists, Holds
  <2> QED BY <2>1, <2>5 DEF DecoderInv, States
<1>7. CASE utf8_state = "state_4byte_2_f1_f3"
  <2>0. Continuation[utf8_state] = Go(128, 191, 4096, "state_4byte_3")
    BY <1>7, StatesOfContinuation
  <2>1. utf8_state' = "state_4byte_3" /\ current_utf8' = current_utf8 + b * 4096
    BY <1>3, <2>0 DEF Go, Six
  <2>2. PICK a \in 1 .. 3 : Holds(<<240 + a>>, a * 262144)
    BY <1>7 DEF DecoderInv, OneOfFour
  <2>3. read' = <<240 + a, 128 + b>>
    BY <1>3, <2>2, Append2 DEF Holds, Six
  <2>4. current_utf8' = a * 262144 + b * 4096
    BY <2>1, <2>2 DEF Holds, Six
  <2>5. TwoOfFour'
    BY <2>1, <2>3, <2>4 DEF TwoOfFour, HeadIs, Exists, Holds
  <2> QED BY <2>1, <2>5 DEF DecoderInv, States
<1>8. CASE utf8_state = "state_4byte_2_f4"
  <2>0. Continuation[utf8_state] = Go(128, 143, 4096, "state_4byte_3")
    BY <1>8, StatesOfContinuation
  <2>1. b <= 15 /\ utf8_state' = "state_4byte_3" /\ current_utf8' = current_utf8 + b * 4096
    BY <1>2, <1>3, <2>0 DEF Go, Six
  <2>2. Holds(<<244>>, 4 * 262144)
    BY <1>8 DEF DecoderInv
  <2>3. read' = <<240 + 4, 128 + b>>
    BY <1>3, <2>2, Append2 DEF Holds, Six
  <2>4. current_utf8' = 4 * 262144 + b * 4096
    BY <2>1, <2>2 DEF Holds, Six
  <2>5. TwoOfFour'
    BY <2>1, <2>3, <2>4 DEF TwoOfFour, HeadIs, Exists, Holds
  <2> QED BY <2>1, <2>5 DEF DecoderInv, States
<1>9. CASE utf8_state = "state_4byte_3"
  <2>0. Continuation[utf8_state] = Go(128, 191, 64, "state_4byte_4")
    BY <1>9, StatesOfContinuation
  <2>1. utf8_state' = "state_4byte_4" /\ current_utf8' = current_utf8 + b * 64
    BY <1>3, <2>0 DEF Go, Six
  <2>2. PICK a \in 0 .. 4, h \in Six : HeadIs(a, h)
    BY <1>9 DEF DecoderInv, TwoOfFour
  <2>3. read' = <<240 + a, 128 + h, 128 + b>>
    BY <1>3, <2>2, Append3 DEF HeadIs, Holds, Six
  <2>4. current_utf8' = a * 262144 + h * 4096 + b * 64
    BY <2>1, <2>2 DEF HeadIs, Holds, Six
  <2>5. ThreeOfFour'
    BY <2>1, <2>2, <2>3, <2>4 DEF ThreeOfFour, ThreeAre, HeadIs, Holds
  <2> QED BY <2>1, <2>5 DEF DecoderInv, States
<1>10. utf8_state \notin {"state_2byte_2", "state_3byte_3", "state_4byte_4"}
  BY StatesOfContinuation DEF Go, States
<1> QED BY <1>1, <1>4, <1>5, <1>6, <1>7, <1>8, <1>9, <1>10 DEF States

\* The last byte of a character: what is printed is its code point.
LEMMA LastByte ==
  ASSUME DecoderInv, NEW input, ParseContinuation(input),
         input \in Continuation[utf8_state].bytes,
         Continuation[utf8_state].next = "state_initial"
  PROVE  ShortestForm'
<1>1. utf8_state \in States
  BY DEF DecoderInv, ParseContinuation
<1>2. PICK e \in Six : input = 128 + e /\ input % 64 = e
  BY <1>1, Goes, SixBits
<1>3. utf8_state \in {"state_2byte_2", "state_3byte_3", "state_4byte_4"}
  BY <1>1, StatesOfContinuation DEF Go, States
<1>4. Continuation[utf8_state].unit = 1
  BY <1>3, StatesOfContinuation DEF Go, States
<1> DEFINE code == current_utf8 + e * 1
<1>5. printed'.code = code /\ printed'.bytes = Append(read, 128 + e)
  BY <1>2, <1>4 DEF ParseContinuation
<1>6. CASE utf8_state = "state_2byte_2"
  <2>0. OneOfTwo
    BY <1>6 DEF DecoderInv
  <2>1. PICK a \in 2 .. 31 : Holds(<<192 + a>>, a * 64)
    BY <2>0 DEF OneOfTwo
  <2>2. code = a * 64 + e
    BY <2>1 DEF Holds, Six
  <2>3. Append(read, 128 + e) = <<192 + a, 128 + e>>
    BY <2>1, Append2 DEF Holds, Six
  <2> HIDE DEF code
  <2>4. Splits(code, 64, a, e) /\ 1 < a /\ a < 32 /\ code <= 1114111
    BY <2>2 DEF Splits, Six
  <2>5. Encode(code) = <<192 + a, 128 + e>>
    BY <2>4, Encode2
  <2> QED BY <1>5, <2>3, <2>4, <2>5 DEF ShortestForm
<1>7. CASE utf8_state = "state_3byte_3"
  <2>0. TwoOfThree
    BY <1>7 DEF DecoderInv
  <2>1. PICK a \in 0 .. 15, b \in Six : TwoAre(a, b)
    BY <2>0 DEF TwoOfThree
  <2>2. code = a * 4096 + b * 64 + e
    BY <2>1 DEF TwoAre, Holds, Six
  <2>3. Append(read, 128 + e) = <<224 + a, 128 + b, 128 + e>>
    BY <2>1, Append3 DEF TwoAre, Holds, Six
  <2> HIDE DEF code
  <2> DEFINE m == a * 64 + b
  <2>4. Splits(m, 64, a, b) /\ Splits(code, 64, m, e) /\ code <= 1114111
    BY <2>2 DEF Splits, Six
  <2>5. a < 16 /\ (a = 0 => b >= 32)
    BY <2>1 DEF TwoAre
  <2> HIDE DEF m
  <2>6. Encode(code) = <<224 + a, 128 + b, 128 + e>>
    BY <2>4, <2>5, Encode3
  <2> QED BY <1>5, <2>3, <2>4, <2>6 DEF ShortestForm
<1>8. CASE utf8_state = "state_4byte_4"
  <2>0. ThreeOfFour
    BY <1>8 DEF DecoderInv
  <2>1. PICK a \in 0 .. 4, b \in Six, d \in Six : ThreeAre(a, b, d)
    BY <2>0 DEF ThreeOfFour
  <2>2. code = a * 262144 + b * 4096 + d * 64 + e
    BY <2>1 DEF ThreeAre, Holds, Six
  <2>3. Append(read, 128 + e) = <<240 + a, 128 + b, 128 + d, 128 + e>>
    BY <2>1, Append4 DEF ThreeAre, Holds, Six
  <2> HIDE DEF code
  <2> DEFINE m == a * 64 + b
             n == m * 64 + d
  <2>4. Splits(m, 64, a, b) /\ Splits(n, 64, m, d) /\ Splits(code, 64, n, e)
    BY <2>2 DEF Splits, Six
  <2>5. a < 5 /\ (a = 0 => b >= 16) /\ (a = 4 => b <= 15)
    BY <2>1 DEF ThreeAre, Exists
  <2> HIDE DEF m, n
  <2>6. Encode(code) = <<240 + a, 128 + b, 128 + d, 128 + e>> /\ code <= 1114111
    BY <2>4, <2>5, Encode4
  <2> QED BY <1>5, <2>3, <2>6 DEF ShortestForm
<1> QED BY <1>3, <1>6, <1>7, <1>8
-----------------------------------------------------------------------------
(* The invariant                                                           *)

\* Nothing is said of a decoder at rest.
LEMMA AtRest ==
  ASSUME utf8_state' = "state_initial"
  PROVE  DecoderInv'
BY DEF DecoderInv, States

\* Steps that do not touch the decoder.
LEMMA DecoderStays ==
  ASSUME DecoderInv, utf8_state' = utf8_state, current_utf8' = current_utf8, read' = read
  PROVE  DecoderInv'
<1>1. \A bytes, code : Holds(bytes, code) => Holds(bytes, code)'
  BY DEF Holds
<1>2. /\ OneOfTwo => OneOfTwo'
      /\ OneOfThree => OneOfThree'
      /\ OneOfFour => OneOfFour'
  BY DEF OneOfTwo, OneOfThree, OneOfFour, Holds
<1>3. /\ \A a, b : TwoAre(a, b) => TwoAre(a, b)'
      /\ \A a, b : HeadIs(a, b) => HeadIs(a, b)'
      /\ \A a, b, d : ThreeAre(a, b, d) => ThreeAre(a, b, d)'
  BY DEF TwoAre, HeadIs, ThreeAre, Holds
<1>4. /\ TwoOfThree => TwoOfThree'
      /\ TwoOfFour => TwoOfFour'
      /\ ThreeOfFour => ThreeOfFour'
  BY <1>3 DEF TwoOfThree, TwoOfFour, ThreeOfFour
<1> QED BY <1>1, <1>2, <1>4 DEF DecoderInv

\* At the start nothing is begun.
LEMMA InitIInv == Init => IInv
<1> SUFFICES ASSUME Init PROVE IInv
  OBVIOUS
<1>1. DecoderInv /\ ModesInv
  BY DEF Init, DecoderInv, ModesInv, States
<1>2. ShortestForm
  BY DEF Init, ShortestForm, Nothing, Encode
<1> QED BY <1>1, <1>2 DEF IInv

\* A byte of a control function leaves the decoder alone.
LEMMA ControlByte ==
  ASSUME IInv, NEW input,
         ParseEsc(input) \/ HandleCSI(input) \/ ParseOsc(input) \/ ParseDcs(input)
  PROVE  IInv'
<1>1. escape_state # "state_idle" /\ UNCHANGED decoder
  BY DEF ParseEsc, HandleCSI, ParseOsc, ParseDcs
<1>2. utf8_state' = "state_initial" /\ ModesInv'
  BY <1>1 DEF IInv, ModesInv, decoder
<1>3. DecoderInv'
  BY <1>2, AtRest
<1>4. ShortestForm'
  BY <1>1 DEF IInv, ShortestForm, decoder
<1> QED BY <1>2, <1>3, <1>4 DEF IInv

\* A byte between two characters.
LEMMA InitialByte ==
  ASSUME IInv, NEW input, ParseInitial(input)
  PROVE  IInv'
<1>1. printed' = printed /\ utf8_state = "state_initial" /\ escape_state = "state_idle"
  BY DEF ParseInitial, decoder
<1>2. ShortestForm'
  BY <1>1 DEF IInv, ShortestForm
<1>3. CASE input \in Leads
  <2>1. DecoderInv'
    BY <1>3, FirstByte DEF IInv
  <2>2. escape_state' = escape_state
    BY <1>3 DEF ParseInitial, Leads, Controls, CR, LF, BS, HT, ESC
  <2> QED BY <1>1, <1>2, <2>1, <2>2 DEF IInv, ModesInv
<1>4. CASE input \notin Leads
  <2>1. utf8_state' = "state_initial"
    BY <1>1, <1>4 DEF ParseInitial, decoder, parser
  <2> QED BY <1>2, <2>1, AtRest DEF IInv, ModesInv
<1> QED BY <1>3, <1>4

\* A byte in the middle of a character.
LEMMA ContinuationByte ==
  ASSUME IInv, NEW input, ParseContinuation(input)
  PROVE  IInv'
<1> DEFINE go == Continuation[utf8_state]
<1>1. escape_state' = "state_idle"
  BY DEF ParseContinuation
<1>2. ModesInv'
  BY <1>1 DEF ModesInv
<1>3. CASE input \in go.bytes /\ go.next # "state_initial"
  <2>1. DecoderInv'
    BY <1>3, FurtherByte DEF IInv
  <2>2. printed' = printed
    BY <1>3 DEF ParseContinuation
  <2> QED BY <1>2, <2>1, <2>2 DEF IInv, ShortestForm
<1>4. CASE input \in go.bytes /\ go.next = "state_initial"
  <2>1. ShortestForm'
    BY <1>4, LastByte DEF IInv
  <2>2. utf8_state' = "state_initial"
    BY <1>4 DEF ParseContinuation
  <2> QED BY <1>2, <2>1, <2>2, AtRest DEF IInv
<1>5. CASE input \notin go.bytes
  <2>1. utf8_state' = "state_initial" /\ printed' = printed
    BY <1>5 DEF ParseContinuation
  <2> QED BY <1>2, <2>1, AtRest DEF IInv, ShortestForm
<1> QED BY <1>3, <1>4, <1>5

\* The steps together.
LEMMA NextIInv == IInv /\ [Next]_vars => IInv'
<1> SUFFICES ASSUME IInv, [Next]_vars PROVE IInv'
  OBVIOUS
<1>1. CASE Write
  <2>1. utf8_state' = utf8_state /\ current_utf8' = current_utf8 /\ read' = read
        /\ escape_state' = escape_state /\ printed' = Nothing
    BY <1>1 DEF Write, parser
  <2>2. DecoderInv' /\ ModesInv'
    BY <2>1, DecoderStays DEF IInv, ModesInv
  <2>3. ShortestForm'
    BY <2>1 DEF ShortestForm, Nothing, Encode
  <2> QED BY <2>2, <2>3 DEF IInv
<1>2. CASE ParseNext
  <2>1. PICK input : Parse(input)
    BY <1>2 DEF ParseNext
  <2> QED BY <2>1, ControlByte, InitialByte, ContinuationByte DEF Parse
<1>3. CASE ProgramExit \/ UNCHANGED vars
  <2>1. utf8_state' = utf8_state /\ current_utf8' = current_utf8 /\ read' = read
        /\ escape_state' = escape_state /\ printed' = printed
    BY <1>3 DEF ProgramExit, vars, parser
  <2>2. DecoderInv' /\ ModesInv'
    BY <2>1, DecoderStays DEF IInv, ModesInv
  <2> QED BY <2>1, <2>2 DEF IInv, ShortestForm
<1> QED BY <1>1, <1>2, <1>3 DEF Next

\* A multi-byte character is printed only for the encoding of its code point,
\* which exists: the code point that terminal_context::Parse has put together
\* from the bytes, whatever was cut off in the middle of what.
THEOREM OnlyShortestForms == Spec => []ShortestForm
<1>1. IInv => ShortestForm
  BY DEF IInv
<1> QED BY InitIInv, NextIInv, <1>1, PTL DEF Spec

\* Whatever state the parser was left in, a new line brings it back to rest.
LEMMA LineFeed ==
  IInv /\ [Next]_vars =>
    [ParseNext /\ item.bytes[pos + 1] = LF =>
       escape_state' = "state_idle" /\ utf8_state' = "state_initial"]_vars
<1> SUFFICES ASSUME IInv, ParseNext, item.bytes[pos + 1] = LF
             PROVE  escape_state' = "state_idle" /\ utf8_state' = "state_initial"
  OBVIOUS
<1>1. Parse(LF)
  BY DEF ParseNext
<1>2. CASE ParseEsc(LF)
  BY <1>2 DEF ParseEsc, IInv, ModesInv, decoder, Back, Introducers, ScreenEscapes, Hash, LF
<1>3. CASE HandleCSI(LF)
  BY <1>3 DEF HandleCSI, IInv, ModesInv, decoder, Back, LF
<1>4. CASE ParseOsc(LF)
  BY <1>4 DEF ParseOsc, IInv, ModesInv, decoder, Back, LF, BEL, ESC, Backslash, Printable
<1>5. CASE ParseDcs(LF)
  BY <1>5 DEF ParseDcs, IInv, ModesInv, decoder, Back, LF, ESC, Printable
<1>6. CASE ParseInitial(LF)
  BY <1>6 DEF ParseInitial, Leads, LF, ESC, parser
<1>7. CASE ParseContinuation(LF)
  <2>1. utf8_state \in States
    BY <1>7 DEF ParseContinuation, IInv, DecoderInv
  <2>2. LF \notin Continuation[utf8_state].bytes
    BY <2>1, Goes DEF LF
  <2> QED BY <1>7, <2>2 DEF ParseContinuation
<1> QED BY <1>1, <1>2, <1>3, <1>4, <1>5, <1>6, <1>7 DEF Parse

\* A new line ends any control function and any character that was left
\* unfinished, also by a program that has exited: the parser is at rest after it.
THEOREM NewLineEndsAll == Spec => NewLineResyncs
BY InitIInv, NextIInv, LineFeed, PTL DEF Spec, NewLineResyncs
-----------------------------------------------------------------------------
(* What programs write                                                     *)

Octet == 0 .. 255
IsSequence(s) == Len(s) \in Nat /\ s = [k \in 1 .. Len(s) |-> s[k]]

\* Bytes n to m of item i are in set.
BytesIn(i, n, m, set) == \A k \in n .. m : i.bytes[k] \in set

\* An item that is not about the style.
NoStyle(i) == i.style = <<>> /\ ~i.throws

\* ASCII and the control characters, each for itself.
Shown(b) == IF b \in Controls THEN <<"control", b>> ELSE <<"print", b>>
Plain == 32 .. 127 \cup Controls
IsText(i) ==
  /\ BytesIn(i, 1, Len(i.bytes), Plain)
  /\ i.does = [k \in 1 .. Len(i.bytes) |-> Shown(i.bytes[k])] /\ NoStyle(i)

\* The encoding of a code point.
CodePoints == {c \in Nat : 127 < c /\ c <= 1114111}
IsCharacter(i) ==
  \E c \in CodePoints :
    i.bytes = Encode(c) /\ i.does = <<<<"print", c>>>> /\ NoStyle(i)

\* Not UTF-8: bytes no character begins with, or a first byte and one that does
\* not go on.
Stray == Octet \ (Plain \cup Leads \cup {ESC})
IsMalformed(i) ==
  /\ \/ BytesIn(i, 1, Len(i.bytes), Stray)
     \/ /\ Len(i.bytes) > 1 /\ i.bytes[1] \in Leads
        /\ i.bytes[2] \notin Continuation[Lead(i.bytes[1]).state].bytes
        /\ BytesIn(i, 3, Len(i.bytes), Stray)
  /\ i.does = <<>> /\ NoStyle(i)

\* ESC and a byte, or ESC with # or a bracket and a byte.
Intermediates == {Hash, 40, 41}
IsEscape(i) ==
  /\ Len(i.bytes) = 2 /\ i.bytes[1] = ESC /\ i.bytes[2] \notin Introducers \cup Intermediates
  /\ i.does = IF i.bytes[2] \in ScreenEscapes \cup {55, 56} THEN <<<<"esc", i.bytes[2]>>>> ELSE <<>>
  /\ i.style = IF i.bytes[2] = 55 THEN <<<<"save">>>>
               ELSE IF i.bytes[2] = 56 THEN <<<<"restore">>>> ELSE <<>>
  /\ ~i.throws
IsPrefixed(i) ==
  /\ Len(i.bytes) = 3 /\ i.bytes[1] = ESC /\ i.bytes[2] \in Intermediates /\ i.bytes[3] \notin Intermediates
  /\ i.does = IF i.bytes[2] = Hash /\ i.bytes[3] = 56 THEN <<<<"decaln">>>> ELSE <<>>
  /\ NoStyle(i)

\* What stands between the introducer and the last byte.
Content(i) == SubSeq(i.bytes, 3, Len(i.bytes) - 1)
Introduces(i, byte) == Len(i.bytes) > 2 /\ i.bytes[1] = ESC /\ i.bytes[2] = byte

\* CSI with parameters and a final byte.  CSI ? 25 l is left out: terminal.cpp:672
\* says it hides the cursor.
Ending(i) == i.bytes[Len(i.bytes)]
SetsStyle(i) == Ending(i) = Letter_m /\ ~ModifyKeys(Content(i))
IsCsi(i) ==
  /\ Introduces(i, 91)
  /\ BytesIn(i, 3, Len(i.bytes) - 1, 32 .. 63) /\ Ending(i) \in 64 .. 126
  /\ i.does = Effects(Content(i), Ending(i))
  /\ Ending(i) = Letter_l => \A k \in DOMAIN i.does : i.does[k][1] # "show_cursor"
  /\ IF SetsStyle(i)
     THEN \A now, saved :
            LET result == Sgr(now, Numbers(Content(i)))
            IN /\ result.throws <=> i.throws
               /\ ~i.throws => FoldLeft(Ask, [now |-> now, saved |-> saved], i.style)
                                 = [now |-> result.style, saved |-> saved]
     ELSE NoStyle(i)

\* OSC up to BEL or ST, and DCS up to ST.  OSC 11 ; ? ST is left out:
\* terminal.cpp:999 says it is answered by OSC 11.
Closed(i) ==
  /\ Len(i.bytes) > 3 /\ i.bytes[Len(i.bytes) - 1] = ESC /\ Ending(i) = Backslash
  /\ BytesIn(i, 3, Len(i.bytes) - 2, Printable)
IsOsc(i) ==
  /\ Introduces(i, 93) /\ NoStyle(i)
  /\ \/ /\ BytesIn(i, 3, Len(i.bytes) - 1, Printable) /\ Ending(i) = BEL
        /\ i.does = Clipboard(Content(i))
     \/ /\ Closed(i)
        /\ i.does = ColorReport(Content(i)) /\ i.does # <<<<"reply", 10, "white">>>>
IsDcs(i) == Introduces(i, 80) /\ Closed(i) /\ i.does = <<>> /\ NoStyle(i)

IsControl(i) == IsEscape(i) \/ IsPrefixed(i) \/ IsCsi(i) \/ IsOsc(i) \/ IsDcs(i)

\* An item that is complete: taken alone, it means what its writer says.
Complete(i) ==
  /\ IsSequence(i.bytes) /\ BytesIn(i, 1, Len(i.bytes), Octet)
  /\ IsSequence(i.does)
  /\ IsText(i) \/ IsCharacter(i) \/ IsMalformed(i) \/ IsControl(i)

ItemsAreComplete == \A i \in Items : Complete(i)
-----------------------------------------------------------------------------
(* How far the parser is in an item                                        *)

Styles == [now |-> current_style, saved |-> save_style]
Rest == escape_state = "state_idle" /\ utf8_state = "state_initial"

InText == IsText(item) /\ Rest /\ did = [k \in 1 .. pos |-> Shown(item.bytes[k])]

InMalformed ==
  /\ IsMalformed(item) /\ did = <<>> /\ escape_state = "state_idle"
  /\ utf8_state = IF pos = 1 /\ item.bytes[1] \in Leads
                  THEN Lead(item.bytes[1]).state ELSE "state_initial"

InControl ==
  /\ IsControl(item) /\ did = <<>> /\ utf8_state = "state_initial"
  /\ CASE pos = 0 -> escape_state = "state_idle"
       [] pos = 1 -> escape_state = "state_esc" /\ escape_buffer = <<>>
       [] pos > 1 /\ IsPrefixed(item) ->
            escape_state = "state_esc" /\ escape_buffer = <<item.bytes[2]>>
       [] OTHER -> /\ escape_state = Introduced(item.bytes[2])
                   /\ escape_buffer = SubSeq(item.bytes, 3, pos)

\* The characters of two, three and four bytes by their digits.
Printing(bytes, code) ==
  /\ item.bytes = bytes /\ item.does = <<<<"print", code>>>> /\ NoStyle(item)
  /\ did = <<>> /\ escape_state = "state_idle"
At(n, state, code) == pos = n => utf8_state = state /\ current_utf8 = code
Begun == pos = 0 => utf8_state = "state_initial"

Two(a, b) ==
  /\ Printing(<<192 + a, 128 + b>>, a * 64 + b) /\ Begun
  /\ At(1, "state_2byte_2", a * 64)
InTwo == \E a \in 2 .. 31, b \in Six : Two(a, b)

Three(a, b, d) ==
  /\ a = 0 => b >= 32
  /\ Printing(<<224 + a, 128 + b, 128 + d>>, a * 4096 + b * 64 + d) /\ Begun
  /\ At(1, IF a = 0 THEN "state_3byte_2_e0" ELSE "state_3byte_2_non_e0", a * 4096)
  /\ At(2, "state_3byte_3", a * 4096 + b * 64)
InThree == \E a \in 0 .. 15, b \in Six, d \in Six : Three(a, b, d)

Four(a, b, d, e) ==
  /\ Exists(a, b)
  /\ Printing(<<240 + a, 128 + b, 128 + d, 128 + e>>, a * 262144 + b * 4096 + d * 64 + e) /\ Begun
  /\ At(1, CASE a = 0 -> "state_4byte_2_f0" [] a = 4 -> "state_4byte_2_f4"
             [] OTHER -> "state_4byte_2_f1_f3", a * 262144)
  /\ At(2, "state_4byte_3", a * 262144 + b * 4096)
  /\ At(3, "state_4byte_4", a * 262144 + b * 4096 + d * 64)
InFour == \E a \in 0 .. 4, b \in Six, d \in Six, e \in Six : Four(a, b, d, e)

InItem == InText \/ InMalformed \/ InControl \/ InTwo \/ InThree \/ InFour

\* In an item the style is still the one before it, which the item changes to
\* the one wanted; after it the item has done what it means.
Going == InItem /\ wanted = FoldLeft(Ask, Styles, item.style)
Done == did = item.does /\ ~item.throws /\ Rest /\ wanted = Styles

CompleteInv ==
  /\ item \in Items \cup {Silence} /\ pos \in 0 .. Len(item.bytes) /\ lost \in Nat
  /\ fault = "throw" => item.throws \/ lost > 0
  /\ fault = "none" /\ lost = 0 => IF Between THEN Done ELSE Going
  /\ fault = "none" /\ Resync /\ Between => Rest
-----------------------------------------------------------------------------
(* Sequences and folds                                                     *)

\* What IsSequence says, for the theorems about sequences.
LEMMA SequenceIsOne ==
  ASSUME NEW s, IsSequence(s)
  PROVE  s \in Seq({s[k] : k \in 1 .. Len(s)}) /\ Len(s) \in Nat /\ DOMAIN s = 1 .. Len(s)
<1> DEFINE S == {s[k] : k \in 1 .. Len(s)}
           n == Len(s)
<1>1. n \in Nat /\ s = [k \in 1 .. n |-> s[k]]
  BY DEF IsSequence
<1>2. \A k \in 1 .. n : s[k] \in S
  OBVIOUS
<1> HIDE DEF S, n
<1>3. s \in [1 .. n -> S]
  BY <1>1, <1>2, Zenon
<1>4. s \in Seq(S)
  BY <1>1, <1>3, SeqDef, Zenon
<1>5. DOMAIN s = 1 .. n
  BY <1>1, Zenon
<1> QED BY <1>1, <1>4, <1>5 DEF S, n

\* The first effects after none.
LEMMA FromNothing ==
  ASSUME NEW e, IsSequence(e)
  PROVE  <<>> \o e = e
BY SequenceIsOne, ConcatEmptySeq

\* One more byte of an item.
LEMMA OneMore ==
  ASSUME NEW s, NEW m \in Nat, NEW n \in Nat, m <= n + 1
  PROVE  Append(SubSeq(s, m, n), s[n + 1]) = SubSeq(s, m, n + 1)
OBVIOUS

\* The function FoldLeft builds, when it exists.
Folded(s, seq, g) ==
  g = [t \in SUBSET (DOMAIN seq) |->
         IF t = {} THEN s ELSE Ask(g[t \ {Max(t)}], seq[Max(t)])]

LEMMA FoldIs ==
  ASSUME NEW s, NEW seq
  PROVE FoldLeft(Ask, s, seq) = (CHOOSE g : Folded(s, seq, g))[DOMAIN seq]
BY Zenon DEF FoldLeft, MapThenFoldSet, Folded

LEMMA FoldNone ==
  ASSUME NEW s PROVE FoldLeft(Ask, s, <<>>) = s
<1> DEFINE h == [t \in SUBSET (DOMAIN <<>>) |-> s]
<1>0. DOMAIN <<>> = {}
  OBVIOUS
<1>1. Folded(s, <<>>, h)
  BY <1>0 DEF Folded
<1>2. Folded(s, <<>>, CHOOSE g : Folded(s, <<>>, g))
  BY <1>1
<1>3. (CHOOSE g : Folded(s, <<>>, g))[{}] = s
  BY <1>2, <1>0 DEF Folded
<1> QED BY <1>0, <1>3, FoldIs

LEMMA FoldOne ==
  ASSUME NEW s, NEW a PROVE FoldLeft(Ask, s, <<a>>) = Ask(s, a)
<1>0. DOMAIN <<a>> = {1}
  OBVIOUS
<1>5. Max({1}) = 1
  BY DEF Max
<1>6. {1} \ {1} = {} /\ SUBSET {1} = {{}, {1}} /\ {1} # {}
  OBVIOUS
<1> DEFINE h == [t \in SUBSET {1} |-> IF t = {} THEN s ELSE Ask(s, a)]
<1>1. Folded(s, <<a>>, h)
  <2>1. h = [t \in SUBSET {1} |->
         IF t = {} THEN s ELSE Ask(h[t \ {Max(t)}], <<a>>[Max(t)])]
     <3>1. h[{}] = s
       OBVIOUS
     <3>2. <<a>>[1] = a
       OBVIOUS
     <3> HIDE DEF h
     <3>3. ASSUME NEW t \in SUBSET {1}
           PROVE (IF t = {} THEN s ELSE Ask(s, a)) =  (IF t = {} THEN s ELSE Ask(h[t \ {Max(t)}], <<a>>[Max(t)]))
       <4>1. CASE t = {1}
         BY <4>1, <1>5, <1>6, <3>1, <3>2, Zenon
       <4>2. CASE t = {}
         BY <4>2
       <4> QED BY <4>1, <4>2, <1>6
     <3> QED BY <3>3, Zenon DEF h
  <2> QED BY <1>0, <2>1, Zenon DEF Folded
<1>2. Folded(s, <<a>>, CHOOSE g : Folded(s, <<a>>, g))
  BY <1>1
<1> DEFINE g == CHOOSE g : Folded(s, <<a>>, g)
<1> HIDE DEF g
<1>3. g = [t \in SUBSET {1} |->
         IF t = {} THEN s ELSE Ask(g[t \ {Max(t)}], <<a>>[Max(t)])]
  BY <1>2, <1>0, Zenon DEF Folded, g
<1>4. g[{}] = s
  BY <1>3, Zenon
<1>7. g[{1}] = Ask(g[{1} \ {Max({1})}], <<a>>[Max({1})])
  <2>1. {1} \in SUBSET {1}
    OBVIOUS
  <2>2. \A t \in SUBSET {1} : g[t] = IF t = {} THEN s ELSE Ask(g[t \ {Max(t)}], <<a>>[Max(t)])
    BY <1>3, Zenon
  <2>3. g[{1}] = IF {1} = {} THEN s ELSE Ask(g[{1} \ {Max({1})}], <<a>>[Max({1})])
    BY <2>1, <2>2, Zenon
  <2> QED BY <1>6, <2>3, Zenon
<1>8. <<a>>[1] = a
  OBVIOUS
<1>9. g[{1}] = Ask(s, a)
  BY <1>4, <1>5, <1>6, <1>7, <1>8, Zenon
<1> QED BY <1>0, <1>9, FoldIs, Zenon DEF g
-----------------------------------------------------------------------------
(* One more byte of an item                                                *)

\* The next byte of a complete item is parsed, with nothing lost before it.
Stepping ==
  /\ ParseNext /\ lost = 0 /\ fault = "none"
  /\ Complete(item) /\ pos \in 0 .. Len(item.bytes)
  /\ wanted = FoldLeft(Ask, Styles, item.style)

\* It ends the application only if the item is one that throws.
Outcome ==
  \/ fault' = "none" /\ IF Between' THEN Done' ELSE Going'
  \/ fault' = "throw" /\ item.throws

LEMMA StepFacts ==
  ASSUME Stepping
  PROVE  /\ item' = item /\ lost' = 0 /\ wanted' = wanted
         /\ pos \in Nat /\ Len(item.bytes) \in Nat /\ pos < Len(item.bytes) /\ pos' = pos + 1
         /\ Parse(item.bytes[pos + 1]) /\ item.bytes[pos + 1] \in Octet
<1>1. Len(item.bytes) \in Nat
  BY DEF Stepping, Complete, IsSequence
<1>2. pos \in Nat /\ pos < Len(item.bytes)
  BY <1>1 DEF Stepping, ParseNext, Between
<1>3. item.bytes[pos + 1] \in Octet
  BY <1>1, <1>2 DEF Stepping, Complete, BytesIn
<1> QED BY <1>1, <1>2, <1>3 DEF Stepping, ParseNext

\* The first effects of an item are noted as they are.
LEMMA Noted ==
  ASSUME NEW e, IsSequence(e), Does(e), lost = 0, did = <<>>
  PROVE  did' = e
BY FromNothing DEF Does

LEMMA NothingIsSequence == IsSequence(<<>>)
BY DEF IsSequence

\* A byte in the middle of an item changes neither style nor fault.
LEMMA Onward ==
  ASSUME Stepping, pos + 1 # Len(item.bytes), UNCHANGED <<style, fault>>, InItem'
  PROVE  Outcome
<1>1. Styles' = Styles /\ fault' = "none"
  BY DEF Stepping, Styles, style
<1>2. ~Between'
  BY StepFacts DEF Between
<1>3. wanted' = FoldLeft(Ask, Styles', item'.style)
  BY <1>1, StepFacts DEF Stepping
<1> QED BY <1>1, <1>2, <1>3 DEF Outcome, Going

\* The last byte of an item that is not about the style.
LEMMA Finished ==
  ASSUME Stepping, pos + 1 = Len(item.bytes), UNCHANGED <<style, fault>>,
         NoStyle(item), did' = item.does, Rest'
  PROVE  Outcome
<1>1. Styles' = Styles /\ fault' = "none"
  BY DEF Stepping, Styles, style
<1>2. Between'
  BY StepFacts DEF Between
<1>3. wanted' = Styles'
  BY <1>1, StepFacts, FoldNone DEF Stepping, NoStyle
<1>4. Done'
  BY <1>3, StepFacts DEF Done, NoStyle
<1> QED BY <1>1, <1>2, <1>4 DEF Outcome

\* Which part of Parse a byte goes to.
LEMMA Dispatch ==
  ASSUME NEW input, Parse(input)
  PROVE  /\ Rest => ParseInitial(input)
         /\ escape_state = "state_idle" /\ utf8_state # "state_initial" => ParseContinuation(input)
         /\ escape_state = "state_esc" => ParseEsc(input)
         /\ escape_state = "state_csi" => HandleCSI(input)
         /\ escape_state = "state_osc" => ParseOsc(input)
         /\ escape_state = "state_dcs" => ParseDcs(input)
BY DEF Parse, Rest, ParseEsc, HandleCSI, ParseOsc, ParseDcs, ParseInitial, ParseContinuation

\* What each kind of first byte does.
LEMMA KindsOfBytes ==
  ASSUME NEW input \in Octet
  PROVE  /\ input \in Plain => input \notin Leads /\ input # ESC /\ (input \in 32 .. 127 <=> input \notin Controls)
         /\ input \in Leads => input \notin 32 .. 127 /\ input \notin Controls /\ input # ESC
         /\ input \in Stray => input \notin 32 .. 127 \cup Leads \cup Controls \cup {ESC}
         /\ ESC \notin 32 .. 127 /\ ESC \notin Leads /\ ESC \notin Controls
BY DEF Octet, Plain, Stray, Leads, Controls, CR, LF, BS, HT, ESC

LEMMA Initially ==
  ASSUME NEW input \in Octet, ParseInitial(input)
  PROVE  /\ UNCHANGED <<style, fault>>
         /\ input \in Plain => Does(<<Shown(input)>>) /\ UNCHANGED parser
         /\ input \in Stray => Does(<<>>) /\ UNCHANGED parser
         /\ input \in Leads => /\ Does(<<>>) /\ escape_state' = escape_state
                               /\ utf8_state' = Lead(input).state
                               /\ current_utf8' = Lead(input).bits
         /\ input = ESC => /\ Does(<<>>) /\ utf8_state' = utf8_state
                           /\ escape_state' = "state_esc" /\ escape_buffer' = <<>>
<1>1. UNCHANGED <<style, fault>>
  BY DEF ParseInitial
<1>2. CASE input \in Plain
  <2>1. input \in 32 .. 127 => Shown(input) = <<"print", input>>
    BY <1>2, KindsOfBytes DEF Shown
  <2>2. input \in Controls => Shown(input) = <<"control", input>>
    BY DEF Shown
  <2>3. Does(<<Shown(input)>>) /\ UNCHANGED parser
    BY <1>2, <2>1, <2>2, KindsOfBytes DEF ParseInitial
  <2> QED BY <1>1, <1>2, <2>3, KindsOfBytes DEF Stray
<1>3. CASE input \in Stray
  <2>1. Does(<<>>) /\ UNCHANGED parser
    BY <1>3, KindsOfBytes DEF ParseInitial
  <2> QED BY <1>1, <1>3, <2>1 DEF Stray
<1>4. CASE input \in Leads
  <2>1. /\ Does(<<>>) /\ escape_state' = escape_state
        /\ utf8_state' = Lead(input).state /\ current_utf8' = Lead(input).bits
    BY <1>4, KindsOfBytes DEF ParseInitial
  <2> QED BY <1>1, <1>4, <2>1, KindsOfBytes DEF Stray
<1>5. CASE input = ESC
  <2>1. /\ Does(<<>>) /\ utf8_state' = utf8_state
        /\ escape_state' = "state_esc" /\ escape_buffer' = <<>>
    BY <1>5, KindsOfBytes DEF ParseInitial, decoder
  <2> QED BY <1>1, <1>5, <2>1, KindsOfBytes DEF Stray
<1> QED BY <1>1, <1>2, <1>3, <1>4, <1>5

\* ASCII and control characters.
LEMMA TextStep ==
  ASSUME Stepping, InText
  PROVE  Outcome
<1> DEFINE input == item.bytes[pos + 1]
<1>1. input \in Plain
  BY StepFacts DEF InText, IsText, BytesIn
<1>2. ParseInitial(input)
  BY StepFacts, Dispatch DEF InText
<1>3. Does(<<Shown(input)>>) /\ UNCHANGED <<parser, style, fault>>
  BY <1>1, <1>2, StepFacts, Initially
<1>4. did' = [k \in 1 .. pos' |-> Shown(item.bytes[k])]
  <2> DEFINE S == {Shown(item.bytes[k]) : k \in 1 .. Len(item.bytes)}
             s == [k \in 1 .. pos |-> Shown(item.bytes[k])]
             t == [k \in 1 .. pos + 1 |-> Shown(item.bytes[k])]
  <2>1. s \in Seq(S) /\ Len(s) = pos /\ t \in Seq(S) /\ Len(t) = pos + 1
    <3>1. \A k \in 1 .. Len(item.bytes) : Shown(item.bytes[k]) \in S
      OBVIOUS
    <3>2. 1 .. pos \subseteq 1 .. Len(item.bytes) /\ 1 .. pos + 1 \subseteq 1 .. Len(item.bytes)
      BY StepFacts
    <3>3. pos \in Nat /\ pos + 1 \in Nat
      BY StepFacts
    <3> HIDE DEF S
    <3>4. s \in [1 .. pos -> S] /\ t \in [1 .. pos + 1 -> S]
      BY <3>1, <3>2
    <3> HIDE DEF s, t
    <3> QED BY <3>3, <3>4
  <2>2. Shown(input) \in S
    BY StepFacts
  <2>3. \A k \in 1 .. pos : t[k] = s[k]
    BY StepFacts
  <2>4. t[pos + 1] = Shown(input)
    BY StepFacts
  <2>5. did' = s \o <<Shown(input)>>
    BY <1>3 DEF Does, Stepping, InText
  <2> HIDE DEF s, t, S, input
  <2>6. did' = Append(s, Shown(input))
    BY <2>1, <2>2, <2>5, AppendIsConcat
  <2>7. Append(s, Shown(input)) = t
    <3>1. /\ Append(s, Shown(input)) \in Seq(S) /\ Len(Append(s, Shown(input))) = Len(s) + 1
          /\ \A k \in 1 .. Len(s) : Append(s, Shown(input))[k] = s[k]
          /\ Append(s, Shown(input))[Len(s) + 1] = Shown(input)
      BY <2>1, <2>2, AppendProperties
    <3>2. \A k \in 1 .. Len(t) : Append(s, Shown(input))[k] = t[k]
      BY <2>1, <2>3, <2>4, <3>1, StepFacts
    <3> QED BY <2>1, <3>1, <3>2, SeqEqual
  <2> QED BY <2>6, <2>7, StepFacts DEF t
<1>5. Rest'
  BY <1>3 DEF InText, Rest, parser
<1>6. CASE pos + 1 = Len(item.bytes)
  BY <1>3, <1>4, <1>5, <1>6, StepFacts, Finished DEF InText, IsText
<1>7. CASE pos + 1 # Len(item.bytes)
  <2>1. InText'
    BY <1>4, <1>5, StepFacts DEF InText
  <2> QED BY <1>3, <1>7, <2>1, Onward DEF InItem
<1> QED BY <1>6, <1>7

\* Bytes that are not UTF-8 are dropped.
LEMMA MalformedStep ==
  ASSUME Stepping, InMalformed
  PROVE  Outcome
<1> DEFINE input == item.bytes[pos + 1]
<1>1. did' = <<>> /\ UNCHANGED <<style, fault>> /\ escape_state' = "state_idle"
      /\ utf8_state' = IF pos = 0 /\ item.bytes[1] \in Leads
                       THEN Lead(item.bytes[1]).state ELSE "state_initial"
  <2>1. CASE pos = 0 /\ item.bytes[1] \in Leads
    <3>1. input \in Leads /\ ParseInitial(input)
      BY <2>1, StepFacts, Dispatch DEF InMalformed, Rest
    <3>2. Does(<<>>) /\ UNCHANGED <<style, fault>> /\ escape_state' = escape_state
          /\ utf8_state' = Lead(input).state
      BY <3>1, StepFacts, Initially
    <3> QED BY <2>1, <3>2, Noted, NothingIsSequence DEF InMalformed, Stepping
  <2>2. CASE pos = 1 /\ item.bytes[1] \in Leads
    <3>1. input \notin Continuation[utf8_state].bytes /\ utf8_state # "state_initial"
          /\ utf8_state = Lead(item.bytes[1]).state
      <4>1. item.bytes[1] \notin Stray
        BY <2>2 DEF Stray
      <4>2. Lead(item.bytes[1]).state # "state_initial"
        BY <2>2 DEF Lead, Leads
      <4> QED BY <2>2, <4>1, <4>2, StepFacts DEF InMalformed, IsMalformed, BytesIn
    <3>2. ParseContinuation(input)
      BY <3>1, StepFacts, Dispatch DEF InMalformed
    <3>3. Does(<<>>) /\ UNCHANGED <<style, fault>> /\ escape_state' = escape_state
          /\ utf8_state' = "state_initial"
      BY <3>1, <3>2 DEF ParseContinuation
    <3> QED BY <2>2, <3>3, Noted, NothingIsSequence DEF InMalformed, Stepping
  <2>3. CASE pos > 1 \/ item.bytes[1] \notin Leads
    <3>1. input \in Stray
      BY <2>3, StepFacts DEF InMalformed, IsMalformed, BytesIn
    <3>2. ParseInitial(input)
      BY <2>3, StepFacts, Dispatch DEF InMalformed, Rest
    <3>3. Does(<<>>) /\ UNCHANGED <<style, fault, parser>>
      BY <3>1, <3>2, StepFacts, Initially
    <3>4. pos = 0 => item.bytes[1] \notin Leads
      BY <2>3
    <3> QED BY <2>3, <3>3, <3>4, Noted, NothingIsSequence DEF InMalformed, Stepping, parser
  <2> QED BY <2>1, <2>2, <2>3, StepFacts
<1>2. CASE pos + 1 = Len(item.bytes)
  <2>1. ~(pos = 0 /\ item.bytes[1] \in Leads)
    BY <1>2, StepFacts DEF InMalformed, IsMalformed, BytesIn, Stray
  <2> QED BY <1>1, <1>2, <2>1, Finished DEF InMalformed, IsMalformed, Rest
<1>3. CASE pos + 1 # Len(item.bytes)
  <2>1. InMalformed'
    BY <1>1, StepFacts DEF InMalformed
  <2> QED BY <1>1, <1>3, <2>1, Onward DEF InItem
<1> QED BY <1>2, <1>3

\* A first byte of a character, by its digits.
LEMMA Lead2 ==
  ASSUME NEW a \in 2 .. 31
  PROVE  192 + a \in Leads /\ Lead(192 + a).state = "state_2byte_2" /\ Lead(192 + a).bits = a * 64
<1>1. (192 + a) % 32 = a
  BY SMTT(30)
<1> QED BY <1>1 DEF Leads, Lead

LEMMA Lead3 ==
  ASSUME NEW a \in 0 .. 15
  PROVE  /\ 224 + a \in Leads
         /\ Lead(224 + a).state = IF a = 0 THEN "state_3byte_2_e0" ELSE "state_3byte_2_non_e0"
         /\ Lead(224 + a).bits = a * 4096
<1>1. (224 + a) % 16 = a
  BY SMTT(30)
<1> QED BY <1>1 DEF Leads, Lead

LEMMA Lead4 ==
  ASSUME NEW a \in 0 .. 4
  PROVE  /\ 240 + a \in Leads
         /\ Lead(240 + a).state = CASE a = 0 -> "state_4byte_2_f0" [] a = 4 -> "state_4byte_2_f4"
                                    [] OTHER -> "state_4byte_2_f1_f3"
         /\ Lead(240 + a).bits = a * 262144
<1>1. (240 + a) % 8 = a
  BY SMTT(30)
<1> QED BY <1>1 DEF Leads, Lead

\* A further byte that goes on, by its digit.
LEMMA Continues ==
  ASSUME NEW b \in Six, ParseContinuation(128 + b), utf8_state \in States,
         128 + b \in Continuation[utf8_state].bytes
  PROVE  LET go == Continuation[utf8_state]
         IN /\ UNCHANGED <<style, fault>> /\ escape_state' = escape_state
            /\ escape_state = "state_idle" /\ utf8_state' = go.next
            /\ go.next # "state_initial" =>
                 Does(<<>>) /\ current_utf8' = current_utf8 + b * go.unit
            /\ go.next = "state_initial" => Does(<<<<"print", current_utf8 + b * go.unit>>>>)
<1>1. (128 + b) % 64 = b
  BY SMTT(30) DEF Six
<1> QED BY <1>1 DEF ParseContinuation

\* The first byte of a character of several.
LEMMA FirstOfMany ==
  ASSUME Stepping, pos = 0, Rest, did = <<>>, item.bytes[1] \in Leads
  PROVE  /\ did' = <<>> /\ UNCHANGED <<style, fault>> /\ escape_state' = "state_idle"
         /\ utf8_state' = Lead(item.bytes[1]).state /\ current_utf8' = Lead(item.bytes[1]).bits
<1>1. ParseInitial(item.bytes[1])
  BY StepFacts, Dispatch
<1>2. item.bytes[1] \in Octet
  BY StepFacts
<1>3. /\ Does(<<>>) /\ UNCHANGED <<style, fault>> /\ escape_state' = escape_state
      /\ utf8_state' = Lead(item.bytes[1]).state /\ current_utf8' = Lead(item.bytes[1]).bits
  BY <1>1, <1>2, Initially
<1> QED BY <1>3, Noted, NothingIsSequence DEF Rest, Stepping

\* A further byte, in the middle and at the end.
LEMMA MiddleOfMany ==
  ASSUME Stepping, NEW b \in Six, item.bytes[pos + 1] = 128 + b,
         escape_state = "state_idle", did = <<>>,
         NEW state \in States, utf8_state = state, 128 + b \in Continuation[state].bytes,
         NEW next \in States, Continuation[state].next = next
  PROVE  /\ did' = <<>> /\ UNCHANGED <<style, fault>> /\ escape_state' = "state_idle"
         /\ utf8_state' = next
         /\ current_utf8' = current_utf8 + b * Continuation[state].unit
<1>1. ParseContinuation(128 + b)
  BY StepFacts, Dispatch DEF States
<1>2. next # "state_initial"
  BY DEF States
<1> QED BY <1>1, <1>2, Continues, Noted, NothingIsSequence DEF Stepping

LEMMA EndOfMany ==
  ASSUME Stepping, NEW b \in Six, item.bytes[pos + 1] = 128 + b,
         escape_state = "state_idle", did = <<>>,
         NEW state \in States, utf8_state = state, 128 + b \in Continuation[state].bytes,
         Continuation[state].next = "state_initial",
         NoStyle(item), pos + 1 = Len(item.bytes),
         item.does = <<<<"print", current_utf8 + b * Continuation[state].unit>>>>
  PROVE  Outcome
<1>1. ParseContinuation(128 + b)
  BY StepFacts, Dispatch DEF States
<1>2. /\ Does(item.does) /\ UNCHANGED <<style, fault>>
      /\ escape_state' = "state_idle" /\ utf8_state' = "state_initial"
  BY <1>1, Continues
<1>3. did' = item.does
  BY <1>2, Noted DEF Stepping, Complete
<1> QED BY <1>2, <1>3, Finished DEF Rest

\* The states of the decoder, as EndOfMany and MiddleOfMany need them.
LEMMA StateFacts ==
  /\ \A b \in Six : \A state \in States :
       128 + b \in Continuation[state].bytes
         <=> /\ state = "state_3byte_2_e0" => b >= 32
             /\ state = "state_4byte_2_f0" => b >= 16
             /\ state = "state_4byte_2_f4" => b <= 15
  /\ \A state \in {"state_2byte_2", "state_3byte_3", "state_4byte_4"} :
       state \in States /\ Continuation[state].next = "state_initial" /\ Continuation[state].unit = 1
  /\ \A state \in {"state_3byte_2_e0", "state_3byte_2_non_e0"} :
       state \in States /\ Continuation[state].next = "state_3byte_3" /\ Continuation[state].unit = 64
  /\ \A state \in {"state_4byte_2_f0", "state_4byte_2_f1_f3", "state_4byte_2_f4"} :
       state \in States /\ Continuation[state].next = "state_4byte_3" /\ Continuation[state].unit = 4096
  /\ /\ "state_4byte_3" \in States
     /\ Continuation["state_4byte_3"].next = "state_4byte_4"
     /\ Continuation["state_4byte_3"].unit = 64
<1>1. \A b \in Six : \A state \in States :
       128 + b \in Continuation[state].bytes
         <=> /\ state = "state_3byte_2_e0" => b >= 32
             /\ state = "state_4byte_2_f0" => b >= 16
             /\ state = "state_4byte_2_f4" => b <= 15
  BY StatesOfContinuation DEF States, Go, Six
<1> QED BY <1>1, StatesOfContinuation DEF States, Go

\* The characters of two bytes.
LEMMA TwoStep ==
  ASSUME Stepping, InTwo
  PROVE  Outcome
<1>1. PICK a \in 2 .. 31, b \in Six : Two(a, b)
  BY DEF InTwo
<1>2. /\ Len(item.bytes) = 2 /\ item.bytes[1] = 192 + a /\ item.bytes[2] = 128 + b
      /\ item.does = <<<<"print", a * 64 + b>>>> /\ NoStyle(item)
      /\ did = <<>> /\ escape_state = "state_idle"
  BY <1>1 DEF Two, Printing
<1>3. CASE pos = 0
  <2>1. utf8_state = "state_initial"
    BY <1>1, <1>3 DEF Two, Begun
  <2>2. /\ did' = <<>> /\ UNCHANGED <<style, fault>> /\ escape_state' = "state_idle"
        /\ utf8_state' = "state_2byte_2" /\ current_utf8' = a * 64
    <3>1. /\ item.bytes[1] \in Leads /\ Lead(item.bytes[1]).state = "state_2byte_2"
          /\ Lead(item.bytes[1]).bits = a * 64
      BY <1>2, Lead2
    <3> QED BY <1>2, <1>3, <2>1, <3>1, FirstOfMany DEF Rest
  <2>3. Two(a, b)'
    BY <1>1, <1>3, <2>2, StepFacts DEF Two, Printing, Begun, At
  <2>4. InTwo'
    BY <2>3 DEF InTwo
  <2> QED BY <1>2, <1>3, <2>2, <2>4, Onward DEF InItem
<1>4. CASE pos = 1
  <2>1. utf8_state = "state_2byte_2" /\ current_utf8 = a * 64
    BY <1>1, <1>4 DEF Two, At
  <2>2. /\ Continuation["state_2byte_2"].unit = 1 /\ "state_2byte_2" \in States
        /\ Continuation["state_2byte_2"].next = "state_initial"
        /\ 128 + b \in Continuation["state_2byte_2"].bytes
    BY StateFacts
  <2>3. item.does = <<<<"print", current_utf8 + b * 1>>>>
    <3>1. current_utf8 + b * 1 = a * 64 + b
      BY <2>1 DEF Six
    <3> QED BY <1>2, <3>1
  <2> QED BY <1>2, <1>4, <2>1, <2>2, <2>3, EndOfMany
<1> QED BY <1>2, <1>3, <1>4, StepFacts

\* The characters of three bytes.
LEMMA ThreeStep ==
  ASSUME Stepping, InThree
  PROVE  Outcome
<1>1. PICK a \in 0 .. 15, b \in Six, d \in Six : Three(a, b, d)
  BY DEF InThree
<1> DEFINE first == IF a = 0 THEN "state_3byte_2_e0" ELSE "state_3byte_2_non_e0"
<1>2. /\ Len(item.bytes) = 3 /\ item.bytes[1] = 224 + a /\ item.bytes[2] = 128 + b
      /\ item.bytes[3] = 128 + d
      /\ item.does = <<<<"print", a * 4096 + b * 64 + d>>>> /\ NoStyle(item)
      /\ did = <<>> /\ escape_state = "state_idle"
  BY <1>1 DEF Three, Printing
<1>3. CASE pos = 0
  <2>1. utf8_state = "state_initial"
    BY <1>1, <1>3 DEF Three, Begun
  <2>2. /\ did' = <<>> /\ UNCHANGED <<style, fault>> /\ escape_state' = "state_idle"
        /\ utf8_state' = first /\ current_utf8' = a * 4096
    <3>1. item.bytes[1] \in Leads /\ Lead(item.bytes[1]).state = first /\ Lead(item.bytes[1]).bits = a * 4096
      <4>1. 224 + a \in Leads /\ Lead(224 + a).state = first /\ Lead(224 + a).bits = a * 4096
        BY Lead3
      <4> HIDE DEF first
      <4> QED BY <1>2, <4>1
    <3> QED BY <1>2, <1>3, <2>1, <3>1, FirstOfMany DEF Rest
  <2>3. Three(a, b, d)'
    BY <1>1, <1>3, <2>2, StepFacts DEF Three, Printing, Begun, At
  <2>4. InThree'
    BY <2>3 DEF InThree
  <2> QED BY <1>2, <1>3, <2>2, <2>4, Onward DEF InItem
<1>4. CASE pos = 1
  <2>1. utf8_state = first /\ current_utf8 = a * 4096
    BY <1>1, <1>4 DEF Three, At
  <2>2. /\ Continuation[first].unit = 64 /\ first \in States
        /\ Continuation[first].next = "state_3byte_3" /\ "state_3byte_3" \in States
        /\ 128 + b \in Continuation[first].bytes
    <3>1. first # "state_4byte_2_f0" /\ first # "state_4byte_2_f4" /\ (first = "state_3byte_2_e0" => b >= 32)
      BY <1>1 DEF Three
    <3>2. first \in {"state_3byte_2_e0", "state_3byte_2_non_e0"}
      OBVIOUS
    <3> HIDE DEF first
    <3> QED BY <3>1, <3>2, StateFacts
  <2>3. /\ did' = <<>> /\ UNCHANGED <<style, fault>> /\ escape_state' = "state_idle"
        /\ utf8_state' = "state_3byte_3" /\ current_utf8' = current_utf8 + b * Continuation[first].unit
    <3> HIDE DEF first
    <3> QED BY <1>2, <1>4, <2>1, <2>2, MiddleOfMany
  <2>4. current_utf8' = a * 4096 + b * 64
    BY <2>1, <2>2, <2>3 DEF Six
  <2>5. Three(a, b, d)'
    BY <1>1, <1>4, <2>3, <2>4, StepFacts DEF Three, Printing, Begun, At
  <2>6. InThree'
    BY <2>5 DEF InThree
  <2> QED BY <1>2, <1>4, <2>3, <2>6, Onward DEF InItem
<1>5. CASE pos = 2
  <2>1. utf8_state = "state_3byte_3" /\ current_utf8 = a * 4096 + b * 64
    BY <1>1, <1>5 DEF Three, At
  <2>2. /\ Continuation["state_3byte_3"].unit = 1 /\ "state_3byte_3" \in States
        /\ Continuation["state_3byte_3"].next = "state_initial"
        /\ 128 + d \in Continuation["state_3byte_3"].bytes
    BY StateFacts
  <2>3. item.does = <<<<"print", current_utf8 + d * 1>>>>
    <3>1. current_utf8 + d * 1 = a * 4096 + b * 64 + d
      BY <2>1 DEF Six
    <3> QED BY <1>2, <3>1
  <2> QED BY <1>2, <1>5, <2>1, <2>2, <2>3, EndOfMany
<1> QED BY <1>2, <1>3, <1>4, <1>5, StepFacts

\* The characters of four bytes.
LEMMA FourStep ==
  ASSUME Stepping, InFour
  PROVE  Outcome
<1>1. PICK a \in 0 .. 4, b \in Six, d \in Six, e \in Six : Four(a, b, d, e)
  BY DEF InFour
<1> DEFINE first == CASE a = 0 -> "state_4byte_2_f0" [] a = 4 -> "state_4byte_2_f4"
                      [] OTHER -> "state_4byte_2_f1_f3"
           code == a * 262144 + b * 4096 + d * 64 + e
<1>2. /\ Len(item.bytes) = 4 /\ item.bytes[1] = 240 + a /\ item.bytes[2] = 128 + b
      /\ item.bytes[3] = 128 + d /\ item.bytes[4] = 128 + e
      /\ item.does = <<<<"print", code>>>> /\ NoStyle(item)
      /\ did = <<>> /\ escape_state = "state_idle"
  BY <1>1 DEF Four, Printing
<1>3. CASE pos = 0
  <2>1. utf8_state = "state_initial"
    BY <1>1, <1>3 DEF Four, Begun
  <2>2. /\ did' = <<>> /\ UNCHANGED <<style, fault>> /\ escape_state' = "state_idle"
        /\ utf8_state' = first /\ current_utf8' = a * 262144
    <3>1. item.bytes[1] \in Leads /\ Lead(item.bytes[1]).state = first /\ Lead(item.bytes[1]).bits = a * 262144
      BY <1>2, Lead4
    <3> QED BY <1>2, <1>3, <2>1, <3>1, FirstOfMany DEF Rest
  <2>3. Four(a, b, d, e)'
    BY <1>1, <1>3, <2>2, StepFacts DEF Four, Printing, Begun, At
  <2>4. InFour'
    BY <2>3 DEF InFour
  <2> QED BY <1>2, <1>3, <2>2, <2>4, Onward DEF InItem
<1>4. CASE pos = 1
  <2>1. utf8_state = first /\ current_utf8 = a * 262144
    BY <1>1, <1>4 DEF Four, At
  <2>2. /\ Continuation[first].unit = 4096 /\ first \in States
        /\ Continuation[first].next = "state_4byte_3" /\ "state_4byte_3" \in States
        /\ 128 + b \in Continuation[first].bytes
    <3>1. /\ first # "state_3byte_2_e0" /\ (first = "state_4byte_2_f0" => b >= 16)
          /\ first = "state_4byte_2_f4" => b <= 15
      BY <1>1 DEF Four, Exists
    <3>2. first \in {"state_4byte_2_f0", "state_4byte_2_f1_f3", "state_4byte_2_f4"}
      OBVIOUS
    <3> HIDE DEF first
    <3> QED BY <3>1, <3>2, StateFacts
  <2>3. /\ did' = <<>> /\ UNCHANGED <<style, fault>> /\ escape_state' = "state_idle"
        /\ utf8_state' = "state_4byte_3" /\ current_utf8' = current_utf8 + b * Continuation[first].unit
    <3> HIDE DEF first
    <3> QED BY <1>2, <1>4, <2>1, <2>2, MiddleOfMany
  <2>4. current_utf8' = a * 262144 + b * 4096
    BY <2>1, <2>2, <2>3 DEF Six
  <2>5. Four(a, b, d, e)'
    BY <1>1, <1>4, <2>3, <2>4, StepFacts DEF Four, Printing, Begun, At
  <2>6. InFour'
    BY <2>5 DEF InFour
  <2> QED BY <1>2, <1>4, <2>3, <2>6, Onward DEF InItem
<1>5. CASE pos = 2
  <2>1. utf8_state = "state_4byte_3" /\ current_utf8 = a * 262144 + b * 4096
    BY <1>1, <1>5 DEF Four, At
  <2>2. /\ Continuation["state_4byte_3"].unit = 64 /\ "state_4byte_3" \in States
        /\ Continuation["state_4byte_3"].next = "state_4byte_4" /\ "state_4byte_4" \in States
        /\ 128 + d \in Continuation["state_4byte_3"].bytes
    BY StateFacts
  <2>3. /\ did' = <<>> /\ UNCHANGED <<style, fault>> /\ escape_state' = "state_idle"
        /\ utf8_state' = "state_4byte_4" /\ current_utf8' = current_utf8 + d * 64
    BY <1>2, <1>5, <2>1, <2>2, MiddleOfMany
  <2>4. current_utf8' = a * 262144 + b * 4096 + d * 64
    BY <2>1, <2>3 DEF Six
  <2>5. Four(a, b, d, e)'
    BY <1>1, <1>5, <2>3, <2>4, StepFacts DEF Four, Printing, Begun, At
  <2>6. InFour'
    BY <2>5 DEF InFour
  <2> QED BY <1>2, <1>5, <2>3, <2>6, Onward DEF InItem
<1>6. CASE pos = 3
  <2>1. utf8_state = "state_4byte_4" /\ current_utf8 = a * 262144 + b * 4096 + d * 64
    BY <1>1, <1>6 DEF Four, At
  <2>2. /\ Continuation["state_4byte_4"].unit = 1 /\ "state_4byte_4" \in States
        /\ Continuation["state_4byte_4"].next = "state_initial"
        /\ 128 + e \in Continuation["state_4byte_4"].bytes
    BY StateFacts
  <2>3. item.does = <<<<"print", current_utf8 + e * 1>>>>
    <3>1. current_utf8 + e * 1 = code
      BY <2>1 DEF Six
    <3> QED BY <1>2, <3>1
  <2> QED BY <1>2, <1>6, <2>1, <2>2, <2>3, EndOfMany
<1> QED BY <1>2, <1>3, <1>4, <1>5, <1>6, StepFacts

\* The digits of a code point.
LEMMA Digits ==
  ASSUME NEW c \in CodePoints
  PROVE  \/ \E a \in 2 .. 31, b \in Six : Encode(c) = <<192 + a, 128 + b>> /\ c = a * 64 + b
         \/ \E a \in 0 .. 15, b \in Six, d \in Six :
              /\ a = 0 => b >= 32
              /\ Encode(c) = <<224 + a, 128 + b, 128 + d>> /\ c = a * 4096 + b * 64 + d
         \/ \E a \in 0 .. 4, b \in Six, d \in Six, e \in Six :
              /\ Exists(a, b)
              /\ Encode(c) = <<240 + a, 128 + b, 128 + d, 128 + e>>
              /\ c = a * 262144 + b * 4096 + d * 64 + e
<1> DEFINE m == c \div 64
           e == c % 64
           n == m \div 64
           d == m % 64
           k == n \div 64
           b == n % 64
<1>1. c \in Nat /\ 127 < c /\ c <= 1114111
  BY DEF CodePoints
<1>2. \A x \in Nat : x \div 64 \in Nat /\ x % 64 \in Six /\ x = (x \div 64) * 64 + (x % 64)
  BY SMTT(30) DEF Six
<1>3. m \in Nat /\ e \in Six /\ c = m * 64 + e
  BY <1>1, <1>2
<1> HIDE DEF m, e
<1>4. n \in Nat /\ d \in Six /\ m = n * 64 + d
  BY <1>2, <1>3
<1> HIDE DEF n, d
<1>5. k \in Nat /\ b \in Six /\ n = k * 64 + b
  BY <1>2, <1>4
<1> HIDE DEF k, b
<1>6. CASE c < 2048
  <2>1. m \in 2 .. 31
    BY <1>1, <1>3, <1>6 DEF Six
  <2>2. Splits(c, 64, m, e) /\ 1 < m /\ m < 32
    BY <1>3, <2>1 DEF Splits, Six
  <2>3. Encode(c) = <<192 + m, 128 + e>>
    BY <2>2, Encode2
  <2> QED BY <1>3, <2>1, <2>3
<1>7. CASE 2047 < c /\ c < 65536
  <2>1. n \in 0 .. 15 /\ (n = 0 => d >= 32)
    BY <1>3, <1>4, <1>7 DEF Six
  <2>2. Splits(m, 64, n, d) /\ Splits(c, 64, m, e) /\ n < 16
    BY <1>3, <1>4, <2>1 DEF Splits, Six
  <2>3. Encode(c) = <<224 + n, 128 + d, 128 + e>>
    BY <2>1, <2>2, Encode3
  <2>4. c = n * 4096 + d * 64 + e
    BY <1>3, <1>4 DEF Six
  <2> QED BY <1>3, <1>4, <2>1, <2>3, <2>4
<1>8. CASE 65535 < c
  <2>1. k \in 0 .. 4 /\ Exists(k, b)
    BY <1>1, <1>3, <1>4, <1>5, <1>8 DEF Six, Exists
  <2>2. Splits(n, 64, k, b) /\ Splits(m, 64, n, d) /\ Splits(c, 64, m, e) /\ k < 5
    BY <1>3, <1>4, <1>5, <2>1 DEF Splits, Six
  <2>3. (k = 0 => b >= 16) /\ (k = 4 => b <= 15)
    BY <2>1 DEF Exists
  <2>4. Encode(c) = <<240 + k, 128 + b, 128 + d, 128 + e>>
    BY <2>2, <2>3, Encode4
  <2>5. c = k * 262144 + b * 4096 + d * 64 + e
    BY <1>3, <1>4, <1>5 DEF Six
  <2> QED BY <1>3, <1>4, <1>5, <2>1, <2>4, <2>5
<1> QED BY <1>1, <1>6, <1>7, <1>8

\* Between two items any complete item can begin.
LEMMA Beginning ==
  ASSUME Complete(item'), pos' = 0, did' = <<>>, Rest'
  PROVE  InItem'
<1>1. CASE IsText(item')
  <2>1. did' = [k \in 1 .. pos' |-> Shown(item'.bytes[k])]
    OBVIOUS
  <2> QED BY <1>1, <2>1 DEF InItem, InText
<1>2. CASE IsMalformed(item')
  BY <1>2 DEF InItem, InMalformed, Rest
<1>3. CASE IsControl(item')
  BY <1>3 DEF InItem, InControl, Rest
<1>4. CASE IsCharacter(item')
  <2>1. PICK c \in CodePoints :
          item'.bytes = Encode(c) /\ item'.does = <<<<"print", c>>>> /\ NoStyle(item')
    BY <1>4 DEF IsCharacter
  <2>2. CASE \E a \in 2 .. 31, b \in Six : Encode(c) = <<192 + a, 128 + b>> /\ c = a * 64 + b
    <3>1. PICK a \in 2 .. 31, b \in Six : Encode(c) = <<192 + a, 128 + b>> /\ c = a * 64 + b
      BY <2>2
    <3>2. Two(a, b)'
      BY <2>1, <3>1 DEF Two, Printing, Begun, At, Rest
    <3> QED BY <3>2 DEF InItem, InTwo
  <2>3. CASE \E a \in 0 .. 15, b \in Six, d \in Six :
               /\ a = 0 => b >= 32
               /\ Encode(c) = <<224 + a, 128 + b, 128 + d>> /\ c = a * 4096 + b * 64 + d
    <3>1. PICK a \in 0 .. 15, b \in Six, d \in Six :
            /\ a = 0 => b >= 32
            /\ Encode(c) = <<224 + a, 128 + b, 128 + d>> /\ c = a * 4096 + b * 64 + d
      BY <2>3
    <3>2. Three(a, b, d)'
      BY <2>1, <3>1 DEF Three, Printing, Begun, At, Rest
    <3> QED BY <3>2 DEF InItem, InThree
  <2>4. CASE \E a \in 0 .. 4, b \in Six, d \in Six, e \in Six :
               /\ Exists(a, b)
               /\ Encode(c) = <<240 + a, 128 + b, 128 + d, 128 + e>>
               /\ c = a * 262144 + b * 4096 + d * 64 + e
    <3>1. PICK a \in 0 .. 4, b \in Six, d \in Six, e \in Six :
            /\ Exists(a, b)
            /\ Encode(c) = <<240 + a, 128 + b, 128 + d, 128 + e>>
            /\ c = a * 262144 + b * 4096 + d * 64 + e
      BY <2>4
    <3>2. Four(a, b, d, e)'
      BY <2>1, <3>1 DEF Four, Printing, Begun, At, Rest
    <3> QED BY <3>2 DEF InItem, InFour
  <2> QED BY <2>2, <2>3, <2>4, Digits
<1> QED BY <1>1, <1>2, <1>3, <1>4 DEF Complete
-----------------------------------------------------------------------------
(* Control functions                                                       *)

LEMMA ControlShape ==
  ASSUME NEW i, Complete(i), IsControl(i)
  PROVE  /\ Len(i.bytes) \in Nat /\ Len(i.bytes) > 1 /\ i.bytes[1] = ESC
         /\ IsEscape(i) => Len(i.bytes) = 2
         /\ IsPrefixed(i) => Len(i.bytes) = 3 /\ i.bytes[2] \in Intermediates
         /\ IsCsi(i) => Len(i.bytes) > 2 /\ i.bytes[2] = 91
         /\ IsOsc(i) => Len(i.bytes) > 2 /\ i.bytes[2] = 93
         /\ IsDcs(i) => Len(i.bytes) > 2 /\ i.bytes[2] = 80
<1>1. Len(i.bytes) \in Nat
  BY DEF Complete, IsSequence
<1> QED BY <1>1 DEF IsControl, IsEscape, IsPrefixed, IsCsi, IsOsc, IsDcs, Introduces

\* Where the parser is in a control function.
LEMMA Position ==
  ASSUME InControl, Stepping
  PROVE  /\ pos = 0 => escape_state = "state_idle"
         /\ pos = 1 => escape_state = "state_esc" /\ escape_buffer = <<>>
         /\ pos > 1 /\ IsPrefixed(item) => escape_state = "state_esc" /\ escape_buffer = <<item.bytes[2]>>
         /\ pos > 1 /\ (IsCsi(item) \/ IsOsc(item) \/ IsDcs(item)) =>
              /\ escape_state = Introduced(item.bytes[2])
              /\ escape_buffer = SubSeq(item.bytes, 3, pos)
<1>1. Complete(item) /\ IsControl(item)
  BY DEF InControl, Stepping
<1>2. IsCsi(item) \/ IsOsc(item) \/ IsDcs(item) => ~IsPrefixed(item)
  BY <1>1, ControlShape DEF Intermediates, Hash
<1>3. pos \in Nat
  BY StepFacts
<1> QED BY <1>2, <1>3 DEF InControl

\* ESC.
LEMMA ControlStart ==
  ASSUME Stepping, InControl, pos = 0
  PROVE  Outcome
<1>1. /\ Len(item.bytes) \in Nat /\ Len(item.bytes) > 1 /\ item.bytes[1] = ESC
      /\ IsControl(item) /\ did = <<>> /\ Rest
  BY ControlShape, Position DEF InControl, Stepping, Rest
<1>2. ParseInitial(ESC)
  BY <1>1, StepFacts, Dispatch
<1>3. ESC \in Octet
  BY DEF ESC, Octet
<1>4. /\ UNCHANGED <<style, fault>> /\ Does(<<>>) /\ utf8_state' = utf8_state
      /\ escape_state' = "state_esc" /\ escape_buffer' = <<>>
  BY <1>2, <1>3, Initially
<1>5. did' = <<>>
  BY <1>1, <1>4, Noted, NothingIsSequence DEF Stepping
<1>6. InControl'
  BY <1>1, <1>4, <1>5, StepFacts DEF InControl, Rest
<1>7. InItem'
  BY <1>6, Zenon DEF InItem
<1>8. pos + 1 # Len(item.bytes)
  <2>1. \A n \in Nat : n > 1 => 0 + 1 # n
    OBVIOUS
  <2> QED BY <1>1, <2>1
<1> QED BY <1>4, <1>7, <1>8, Onward

\* What ESC and a byte do.
LEMMA Escaping ==
  ASSUME NEW input \in Octet, ParseEsc(input), escape_buffer = <<>>
  PROVE  /\ UNCHANGED <<fault, decoder>>
         /\ input \in Introducers =>
              /\ Does(<<>>) /\ UNCHANGED style
              /\ escape_state' = Introduced(input) /\ escape_buffer' = <<>>
         /\ input \in Intermediates =>
              /\ Does(<<>>) /\ UNCHANGED style
              /\ escape_state' = escape_state /\ escape_buffer' = Append(<<>>, input)
         /\ input \notin Introducers \cup Intermediates =>
              /\ escape_state' = "state_idle"
              /\ Does(IF input \in ScreenEscapes \cup {55, 56} THEN <<<<"esc", input>>>> ELSE <<>>)
              /\ current_style' = IF input = 56 THEN save_style ELSE current_style
              /\ save_style' = IF input = 55 THEN current_style ELSE save_style
<1>1. UNCHANGED <<fault, decoder>>
  BY DEF ParseEsc
<1>2. escape_buffer # <<Hash>>
  OBVIOUS
<1>3. CASE input \in Introducers
  <2>1. input \notin ScreenEscapes \cup {55, 56, Hash, 40, 41}
    BY <1>3 DEF Introducers, ScreenEscapes, Hash
  <2>2. /\ Does(<<>>) /\ UNCHANGED style
        /\ escape_state' = Introduced(input) /\ escape_buffer' = <<>>
    BY <1>2, <1>3, <2>1 DEF ParseEsc
  <2> QED BY <1>1, <1>3, <2>1, <2>2 DEF Intermediates
<1>4. CASE input \in Intermediates
  <2>1. input \notin ScreenEscapes \cup {55, 56} \cup Introducers /\ input \in {Hash, 40, 41}
    BY <1>4 DEF Introducers, ScreenEscapes, Hash, Intermediates
  <2>2. /\ Does(<<>>) /\ UNCHANGED style
        /\ escape_state' = escape_state /\ escape_buffer' = Append(<<>>, input)
    BY <1>2, <1>4, <2>1 DEF ParseEsc
  <2> QED BY <1>1, <1>4, <2>1, <2>2
<1>5. CASE input \notin Introducers \cup Intermediates
  <2>1. input \notin Introducers /\ input \notin {Hash, 40, 41}
    BY <1>5 DEF Intermediates
  <2>2. CASE input \in ScreenEscapes
    <3>1. input # 55 /\ input # 56
      BY <2>2 DEF ScreenEscapes
    <3>2. /\ escape_state' = "state_idle" /\ Does(<<<<"esc", input>>>>) /\ UNCHANGED style
      BY <1>2, <2>1, <2>2, <3>1 DEF ParseEsc, Back
    <3> QED BY <1>1, <1>5, <2>2, <3>1, <3>2 DEF style
  <2>3. CASE input = 55
    <3>1. input \notin ScreenEscapes
      BY <2>3 DEF ScreenEscapes
    <3>2. /\ escape_state' = "state_idle" /\ Does(<<<<"esc", input>>>>)
          /\ save_style' = current_style /\ current_style' = current_style
      BY <1>2, <2>1, <2>3, <3>1 DEF ParseEsc, Back
    <3> QED BY <1>1, <1>5, <2>3, <3>2
  <2>4. CASE input = 56
    <3>1. input \notin ScreenEscapes
      BY <2>4 DEF ScreenEscapes
    <3>2. /\ escape_state' = "state_idle" /\ Does(<<<<"esc", input>>>>)
          /\ current_style' = save_style /\ save_style' = save_style
      BY <1>2, <2>1, <2>4, <3>1 DEF ParseEsc, Back
    <3> QED BY <1>1, <1>5, <2>4, <3>2
  <2>5. CASE input \notin ScreenEscapes \cup {55, 56}
    <3>1. /\ escape_state' = "state_idle" /\ Does(<<>>) /\ UNCHANGED style
      BY <1>2, <2>1, <2>5 DEF ParseEsc, Back
    <3> QED BY <1>1, <1>5, <2>5, <3>1 DEF style
  <2> QED BY <2>2, <2>3, <2>4, <2>5
<1> QED BY <1>3, <1>4, <1>5

\* ESC and a byte: with 55 and 56 the style is saved and restored.
LEMMA EscapeStep ==
  ASSUME Stepping, InControl, IsEscape(item), pos = 1
  PROVE  Outcome
<1> DEFINE input == item.bytes[2]
<1>1. /\ Len(item.bytes) = 2 /\ input \in Octet /\ ParseEsc(input)
      /\ escape_buffer = <<>> /\ did = <<>> /\ utf8_state = "state_initial"
  BY ControlShape, Position, StepFacts, Dispatch DEF InControl, Stepping
<1>2. input \notin Introducers \cup Intermediates
  BY DEF IsEscape
<1> HIDE DEF input
<1>3. /\ UNCHANGED <<fault, decoder>> /\ escape_state' = "state_idle"
      /\ Does(IF input \in ScreenEscapes \cup {55, 56} THEN <<<<"esc", input>>>> ELSE <<>>)
      /\ current_style' = IF input = 56 THEN save_style ELSE current_style
      /\ save_style' = IF input = 55 THEN current_style ELSE save_style
  BY <1>1, <1>2, Escaping
<1>4. did' = item.does
  BY <1>1, <1>3, Noted DEF IsEscape, Stepping, Complete, input
<1>5. Rest' /\ fault' = "none" /\ Between'
  BY <1>1, <1>3, StepFacts DEF Rest, Stepping, decoder, Between
<1>6. wanted = Styles'
  <2>1. CASE input = 55
    <3>1. item.style = <<<<"save">>>>
      BY <2>1 DEF IsEscape, input
    <3>2. wanted = Ask(Styles, <<"save">>)
      BY <3>1, FoldOne DEF Stepping
    <3> QED BY <1>3, <2>1, <3>2 DEF Ask, Styles
  <2>2. CASE input = 56
    <3>1. item.style = <<<<"restore">>>>
      BY <2>2 DEF IsEscape, input
    <3>2. wanted = Ask(Styles, <<"restore">>)
      BY <3>1, FoldOne DEF Stepping
    <3> QED BY <1>3, <2>2, <3>2 DEF Ask, Styles
  <2>3. CASE input # 55 /\ input # 56
    <3>1. item.style = <<>>
      BY <2>3 DEF IsEscape, input
    <3> QED BY <1>3, <2>3, <3>1, FoldNone DEF Stepping, Styles
  <2> QED BY <2>1, <2>2, <2>3
<1>7. Done'
  BY <1>4, <1>5, <1>6, StepFacts DEF Done, IsEscape
<1> QED BY <1>5, <1>7 DEF Outcome

\* ESC # and brackets.
LEMMA PrefixedStep ==
  ASSUME Stepping, InControl, IsPrefixed(item), pos > 0
  PROVE  Outcome
<1>1. /\ Len(item.bytes) = 3 /\ item.bytes[2] \in Intermediates
      /\ did = <<>> /\ utf8_state = "state_initial" /\ pos \in {1, 2}
  BY ControlShape, StepFacts DEF InControl, Stepping
<1>2. CASE pos = 1
  <2>1. /\ item.bytes[2] \in Octet /\ ParseEsc(item.bytes[2]) /\ escape_state = "state_esc"
        /\ escape_buffer = <<>>
    BY <1>2, Position, StepFacts, Dispatch
  <2>2. /\ UNCHANGED <<fault, decoder>> /\ Does(<<>>) /\ UNCHANGED style
        /\ escape_state' = escape_state /\ escape_buffer' = Append(<<>>, item.bytes[2])
    BY <1>1, <2>1, Escaping
  <2>3. did' = <<>> /\ escape_buffer' = <<item.bytes[2]>> /\ utf8_state' = "state_initial"
    BY <1>1, <2>2, Noted, NothingIsSequence DEF Stepping, decoder
  <2>4. InControl'
    BY <1>1, <1>2, <2>1, <2>2, <2>3, StepFacts DEF InControl
  <2> QED BY <1>1, <1>2, <2>2, <2>4, Onward DEF InItem
<1>3. CASE pos = 2
  <2> DEFINE input == item.bytes[3]
  <2>1. /\ ParseEsc(input) /\ escape_buffer = <<item.bytes[2]>>
    BY <1>3, Position, StepFacts, Dispatch
  <2>2. input \notin {Hash, 40, 41}
    BY DEF IsPrefixed, Intermediates
  <2>3. escape_buffer # <<>> /\ (escape_buffer = <<Hash>> <=> item.bytes[2] = Hash)
    BY <2>1
  <2> HIDE DEF input
  <2>4. /\ UNCHANGED <<fault, decoder>> /\ UNCHANGED style /\ escape_state' = "state_idle"
        /\ Does(IF item.bytes[2] = Hash /\ input = 56 THEN <<<<"decaln">>>> ELSE <<>>)
    BY <2>1, <2>2, <2>3 DEF ParseEsc, Back
  <2>5. did' = item.does
    BY <1>1, <2>4, Noted DEF IsPrefixed, Stepping, Complete, input
  <2>6. Rest' /\ NoStyle(item)
    BY <1>1, <2>4 DEF Rest, decoder, IsPrefixed
  <2> QED BY <1>1, <1>3, <2>4, <2>5, <2>6, Finished
<1> QED BY <1>1, <1>2, <1>3

\* CSI, OSC and DCS begin with nothing in the buffer.
LEMMA IntroducerStep ==
  ASSUME Stepping, InControl, pos = 1, IsCsi(item) \/ IsOsc(item) \/ IsDcs(item)
  PROVE  Outcome
<1>1. /\ Len(item.bytes) \in Nat /\ Len(item.bytes) > 2 /\ item.bytes[2] \in Introducers
      /\ did = <<>> /\ utf8_state = "state_initial" /\ IsControl(item) /\ ~IsPrefixed(item)
  BY ControlShape DEF InControl, Stepping, Introducers, Intermediates, Hash
<1>2. /\ item.bytes[2] \in Octet /\ ParseEsc(item.bytes[2]) /\ escape_buffer = <<>>
  BY Position, StepFacts, Dispatch
<1>3. /\ UNCHANGED <<fault, decoder>> /\ Does(<<>>) /\ UNCHANGED style
      /\ escape_state' = Introduced(item.bytes[2]) /\ escape_buffer' = <<>>
  BY <1>1, <1>2, Escaping
<1>4. did' = <<>> /\ utf8_state' = "state_initial"
  BY <1>1, <1>3, Noted, NothingIsSequence DEF Stepping, decoder
<1>5. SubSeq(item.bytes, 3, 2) = <<>>
  BY SubSeqEmpty
<1>6. InControl'
  BY <1>1, <1>3, <1>4, <1>5, StepFacts DEF InControl
<1>7. InItem'
  BY <1>6, Zenon DEF InItem
<1>8. pos + 1 # Len(item.bytes)
  <2>1. \A n \in Nat : n > 2 => 1 + 1 # n
    OBVIOUS
  <2> QED BY <1>1, <2>1
<1>9. UNCHANGED <<style, fault>>
  BY <1>3
<1> QED BY <1>7, <1>8, <1>9, Onward

\* A byte between the introducer and the end is put into the buffer.
LEMMA Appending ==
  ASSUME Stepping, InControl, pos > 1, IsCsi(item) \/ IsOsc(item) \/ IsDcs(item),
         escape_buffer' = Append(escape_buffer, item.bytes[pos + 1]),
         Does(<<>>), UNCHANGED <<escape_state, style, fault, decoder>>,
         pos + 1 # Len(item.bytes)
  PROVE  Outcome
<1>0. pos \in Nat /\ pos' = pos + 1
  BY StepFacts
<1>1. did = <<>> /\ utf8_state = "state_initial" /\ IsControl(item) /\ ~IsPrefixed(item)
  BY ControlShape DEF InControl, Stepping, Intermediates, Hash
<1>2. escape_state = Introduced(item.bytes[2]) /\ escape_buffer = SubSeq(item.bytes, 3, pos)
  BY Position
<1>3. escape_buffer' = SubSeq(item.bytes, 3, pos + 1)
  BY <1>0, <1>2, OneMore
<1>4. did' = <<>> /\ utf8_state' = "state_initial"
  BY <1>1, Noted, NothingIsSequence DEF Stepping, decoder
<1>5. InControl'
  BY <1>0, <1>1, <1>2, <1>3, <1>4, StepFacts DEF InControl
<1>6. InItem' /\ UNCHANGED <<style, fault>>
  BY <1>5, Zenon DEF InItem
<1> QED BY <1>6, Onward

\* The byte that ends a control function without a style.
LEMMA Ended ==
  ASSUME Stepping, InControl, pos + 1 = Len(item.bytes), NoStyle(item),
         Does(item.does), UNCHANGED <<style, fault, decoder>>, escape_state' = "state_idle"
  PROVE  Outcome
<1>1. did' = item.does
  BY Noted DEF InControl, Stepping, Complete
<1>2. Rest' /\ UNCHANGED <<style, fault>>
  BY DEF InControl, Rest, decoder
<1> QED BY <1>1, <1>2, Finished

\* What a parameter and a final byte do.
LEMMA CsiBytes ==
  ASSUME NEW input, HandleCSI(input)
  PROVE  /\ UNCHANGED decoder
         /\ input \in 32 .. 63 =>
              /\ escape_buffer' = Append(escape_buffer, input)
              /\ Does(<<>>) /\ UNCHANGED <<escape_state, style, fault>>
         /\ input \in 64 .. 126 => Final(input) /\ escape_state' = "state_idle"
<1>1. /\ input \in 32 .. 63 => input \notin 64 .. 126 /\ input \in 32 .. 126
      /\ input \in 64 .. 126 => input \notin 32 .. 63 /\ input \in 32 .. 126
  OBVIOUS
<1> QED BY <1>1, Zenon DEF HandleCSI, Back

\* The parameters and the final byte of CSI.
LEMMA CsiStep ==
  ASSUME Stepping, InControl, IsCsi(item), pos > 1
  PROVE  Outcome
<1> DEFINE input == item.bytes[pos + 1]
<1>1. /\ Len(item.bytes) \in Nat /\ pos \in Nat /\ pos + 1 <= Len(item.bytes)
      /\ did = <<>> /\ utf8_state = "state_initial"
      /\ escape_state = "state_csi" /\ escape_buffer = SubSeq(item.bytes, 3, pos)
  BY Position, ControlShape, StepFacts DEF InControl, Stepping, Introduced
<1>2. HandleCSI(input)
  BY <1>1, StepFacts, Dispatch
<1>3. CASE pos + 1 # Len(item.bytes)
  <2>1. input \in 32 .. 63
    BY <1>1, <1>3 DEF IsCsi, BytesIn
  <2>2. escape_buffer' = Append(escape_buffer, input)
        /\ Does(<<>>) /\ UNCHANGED <<escape_state, style, fault, decoder>>
    BY <1>2, <2>1, CsiBytes
  <2> QED BY <1>3, <2>2, Appending
<1>4. CASE pos + 1 = Len(item.bytes)
  <2>1. input = Ending(item) /\ input \in 64 .. 126 /\ escape_buffer = Content(item)
    BY <1>1, <1>4 DEF IsCsi, Ending, Content
  <2>2. Final(input) /\ escape_state' = "state_idle" /\ UNCHANGED decoder
    BY <1>2, <2>1, CsiBytes
  <2>3. Does(item.does)
    BY <2>1, <2>2 DEF Final, IsCsi
  <2>4. CASE ~SetsStyle(item)
    <3>1. UNCHANGED <<style, fault>> /\ NoStyle(item)
      BY <2>1, <2>2, <2>4 DEF Final, SetsStyle, IsCsi
    <3> QED BY <1>4, <2>2, <2>3, <3>1, Ended
  <2>5. CASE SetsStyle(item)
    <3> DEFINE result == Sgr(current_style, Numbers(Content(item)))
    <3>1. SGR
      BY <2>1, <2>2, <2>5 DEF Final, SetsStyle
    <3>2. /\ result.throws <=> item.throws
          /\ ~item.throws =>
               FoldLeft(Ask, [now |-> current_style, saved |-> save_style], item.style)
                 = [now |-> result.style, saved |-> save_style]
      BY <2>5 DEF IsCsi
    <3> HIDE DEF result
    <3>3. current_style' = result.style /\ save_style' = save_style
          /\ fault' = IF result.throws THEN "throw" ELSE fault
      BY <2>1, <3>1 DEF SGR, result
    <3>4. CASE item.throws
      BY <3>2, <3>3, <3>4 DEF Outcome
    <3>5. CASE ~item.throws
      <4>1. wanted = Styles'
        BY <3>2, <3>3, <3>5 DEF Stepping, Styles
      <4>2. did' = item.does
        BY <1>1, <2>3, Noted DEF Stepping, Complete
      <4>3. Rest' /\ Between' /\ fault' = "none"
        BY <1>1, <1>4, <2>2, <3>2, <3>3, <3>5, StepFacts DEF Rest, decoder, Between, Stepping
      <4>4. Done'
        BY <3>5, <4>1, <4>2, <4>3, StepFacts DEF Done
      <4> QED BY <4>3, <4>4 DEF Outcome
    <3> QED BY <3>4, <3>5
  <2> QED BY <2>4, <2>5
<1> QED BY <1>3, <1>4

\* The byte before is in the buffer, so ST is seen when it is there.
LEMMA AfterEsc ==
  ASSUME Stepping, InControl, pos > 1, IsOsc(item) \/ IsDcs(item)
  PROVE  EndsWithEsc <=> pos > 2 /\ item.bytes[pos] = ESC
<1>1. escape_buffer = SubSeq(item.bytes, 3, pos) /\ pos \in Nat
  BY Position, StepFacts
<1>2. CASE pos = 2
  <2>1. escape_buffer = <<>>
    BY <1>1, <1>2, SubSeqEmpty
  <2> QED BY <1>2, <2>1 DEF EndsWithEsc
<1>3. CASE pos > 2
  <2>1. Len(escape_buffer) = pos - 2 /\ escape_buffer[pos - 2] = item.bytes[pos]
    BY <1>1, <1>3
  <2>2. escape_buffer # <<>>
    <3>1. pos - 2 # 0
      BY <1>1, <1>3
    <3> QED BY <2>1, <3>1
  <2> QED BY <1>3, <2>1, <2>2, Zenon DEF EndsWithEsc, Last
<1> QED BY <1>1, <1>2, <1>3

\* The content and the end of OSC.
LEMMA OscStep ==
  ASSUME Stepping, InControl, IsOsc(item), pos > 1
  PROVE  Outcome
<1> DEFINE input == item.bytes[pos + 1]
           n == Len(item.bytes)
<1>1. /\ n \in Nat /\ pos \in Nat /\ pos + 1 <= n
      /\ escape_state = "state_osc" /\ escape_buffer = SubSeq(item.bytes, 3, pos)
  BY Position, ControlShape, StepFacts DEF InControl, Stepping, Introduced
<1>2. ParseOsc(input)
  BY <1>1, StepFacts, Dispatch
<1>3. UNCHANGED <<style, fault, decoder>> /\ NoStyle(item)
  BY <1>2 DEF ParseOsc, IsOsc
<1>4. CASE pos + 1 # n
  <2>1. input \in Printable \cup {ESC} /\ ~(input = Backslash /\ EndsWithEsc)
    <3>1. CASE BytesIn(item, 3, n - 1, Printable)
      <4>1. input \in Printable
        BY <1>1, <1>4, <3>1 DEF BytesIn
      <4>2. pos > 2 => item.bytes[pos] \in Printable
        BY <1>1, <1>4, <3>1 DEF BytesIn
      <4> QED BY <4>1, <4>2, AfterEsc DEF Printable, ESC
    <3>2. CASE Closed(item)
      <4>1. pos + 1 = n - 1 => input = ESC
        BY <3>2 DEF Closed
      <4>2. pos + 1 < n - 1 => input \in Printable
        BY <1>1, <3>2 DEF Closed, BytesIn
      <4>3. pos > 2 => item.bytes[pos] \in Printable
        BY <1>1, <1>4, <3>2 DEF Closed, BytesIn
      <4>4. ~EndsWithEsc
        BY <4>3, AfterEsc DEF Printable, ESC
      <4> QED BY <1>1, <1>4, <4>1, <4>2, <4>4
    <3> QED BY <3>1, <3>2 DEF IsOsc
  <2>2. input # BEL
    BY <2>1 DEF Printable, BEL, ESC
  <2>3. escape_buffer' = Append(escape_buffer, input) /\ Does(<<>>) /\ UNCHANGED escape_state
    BY <1>2, <2>1, <2>2 DEF ParseOsc
  <2> QED BY <1>3, <1>4, <2>3, Appending
<1>5. CASE pos + 1 = n
  <2>1. input = Ending(item) /\ escape_buffer = Content(item)
    <3>1. pos = n - 1
      BY <1>1, <1>5
    <3> QED BY <1>1, <1>5, <3>1 DEF Ending, Content
  <2>2. Does(item.does) /\ escape_state' = "state_idle"
    <3>1. CASE Ending(item) = BEL /\ item.does = Clipboard(Content(item))
      BY <1>2, <2>1, <3>1 DEF ParseOsc, Back, BEL, Backslash, Printable, ESC
    <3>2. CASE Closed(item) /\ item.does = ColorReport(Content(item))
      <4>1. EndsWithEsc /\ input = Backslash
        <5>1. pos = n - 1 /\ n > 3
          BY <1>1, <1>5, <3>2 DEF Closed
        <5> QED BY <1>1, <2>1, <3>2, <5>1, AfterEsc DEF Closed
      <4> QED BY <1>2, <2>1, <3>2, <4>1 DEF ParseOsc, Back, BEL, Backslash, Printable, ESC
    <3> QED BY <3>1, <3>2 DEF IsOsc
  <2> QED BY <1>3, <1>5, <2>2, Ended
<1> QED BY <1>4, <1>5

\* The content and the end of DCS.
LEMMA DcsStep ==
  ASSUME Stepping, InControl, IsDcs(item), pos > 1
  PROVE  Outcome
<1> DEFINE input == item.bytes[pos + 1]
           n == Len(item.bytes)
<1>1. /\ n \in Nat /\ pos \in Nat /\ pos + 1 <= n
      /\ escape_state = "state_dcs" /\ Closed(item) /\ NoStyle(item) /\ item.does = <<>>
  BY Position, ControlShape, StepFacts DEF InControl, Stepping, Introduced, IsDcs
<1>2. ParseDcs(input)
  BY <1>1, StepFacts, Dispatch
<1>3. UNCHANGED <<style, fault, decoder>> /\ Does(<<>>)
  BY <1>2 DEF ParseDcs
<1>4. CASE pos + 1 # n
  <2>1. pos + 1 = n - 1 => input = ESC
    BY <1>1 DEF Closed
  <2>2. pos + 1 < n - 1 => input \in Printable
    BY <1>1 DEF Closed, BytesIn
  <2>3. pos > 2 => item.bytes[pos] \in Printable
    BY <1>1, <1>4 DEF Closed, BytesIn
  <2>4. ~EndsWithEsc
    BY <2>3, AfterEsc DEF Printable, ESC
  <2>5. input \in Printable \cup {ESC}
    BY <1>1, <1>4, <2>1, <2>2
  <2>6. escape_buffer' = Append(escape_buffer, input) /\ UNCHANGED escape_state
    BY <1>2, <2>4, <2>5 DEF ParseDcs
  <2> QED BY <1>3, <1>4, <2>6, Appending
<1>5. CASE pos + 1 = n
  <2>1. EndsWithEsc /\ input = Backslash
    <3>1. pos = n - 1 /\ n > 3
      BY <1>1, <1>5 DEF Closed
    <3> QED BY <1>1, <3>1, AfterEsc DEF Closed, Ending
  <2>2. escape_state' = "state_idle"
    BY <1>2, <2>1 DEF ParseDcs, Back
  <2> QED BY <1>1, <1>3, <1>5, <2>2, Ended
<1> QED BY <1>4, <1>5

LEMMA ControlStep ==
  ASSUME Stepping, InControl
  PROVE  Outcome
<1>1. pos \in Nat
  BY StepFacts
<1>2. CASE pos = 0
  BY <1>2, ControlStart
<1>3. CASE pos > 0 /\ IsEscape(item)
  <2>1. pos = 1
    BY <1>1, <1>3, ControlShape, StepFacts DEF InControl, Stepping
  <2> QED BY <1>3, <2>1, EscapeStep
<1>4. CASE pos > 0 /\ IsPrefixed(item)
  BY <1>4, PrefixedStep
<1>5. CASE pos = 1 /\ (IsCsi(item) \/ IsOsc(item) \/ IsDcs(item))
  BY <1>5, IntroducerStep
<1>6. CASE pos > 1 /\ (IsCsi(item) \/ IsOsc(item) \/ IsDcs(item))
  BY <1>6, CsiStep, OscStep, DcsStep
<1>7. IsEscape(item) \/ IsPrefixed(item) \/ IsCsi(item) \/ IsOsc(item) \/ IsDcs(item)
  BY DEF InControl, IsControl
<1>8. pos = 0 \/ (pos > 0 /\ (pos = 1 \/ pos > 1))
  BY <1>1
<1> QED BY <1>2, <1>3, <1>4, <1>5, <1>6, <1>7, <1>8
-----------------------------------------------------------------------------
(* Items one after another                                                 *)

\* An item without bytes means nothing.
LEMMA EmptyItem ==
  ASSUME NEW i, Complete(i), Len(i.bytes) = 0
  PROVE  i.does = <<>> /\ NoStyle(i)
<1>1. ~IsControl(i)
  BY ControlShape
<1>2. ~IsCharacter(i)
  <2> SUFFICES ASSUME IsCharacter(i) PROVE FALSE
    OBVIOUS
  <2>1. PICK c \in CodePoints : i.bytes = Encode(c)
    BY DEF IsCharacter
  <2>2. Len(Encode(c)) # 0
    BY Digits
  <2> QED BY <2>1, <2>2
<1>3. CASE IsText(i)
  <2>1. NoStyle(i) /\ i.does = [k \in 1 .. 0 |-> Shown(i.bytes[k])]
    BY <1>3 DEF IsText
  <2> QED BY <2>1
<1>4. CASE IsMalformed(i)
  BY <1>4 DEF IsMalformed
<1> QED BY <1>1, <1>2, <1>3, <1>4 DEF Complete

\* Whatever item it is.
LEMMA ItemStep ==
  ASSUME Stepping, InItem
  PROVE  Outcome
BY TextStep, MalformedStep, ControlStep, TwoStep, ThreeStep, FourStep DEF InItem

\* What is being written is complete.
LEMMA ItemIsComplete ==
  ASSUME ItemsAreComplete, item \in Items \cup {Silence}
  PROVE  /\ IsSequence(item.bytes)
         /\ item.bytes # <<>> => Complete(item)
<1>1. CASE item \in Items
  BY <1>1 DEF ItemsAreComplete, Complete
<1>2. CASE item = Silence
  <2>1. item.bytes = <<>>
    BY <1>2 DEF Silence
  <2> QED BY <2>1 DEF IsSequence
<1> QED BY <1>1, <1>2

LEMMA InitComplete == Init => CompleteInv
<1> SUFFICES ASSUME Init PROVE CompleteInv
  OBVIOUS
<1>1. /\ item = Silence /\ item.bytes = <<>> /\ item.does = <<>> /\ ~item.throws
      /\ pos = 0 /\ Len(item.bytes) = 0
  BY DEF Init, Silence
<1>2. Done /\ Rest /\ Between
  BY <1>1 DEF Init, Done, Rest, Styles, Between
<1> QED BY <1>1, <1>2 DEF CompleteInv, Init

\* A program begins an item at rest, and nothing is lost.
LEMMA WriteComplete ==
  ASSUME ItemsAreComplete, CompleteInv, Write
  PROVE  CompleteInv'
<1>1. /\ item' \in Items /\ pos' = 0 /\ did' = <<>> /\ fault = "none" /\ fault' = "none" /\ Between
      /\ lost' = IF lost = 0 \/ Resync THEN 0 ELSE lost + 1
      /\ lost' \in Nat
  BY DEF Write, CompleteInv
<1>2. /\ UNCHANGED <<escape_state, escape_buffer, utf8_state, current_utf8, current_style, save_style>>
  BY DEF Write, parser, style
<1>3. Complete(item') /\ IsSequence(item'.bytes) /\ Len(item'.bytes) \in Nat
  BY <1>1 DEF ItemsAreComplete, Complete, IsSequence
<1>4. ASSUME lost' = 0
      PROVE  IF Between' THEN Done' ELSE Going'
  <2>1. Rest
    <3>1. lost = 0 \/ Resync
      BY <1>1, <1>4 DEF CompleteInv
    <3>2. CASE lost = 0
      BY <1>1, <3>2 DEF CompleteInv, Done
    <3>3. CASE Resync
      BY <1>1, <3>3 DEF CompleteInv
    <3> QED BY <3>1, <3>2, <3>3
  <2>2. Rest' /\ Styles' = Styles
    BY <1>2, <2>1 DEF Rest, Styles
  <2>3. wanted' = FoldLeft(Ask, Styles', item'.style)
    <3>1. lost = 0 => wanted = Styles
      BY <1>1 DEF CompleteInv, Done
    <3>2. wanted' = FoldLeft(Ask, Styles, item'.style)
      BY <1>4, <3>1 DEF Write, Styles
    <3> QED BY <2>2, <3>2
  <2>4. CASE Between'
    <3>1. Len(item'.bytes) = 0
      BY <1>1, <2>4 DEF Between
    <3>2. item'.does = <<>> /\ item'.style = <<>> /\ ~item'.throws
      BY <1>3, <3>1, EmptyItem DEF NoStyle
    <3>3. wanted' = Styles'
      BY <2>3, <3>2, FoldNone
    <3> QED BY <1>1, <2>2, <2>4, <3>2, <3>3 DEF Done
  <2>5. CASE ~Between'
    <3>1. InItem'
      BY <1>1, <1>3, <2>2, Beginning
    <3> QED BY <2>3, <2>5, <3>1 DEF Going
  <2> QED BY <2>4, <2>5
<1>5. ~(Resync' /\ Between')
  <2>1. item'.bytes \in Seq({item'.bytes[k] : k \in 1 .. Len(item'.bytes)})
    BY <1>3, SequenceIsOne
  <2>2. Len(item'.bytes) = 0 => item'.bytes = <<>>
    BY <2>1
  <2> QED BY <1>1, <2>2 DEF Resync, Between
<1>6. pos' \in 0 .. Len(item'.bytes)
  BY <1>1, <1>3
<1>7. fault' # "throw"
  BY <1>1
<1> QED BY <1>1, <1>4, <1>5, <1>6, <1>7 DEF CompleteInv

\* The next byte.
LEMMA ParseComplete ==
  ASSUME ItemsAreComplete, IInv, CompleteInv, ParseNext
  PROVE  CompleteInv'
<1>1. /\ item' = item /\ lost' = lost /\ wanted' = wanted /\ pos' = pos + 1
      /\ fault = "none" /\ ~Between
  BY DEF ParseNext
<1>2. /\ item \in Items \cup {Silence} /\ IsSequence(item.bytes) /\ Len(item.bytes) \in Nat
      /\ pos \in Nat /\ pos < Len(item.bytes) /\ lost \in Nat
  BY <1>1, ItemIsComplete DEF CompleteInv, IsSequence, Between
<1>3. Complete(item)
  <2>1. item.bytes # <<>>
    BY <1>2
  <2> QED BY <1>2, <2>1, ItemIsComplete
<1> DEFINE Good == IF Between THEN Done ELSE Going
<1>5. ASSUME lost = 0
      PROVE  (fault' = "none" /\ Good') \/ (fault' = "throw" /\ item.throws)
  <2>1. Going
    BY <1>1, <1>5 DEF CompleteInv
  <2>2. Stepping
    BY <1>1, <1>2, <1>3, <1>5, <2>1 DEF Stepping, Going, CompleteInv
  <2>3. Outcome
    BY <2>1, <2>2, ItemStep DEF Going
  <2> QED BY <2>3 DEF Outcome
<1>6. Resync' /\ Between' => Rest'
  <2> SUFFICES ASSUME Resync, pos + 1 = Len(item.bytes) PROVE Rest'
    BY <1>1 DEF Resync, Between
  <2>1. item.bytes[pos + 1] = LF
    BY DEF Resync, Last
  <2>2. Next /\ ~UNCHANGED vars
    <3>1. pos' # pos
      BY <1>1, <1>2
    <3> QED BY <3>1 DEF Next, vars
  <2> QED BY <2>1, <2>2, LineFeed DEF Rest
<1>7. pos' \in 0 .. Len(item'.bytes)
  BY <1>1, <1>2
<1> HIDE DEF Good
<1>8. fault' = "throw" => item'.throws \/ lost' > 0
  BY <1>1, <1>2, <1>5
<1>9. fault' = "none" /\ lost' = 0 => Good'
  BY <1>1, <1>5
<1> QED BY <1>1, <1>2, <1>6, <1>7, <1>8, <1>9 DEF CompleteInv, Good

\* An exit, after which something is lost, and a step of nobody.
LEMMA ExitComplete ==
  ASSUME CompleteInv, ProgramExit
  PROVE  CompleteInv'
<1>1. /\ item' = Silence /\ pos' = 0 /\ lost' = lost + 1 /\ fault' = "none"
  BY DEF ProgramExit
<1>2. lost' \in Nat /\ lost' > 0
  BY <1>1 DEF CompleteInv
<1>3. ~Resync' /\ pos' \in 0 .. Len(item'.bytes)
  BY <1>1 DEF Resync, Silence
<1> QED BY <1>1, <1>2, <1>3 DEF CompleteInv

LEMMA StutterComplete ==
  ASSUME CompleteInv, UNCHANGED vars
  PROVE  CompleteInv'
<1>1. /\ UNCHANGED <<escape_state, escape_buffer, utf8_state, current_utf8, current_style, save_style>>
      /\ UNCHANGED <<fault, item, pos, did, wanted, lost>>
  BY DEF vars, parser, style
<1>2. (Between' <=> Between) /\ (Done' <=> Done) /\ (Rest' <=> Rest) /\ (Resync' <=> Resync)
      /\ Styles' = Styles
  BY <1>1 DEF Between, Done, Rest, Resync, Styles
<1>3. InItem => InItem'
  <2>1. /\ InText => InText'
        /\ InMalformed => InMalformed'
        /\ InControl => InControl'
    BY <1>1, <1>2 DEF InText, InMalformed, InControl
  <2>2. /\ \A a, b : Two(a, b) => Two(a, b)'
        /\ \A a, b, d : Three(a, b, d) => Three(a, b, d)'
        /\ \A a, b, d, e : Four(a, b, d, e) => Four(a, b, d, e)'
    BY <1>1 DEF Two, Three, Four, Printing, Begun, At
  <2>3. /\ InTwo => InTwo'
        /\ InThree => InThree'
        /\ InFour => InFour'
    BY <2>2 DEF InTwo, InThree, InFour
  <2> QED BY <2>1, <2>3 DEF InItem
<1>4. Going => Going'
  BY <1>1, <1>2, <1>3 DEF Going
<1> QED BY <1>1, <1>2, <1>4 DEF CompleteInv

\* The two invariants together.
LEMMA ItemsUnderstood ==
  ASSUME ItemsAreComplete
  PROVE  Spec => [](IInv /\ CompleteInv)
<1>1. Init => IInv /\ CompleteInv
  BY InitIInv, InitComplete
<1>2. IInv /\ CompleteInv /\ [Next]_vars => IInv' /\ CompleteInv'
  <2> SUFFICES ASSUME IInv, CompleteInv, [Next]_vars PROVE IInv' /\ CompleteInv'
    OBVIOUS
  <2>1. IInv'
    BY NextIInv
  <2>2. CompleteInv'
    BY WriteComplete, ParseComplete, ExitComplete, StutterComplete DEF Next
  <2> QED BY <2>1, <2>2
<1> QED BY <1>1, <1>2, PTL DEF Spec

\* Whatever complete items programs write, in any order, wherever they exit: an item
\* that begins with nothing unfinished before it does what it means and nothing else,
\* and the style is what the programs asked for.  CSI ? 25 l and the answer to OSC 11
\* are not among the items: the code and its comments disagree about them.
THEOREM ItemsAreUnderstood ==
  ASSUME ItemsAreComplete
  PROVE  Spec => []Understood
<1>1. CompleteInv => Understood
  BY DEF CompleteInv, Understood, Done, Rest, Styles
<1> QED BY <1>1, ItemsUnderstood, PTL

\* std::stoi throws only at a colour whose number is missing or no int, or after a
\* program has left an item unfinished.
THEOREM CompleteItemsThrowAsWritten ==
  ASSUME ItemsAreComplete
  PROVE  Spec => []ThrowsAsWritten
<1>1. CompleteInv => ThrowsAsWritten
  BY DEF CompleteInv, ThrowsAsWritten
<1> QED BY <1>1, ItemsUnderstood, PTL
=============================================================================
