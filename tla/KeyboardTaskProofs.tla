-------------------------- MODULE KeyboardTaskProofs --------------------------
(***************************************************************************)
(* Whatever bytes the keyboard sends, the buffer of the current sequence   *)
(* does not overflow and only known lengths are translated.  The bytes     *)
(* collected so far decide which lengths are still possible: the inductive *)
(* invariant lists them.                                                   *)
(*                                                                         *)
(* The second part is about streams from which no byte is lost: they are   *)
(* cut into the events that were typed, for any number of events under way *)
(* and any size of the queue.                                              *)
(***************************************************************************)
EXTENDS KeyboardTask, KeyboardStart, InductionProofs, SequenceTheorems, TLAPS

\* The part of the types that the argument needs.
StateTypeOK ==
  /\ kbd_state \in {RESET, WAIT_SCAN, READ_MORE, TRANSLATE}
  /\ scancodes \in Seq(Byte)
  /\ need \in Nat
  /\ queue \in Seq(Byte)
  /\ wire \in Seq(Byte)

\* What read_more relies on, by the length the sequence is taken to have: 8
\* for pause, 4 and 6 for print screen, 2 and 3 for all others.
ReadMoreInv ==
  /\ len >= 1 /\ need >= 1
  /\ \/ len + need = 2 /\ scancodes[1] \in {E0, F0}
     \/ len + need = 3 /\ len = 2 /\ scancodes[1] = E0
     \/ len + need = 4 /\ len >= 2 /\ scancodes[1] = E0
     \/ len + need = 6 /\ len >= 3
     \/ len + need = 8 /\ scancodes[1] = E1

\* The inductive invariant.  Outside read_more nothing is awaited.
IInv ==
  /\ StateTypeOK
  /\ kbd_state = READ_MORE => ReadMoreInv
  /\ kbd_state # READ_MORE => need = 0
  /\ LengthIsKnown

\* Appending a byte to the bytes collected so far.
LEMMA AppendByte ==
  ASSUME NEW s \in Seq(Byte), NEW b \in Byte
  PROVE  /\ Append(s, b) \in Seq(Byte)
         /\ Len(Append(s, b)) = Len(s) + 1
         /\ Append(s, b)[Len(s) + 1] = b
         /\ Len(s) >= 1 => Append(s, b)[1] = s[1]
  BY AppendProperties, LenProperties DEF Byte

\* The task is in a fresh state.
LEMMA InitInv == Init => IInv
  BY DEF Init, IInv, StateTypeOK, LengthIsKnown, RESET, WAIT_SCAN, READ_MORE, TRANSLATE

\* Taking a byte out of the queue.
LEMMA TakenByte ==
  ASSUME StateTypeOK, ps2driver_read
  PROVE  Head(queue) \in Byte /\ queue' \in Seq(Byte)
  BY HeadTailProperties DEF StateTypeOK, ps2driver_read

\* The bytes collected after a step of read_more satisfy the invariant again.
LEMMA ReadMoreStep ==
  ASSUME IInv, keyboard_state_read_more
  PROVE  IInv'
<1> DEFINE b == Head(queue)
<1>1. b \in Byte /\ queue' \in Seq(Byte) /\ wire' = wire
  BY TakenByte DEF IInv, keyboard_state_read_more
<1>2. /\ scancodes' \in Seq(Byte)
      /\ Len(scancodes') = Len(scancodes) + 1
      /\ Len(scancodes) >= 1 => scancodes'[1] = scancodes[1]
  BY <1>1, AppendByte DEF IInv, StateTypeOK, keyboard_state_read_more
<1>3. Len(scancodes) \in Nat /\ need \in Nat
  BY LenProperties DEF IInv, StateTypeOK
<1>4. ReadMoreInv
  BY DEF IInv, keyboard_state_read_more
<1>5. need' = StillNeeded(scancodes', need - 1)
  BY DEF keyboard_state_read_more
<1>6. kbd_state' = IF need' = 0 THEN TRANSLATE ELSE READ_MORE
  BY DEF keyboard_state_read_more
<1>7. need' \in Nat
  BY <1>3, <1>4, <1>5 DEF StillNeeded, ReadMoreInv
<1>8. need' # 0 => ReadMoreInv'
  BY <1>2, <1>3, <1>4, <1>5 DEF StillNeeded, ReadMoreInv, len, E0, E1, F0
<1>9. need' = 0 => len' \in {1, 2, 3, 4, 6, 8}
  BY <1>2, <1>3, <1>4, <1>5 DEF StillNeeded, ReadMoreInv, len, E0, E1, F0
<1>10. StateTypeOK'
  BY <1>1, <1>2, <1>6, <1>7 DEF IInv, StateTypeOK
<1> QED
  BY <1>6, <1>8, <1>9, <1>10 DEF IInv, LengthIsKnown, READ_MORE, TRANSLATE

\* The first byte decides whether more are needed.
LEMMA WaitScanStep ==
  ASSUME IInv, keyboard_state_wait_scan
  PROVE  IInv'
<1> DEFINE b == Head(queue)
<1>1. b \in Byte /\ queue' \in Seq(Byte) /\ wire' = wire
  BY TakenByte DEF IInv, keyboard_state_wait_scan
<1>2. scancodes' = <<b>>
  BY DEF keyboard_state_wait_scan
<1>3. scancodes' \in Seq(Byte) /\ len' = 1 /\ scancodes'[1] = b
  BY <1>1, <1>2 DEF len
<1>4. need = 0
  BY DEF IInv, keyboard_state_wait_scan, WAIT_SCAN, READ_MORE
<1>5. /\ need' = IF b \in {E0, F0} THEN 1 ELSE IF b = E1 THEN 7 ELSE need
      /\ kbd_state' = IF b \in {E0, F0, E1} THEN READ_MORE ELSE TRANSLATE
  BY DEF keyboard_state_wait_scan
<1>6. StateTypeOK'
  BY <1>1, <1>3, <1>4, <1>5 DEF IInv, StateTypeOK
<1>7. kbd_state' = READ_MORE => ReadMoreInv'
  BY <1>3, <1>5 DEF ReadMoreInv, E0, E1, F0, READ_MORE, TRANSLATE
<1>8. kbd_state' # READ_MORE => need' = 0
  BY <1>4, <1>5 DEF READ_MORE, TRANSLATE, E0, E1, F0
<1>9. LengthIsKnown'
  BY <1>3 DEF LengthIsKnown
<1> QED
  BY <1>6, <1>7, <1>8, <1>9 DEF IInv

\* Every step preserves the invariant.
LEMMA NextInv == IInv /\ [Next]_vars => IInv'
<1> SUFFICES ASSUME IInv, [Next]_vars PROVE IInv'
  OBVIOUS
<1>1. ASSUME NEW e \in Events, Type(e) PROVE IInv'
  <2>1. wire' \in Seq(Byte)
    BY <1>1, KeyboardTaskAssumption, ConcatProperties DEF IInv, StateTypeOK, Type
  <2> QED
    BY <1>1, <2>1 DEF IInv, StateTypeOK, Type, kbd_seq, LengthIsKnown, ReadMoreInv, len
<1>2. ASSUME NEW b \in Reports, Report(b) PROVE IInv'
  <2>1. wire' \in Seq(Byte)
    BY <1>2, KeyboardTaskAssumption, AppendProperties DEF IInv, StateTypeOK, Report
  <2> QED
    BY <1>2, <2>1 DEF IInv, StateTypeOK, Report, kbd_seq, LengthIsKnown, ReadMoreInv, len
<1>3. ASSUME keyboard_recv PROVE IInv'
  <2>1. wire' \in Seq(Byte) /\ Head(wire) \in Byte
    BY <1>3, HeadTailProperties DEF IInv, StateTypeOK, keyboard_recv
  <2>2. Append(queue, Head(wire)) \in Seq(Byte) /\ queue \in Seq(Byte)
    BY <2>1, AppendByte DEF IInv, StateTypeOK
  <2>3. queue' \in Seq(Byte)
    BY <1>3, <2>2 DEF keyboard_recv
  <2> QED
    BY <1>3, <2>1, <2>3
    DEF IInv, StateTypeOK, keyboard_recv, kbd_seq, LengthIsKnown, ReadMoreInv, len
<1>4. ASSUME keyboard_state_reset PROVE IInv'
  <2>1. StateTypeOK'
    BY <1>4 DEF IInv, StateTypeOK, keyboard_state_reset
  <2> QED
    BY <1>4, <2>1
    DEF IInv, keyboard_state_reset, LengthIsKnown, WAIT_SCAN, READ_MORE, TRANSLATE
<1>5. ASSUME keyboard_state_translate PROVE IInv'
  <2>1. /\ kbd_state' = WAIT_SCAN
        /\ UNCHANGED <<scancodes, need, queue, wire>>
    BY <1>5 DEF keyboard_state_translate, kbd_seq
  <2>2. need = 0
    BY <1>5 DEF IInv, keyboard_state_translate, READ_MORE, TRANSLATE
  <2> QED
    BY <2>1, <2>2
    DEF IInv, StateTypeOK, LengthIsKnown, WAIT_SCAN, READ_MORE, TRANSLATE
<1>6. CASE UNCHANGED vars
  BY <1>6 DEF IInv, StateTypeOK, vars, kbd_seq, LengthIsKnown, ReadMoreInv, len
<1> QED
  BY <1>1, <1>2, <1>3, <1>4, <1>5, <1>6, ReadMoreStep, WaitScanStep DEF Next, keyboard_task

\* The invariant holds in every behaviour of the task.
THEOREM Invariance == Spec => []IInv
  BY InitInv, NextInv, PTL DEF Spec

\* For every stream of bytes, keyboard_state_read_more() writes inside
\* scancodes[8], although it can raise the number of awaited bytes twice.
THEOREM BufferIsNeverOverrun == Spec => []SequenceFits
<1>1. IInv => SequenceFits
  BY LenProperties DEF IInv, StateTypeOK, ReadMoreInv, SequenceFits, SeqSize, len
<1> QED
  BY <1>1, Invariance, PTL

\* For every stream of bytes, keyboard_state_translate() never reaches its
\* "unknown sequence len" branch.
THEOREM OnlyKnownLengths == Spec => []LengthIsKnown
<1>1. IInv => LengthIsKnown
  BY DEF IInv
<1> QED
  BY <1>1, Invariance, PTL

-----------------------------------------------------------------------------
(* Streams without losses *)

\* The bytes s are the sequences of the events ty, one after the other: event
\* k ends with byte off[k].
CutAt(off, s, ty) ==
  /\ off \in [0..Len(ty) -> Nat]
  /\ off[0] = 0 /\ off[Len(ty)] = Len(s)
  /\ \A k \in 0..Len(ty) : off[k] <= Len(s)
  /\ \A k \in 1..Len(ty) :
       /\ off[k] = off[k - 1] + Len(ty[k].seq)
       /\ \A j \in 1..Len(ty[k].seq) : s[off[k - 1] + j] = ty[k].seq[j]

Cut(s, ty) == \E off : CutAt(off, s, ty)

\* What was taken out of the queue for the sequence under way.
Collecting == kbd_state \in {READ_MORE, TRANSLATE}

held == IF Collecting THEN scancodes ELSE <<>>

\* All bytes sent and not translated yet.
stream == held \o (queue \o wire)

\* How many bytes the task believes are missing after the first n bytes of
\* seq: before it knows the length, it asks for one more.
Missing(seq, n) ==
  IF n = 1 THEN IF seq[1] = E1 THEN 7 ELSE 1
  ELSE IF n = 2 /\ Len(seq) = 6 THEN 1 ELSE Len(seq) - n

\* As long as the stream is intact, it consists of the events typed, and the
\* task is at the right place of the first one.
StreamInv ==
  /\ typed \in Seq(Events)
  /\ Cut(stream, typed)
  /\ Collecting => len >= 1
  /\ kbd_state = READ_MORE =>
       /\ len < Len(typed[1].seq)
       /\ need = Missing(typed[1].seq, len)
  /\ kbd_state = TRANSLATE => len = Len(typed[1].seq)

\* The last lengths add up to the distance to the end.
LEMMA LastBytesAre ==
  ASSUME NEW s, NEW ty \in Seq(Events), NEW off, CutAt(off, s, ty), NEW k \in 0..Len(ty)
  PROVE  LastBytes(ty, k) = off[Len(ty)] - off[Len(ty) - k]
<1> DEFINE b[j \in 0..k] == IF j = 0 THEN 0 ELSE b[j - 1] + Len(ty[Len(ty) + 1 - j].seq)
           h == [j \in 0..k |-> off[Len(ty)] - off[Len(ty) - j]]
           D == {j \in 0..k : b[j] # h[j]}
<1>0. Len(ty) \in Nat /\ off \in [0..Len(ty) -> Nat]
  BY DEF CutAt
<1>1. ASSUME NEW j \in 0..k, j # 0
      PROVE  h[j] = h[j - 1] + Len(ty[Len(ty) + 1 - j].seq)
  <2>1. Len(ty) + 1 - j \in 1..Len(ty) /\ j - 1 \in 0..k
    BY <1>0, <1>1
  <2>2. off[Len(ty) + 1 - j] = off[Len(ty) + 1 - j - 1] + Len(ty[Len(ty) + 1 - j].seq)
    <3> DEFINE u == Len(ty) + 1 - j
    <3>1. u \in 1..Len(ty)
      BY <2>1
    <3> HIDE DEF u
    <3>2. off[u] = off[u - 1] + Len(ty[u].seq)
      BY <3>1 DEF CutAt
    <3> QED
      BY <3>2 DEF u
  <2>3. Len(ty) + 1 - j - 1 = Len(ty) - j /\ Len(ty) - (j - 1) = Len(ty) + 1 - j
    BY <1>0, <2>1
  <2>4. off[Len(ty)] \in Nat /\ off[Len(ty) - j] \in Nat /\ off[Len(ty) + 1 - j] \in Nat
    BY <1>0, <2>1
  <2>5. ty[Len(ty) + 1 - j] \in Events
    BY <2>1
  <2>6. Len(ty[Len(ty) + 1 - j].seq) \in Nat
    BY <2>5, KeyboardTaskAssumption, LenProperties
  <2> QED
    BY <2>1, <2>2, <2>3, <2>4, <2>6
<1>2. h[0] = 0
  BY <1>0
<1>3. h = [j \in 0..k |-> IF j = 0 THEN 0 ELSE h[j - 1] + Len(ty[Len(ty) + 1 - j].seq)]
  <2> HIDE DEF h
  <2>1. h = [j \in 0..k |-> h[j]]
    BY DEF h
  <2> QED
    BY <1>1, <1>2, <2>1
<1>4. b = [j \in 0..k |-> IF j = 0 THEN 0 ELSE b[j - 1] + Len(ty[Len(ty) + 1 - j].seq)]
  <2> HIDE DEF h
  <2> QED
    BY <1>3
<1> HIDE DEF b, h
<1>5. D = {}
  <2> SUFFICES ASSUME D # {} PROVE FALSE
    OBVIOUS
  <2>1. PICK m \in D : \A y \in D : m <= y
    <3> HIDE DEF D
    <3>1. D \subseteq Nat
      BY DEF D
    <3> QED
      BY <3>1, LeastNatural
  <2>2. m # 0
    BY <1>2, <1>4
  <2>3. m - 1 \in 0..k /\ m - 1 \notin D
    BY <2>1, <2>2
  <2>4. b[m - 1] = h[m - 1]
    BY <2>3
  <2> QED
    BY <1>1, <1>4, <2>2, <2>4
<1>6. b[k] = h[k]
  BY <1>5
<1>7. h[k] = off[Len(ty)] - off[Len(ty) - k]
  BY DEF h
<1> QED
  BY <1>6, <1>7 DEF LastBytes, b

\* An event typed adds its bytes.
LEMMA CutAppend ==
  ASSUME NEW s \in Seq(Byte), NEW ty \in Seq(Events), Cut(s, ty), NEW e \in Events
  PROVE  Cut(s \o e.seq, Append(ty, e))
<1>1. PICK off : CutAt(off, s, ty)
  BY DEF Cut
<1> DEFINE n == Len(ty)
           ty2 == Append(ty, e)
           s2 == s \o e.seq
           off2 == [k \in 0..(n + 1) |-> IF k = n + 1 THEN Len(s2) ELSE off[k]]
<1>2. e.seq \in Seq(Byte) /\ Len(e.seq) \in Nat /\ n \in Nat /\ Len(s) \in Nat
  BY KeyboardTaskAssumption, LenProperties
<1>3. /\ Len(ty2) = n + 1 /\ ty2[n + 1] = e
      /\ \A k \in 1..n : ty2[k] = ty[k]
  BY AppendProperties
<1>4. /\ Len(s2) = Len(s) + Len(e.seq)
      /\ \A i \in 1..Len(s) : s2[i] = s[i]
      /\ \A i \in 1..Len(e.seq) : s2[Len(s) + i] = e.seq[i]
  BY <1>2, ConcatProperties
<1>5. \A k \in 1..n : ty[k] \in Events /\ Len(ty[k].seq) \in Nat
  <2> SUFFICES ASSUME NEW k \in 1..n PROVE ty[k] \in Events /\ Len(ty[k].seq) \in Nat
    OBVIOUS
  <2>1. ty[k] \in Events
    OBVIOUS
  <2> QED
    BY <2>1, KeyboardTaskAssumption, LenProperties
<1>6. /\ off \in [0..n -> Nat] /\ off[0] = 0 /\ off[n] = Len(s)
      /\ \A k \in 0..n : off[k] <= Len(s)
      /\ \A k \in 1..n : off[k] = off[k - 1] + Len(ty[k].seq)
      /\ \A k \in 1..n : \A j \in 1..Len(ty[k].seq) : s[off[k - 1] + j] = ty[k].seq[j]
  BY <1>1 DEF CutAt
<1> HIDE DEF n, ty2, s2
<1>7. off2 \in [0..(n + 1) -> Nat] /\ off2[0] = 0 /\ off2[n + 1] = Len(s2)
  BY <1>2, <1>4, <1>6
<1>8. \A k \in 0..(n + 1) : off2[k] <= Len(s2)
  BY <1>2, <1>4, <1>6
<1>9. \A k \in 0..n : off2[k] = off[k]
  BY <1>2
<1>10. ASSUME NEW k \in 1..(n + 1)
      PROVE  /\ off2[k] = off2[k - 1] + Len(ty2[k].seq)
             /\ \A j \in 1..Len(ty2[k].seq) : s2[off2[k - 1] + j] = ty2[k].seq[j]
  <2>1. CASE k = n + 1
    <3>1. off2[k - 1] = Len(s)
      BY <1>2, <1>6, <1>9, <2>1
    <3> QED
      BY <1>2, <1>3, <1>4, <1>7, <2>1, <3>1
  <2>2. CASE k # n + 1
    <3> HIDE DEF off2
    <3>1. k \in 1..n /\ k \in 0..n /\ k - 1 \in 0..n
      BY <1>2, <2>2
    <3>2. off2[k] = off[k] /\ off2[k - 1] = off[k - 1] /\ ty2[k] = ty[k]
      BY <1>3, <1>9, <3>1
    <3>3. off[k] = off[k - 1] + Len(ty[k].seq) /\ off[k] <= Len(s)
      BY <1>6, <3>1
    <3>4. ASSUME NEW j \in 1..Len(ty[k].seq)
          PROVE  s2[off[k - 1] + j] = ty[k].seq[j]
      <4>1. off[k - 1] \in Nat /\ Len(ty[k].seq) \in Nat
        BY <1>5, <1>6, <3>1
      <4>2. off[k - 1] + j \in 1..Len(s)
        BY <1>2, <3>3, <4>1
      <4> QED
        BY <1>4, <1>6, <3>1, <4>2
    <3> QED
      BY <3>2, <3>3, <3>4
  <2> QED
    BY <2>1, <2>2
<1> HIDE DEF off2
<1>11. CutAt(off2, s2, ty2)
  BY <1>3, <1>7, <1>8, <1>10 DEF CutAt
<1> QED
  BY <1>11 DEF Cut, s2, ty2

\* The first m events are the bytes of q, and ty2 are the events after them.
Drops(off, q, w, ty, m, ty2) ==
  /\ CutAt(off, q \o w, ty)
  /\ m \in 0..Len(ty) /\ off[m] = Len(q)
  /\ \A k \in m..Len(ty) : Len(q) <= off[k]
  /\ Len(ty2) = Len(ty) - m
  /\ \A k \in 1..Len(ty2) : ty2[k] = ty[m + k]

\* Whole events are taken from the front.
LEMMA CutDrop ==
  ASSUME NEW q \in Seq(Byte), NEW w \in Seq(Byte), NEW ty \in Seq(Events),
         NEW off, NEW m, NEW ty2, Drops(off, q, w, ty, m, ty2)
  PROVE  Cut(w, ty2)
<1>0. /\ CutAt(off, q \o w, ty)
      /\ m \in 0..Len(ty) /\ off[m] = Len(q)
      /\ \A k \in m..Len(ty) : Len(q) <= off[k]
      /\ Len(ty2) = Len(ty) - m
      /\ \A k \in 1..Len(ty2) : ty2[k] = ty[m + k]
  BY DEF Drops
<1> USE <1>0
<1> DEFINE n == Len(ty)
           off2 == [k \in 0..(n - m) |-> off[m + k] - Len(q)]
<1>1. n \in Nat /\ Len(q) \in Nat /\ Len(w) \in Nat /\ m \in 0..n
  BY LenProperties
<1>2. /\ Len(q \o w) = Len(q) + Len(w)
      /\ \A i \in 1..Len(w) : (q \o w)[Len(q) + i] = w[i]
  BY ConcatProperties, <1>1
<1>5. \A k \in 1..n : ty[k] \in Events /\ Len(ty[k].seq) \in Nat
  <2> SUFFICES ASSUME NEW k \in 1..n PROVE ty[k] \in Events /\ Len(ty[k].seq) \in Nat
    OBVIOUS
  <2>1. ty[k] \in Events
    OBVIOUS
  <2> QED
    BY <2>1, KeyboardTaskAssumption, LenProperties
<1>6. /\ off \in [0..n -> Nat] /\ off[n] = Len(q) + Len(w)
      /\ \A k \in 0..n : off[k] <= Len(q) + Len(w)
      /\ \A k \in 1..n : off[k] = off[k - 1] + Len(ty[k].seq)
      /\ \A k \in 1..n : \A j \in 1..Len(ty[k].seq) : (q \o w)[off[k - 1] + j] = ty[k].seq[j]
  BY <1>2 DEF CutAt
<1>7. /\ off2 \in [0..(n - m) -> Nat]
      /\ off2[0] = 0 /\ off2[n - m] = Len(w)
      /\ \A k \in 0..(n - m) : off2[k] <= Len(w)
  <2> SUFFICES ASSUME NEW k \in 0..(n - m)
               PROVE  off2[k] \in Nat /\ off2[k] <= Len(w)
    <3>1. off2[0] = 0 /\ off2[n - m] = Len(w)
      BY <1>1, <1>6
    <3> QED
      BY <3>1
  <2>1. m + k \in m..n /\ m + k \in 0..n
    BY <1>1
  <2>2. off[m + k] \in Nat /\ off[m + k] >= Len(q) /\ off[m + k] <= Len(q) + Len(w)
    BY <1>6, <2>1
  <2> QED
    BY <1>1, <2>2
<1>8. ASSUME NEW k \in 1..(n - m)
      PROVE  /\ off2[k] = off2[k - 1] + Len(ty2[k].seq)
             /\ \A j \in 1..Len(ty2[k].seq) : w[off2[k - 1] + j] = ty2[k].seq[j]
  <2> DEFINE i == m + k
             a == off[i - 1]
             c == Len(ty[i].seq)
  <2>1. /\ i \in 1..n /\ i \in 0..n /\ i - 1 \in 0..n /\ i - 1 \in m..n
        /\ m + (k - 1) = i - 1 /\ k \in 0..(n - m) /\ k - 1 \in 0..(n - m)
        /\ k \in 1..Len(ty2)
    BY <1>1
  <2>2. ty2[k] = ty[i]
    BY <2>1
  <2>3. off2[k] = off[i] - Len(q) /\ off2[k - 1] = a - Len(q)
    BY <2>1
  <2> HIDE DEF off2, i
  <2>4. off[i] = a + c /\ \A j \in 1..c : (q \o w)[a + j] = ty[i].seq[j]
    BY <1>6, <2>1, Zenon
  <2>5. a \in Nat /\ off[i] \in Nat /\ off[i] <= Len(q) + Len(w)
    BY <1>6, <2>1
  <2>6. c \in Nat
    BY <1>5, <2>1, Zenon
  <2>7. Len(q) <= a
    BY <2>1, Zenon
  <2> HIDE DEF a, c, n
  <2>9. ASSUME NEW j \in 1..c
        PROVE  w[off2[k - 1] + j] = ty[i].seq[j]
    <3>1. off2[k - 1] + j \in 1..Len(w) /\ Len(q) + (off2[k - 1] + j) = a + j
      BY <1>1, <2>3, <2>4, <2>5, <2>6, <2>7
    <3> QED
      BY <1>2, <2>4, <3>1
  <2>10. off2[k] = off2[k - 1] + c
    BY <1>1, <2>3, <2>4, <2>5, <2>6
  <2> QED
    BY <2>2, <2>9, <2>10 DEF c
<1> HIDE DEF off2
<1>9. CutAt(off2, w, ty2)
  BY <1>7, <1>8 DEF CutAt
<1> QED
  BY <1>9 DEF Cut

\* The ends of the events are in order.
LEMMA CutMonotonic ==
  ASSUME NEW s, NEW ty \in Seq(Events), NEW off, CutAt(off, s, ty), NEW m \in 0..Len(ty)
  PROVE  \A k \in m..Len(ty) : off[m] <= off[k]
<1> DEFINE n == Len(ty)
           D == {k \in m..n : ~ (off[m] <= off[k])}
<1>1. n \in Nat /\ m \in 0..n /\ off \in [0..n -> Nat]
  BY LenProperties DEF CutAt
<1>2. ASSUME NEW k \in 1..n PROVE off[k - 1] <= off[k]
  <2>1. ty[k] \in Events
    OBVIOUS
  <2>2. Len(ty[k].seq) \in Nat
    BY <2>1, KeyboardTaskAssumption, LenProperties
  <2>3. off[k] = off[k - 1] + Len(ty[k].seq)
    BY DEF CutAt
  <2>4. off[k - 1] \in Nat
    BY <1>1
  <2> QED
    BY <2>2, <2>3, <2>4
<1> HIDE DEF n
<1>3. D = {}
  <2> SUFFICES ASSUME D # {} PROVE FALSE
    OBVIOUS
  <2>1. D \subseteq Nat
    BY <1>1
  <2>2. PICK x \in D : \A y \in D : x <= y
    <3> HIDE DEF D
    <3> QED
      BY <2>1, LeastNatural
  <2>3. x # m
    BY <1>1
  <2>4. x \in 1..n /\ x - 1 \in m..n /\ x - 1 \notin D
    BY <1>1, <2>2, <2>3
  <2>5. off[m] <= off[x - 1] /\ off[x - 1] <= off[x] /\ ~ (off[m] <= off[x])
    BY <1>2, <2>4
  <2>6. off[m] \in Nat /\ off[x - 1] \in Nat /\ off[x] \in Nat
    BY <1>1, <2>4
  <2> QED
    BY <2>5, <2>6
<1> QED
  BY <1>3 DEF n

\* A stream that is not empty begins with the sequence of the first event.
LEMMA CutHead ==
  ASSUME NEW s \in Seq(Byte), NEW ty \in Seq(Events), Cut(s, ty), Len(s) >= 1
  PROVE  /\ Len(ty) >= 1 /\ ty # <<>> /\ ty[1] \in Events /\ Head(ty) = ty[1]
         /\ Len(ty[1].seq) <= Len(s)
         /\ \A j \in 1..Len(ty[1].seq) : s[j] = ty[1].seq[j]
<1>1. PICK off : CutAt(off, s, ty)
  BY DEF Cut
<1>2. Len(ty) \in Nat /\ off[0] = 0 /\ off[Len(ty)] = Len(s)
  BY <1>1, LenProperties DEF CutAt
<1>3. Len(ty) >= 1 /\ 1 \in 1..Len(ty) /\ 1 \in 0..Len(ty) /\ 1 - 1 = 0
  BY <1>2
<1>4. ty[1] \in Events /\ ty # <<>> /\ Head(ty) = ty[1]
  BY <1>3
<1>5. Len(ty[1].seq) \in Nat
  BY <1>4, KeyboardTaskAssumption, LenProperties
<1>6. /\ off[1] = off[0] + Len(ty[1].seq) /\ off[1] <= Len(s)
      /\ \A j \in 1..Len(ty[1].seq) : s[off[0] + j] = ty[1].seq[j]
  BY <1>1, <1>3 DEF CutAt
<1> QED
  BY <1>2, <1>3, <1>4, <1>5, <1>6

\* The first event is done with.
LEMMA CutTail ==
  ASSUME NEW h \in Seq(Byte), NEW w \in Seq(Byte), NEW ty \in Seq(Events),
         Cut(h \o w, ty), ty # <<>>, Len(h) = Len(ty[1].seq)
  PROVE  Cut(w, Tail(ty))
<1>1. PICK off : CutAt(off, h \o w, ty)
  BY DEF Cut
<1>2. Len(ty) \in Nat /\ Len(ty) >= 1 /\ Len(h) \in Nat
  BY LenProperties
<1>3. 1 \in 1..Len(ty) /\ 1 \in 0..Len(ty) /\ 1 - 1 = 0
  BY <1>2
<1> DEFINE m == 1
           ty2 == Tail(ty)
<1>4. m \in 0..Len(ty) /\ off[m] = Len(h)
  BY <1>1, <1>2, <1>3 DEF CutAt
<1>5. \A k \in m..Len(ty) : Len(h) <= off[k]
  BY <1>1, <1>3, <1>4, CutMonotonic
<1>6. /\ Len(ty2) = Len(ty) - m
      /\ \A k \in 1..Len(ty2) : ty2[k] = ty[m + k]
  <2>1. /\ Len(ty2) = Len(ty) - 1
        /\ \A k \in 1..Len(ty2) : ty2[k] = ty[k + 1]
    BY HeadTailProperties
  <2> HIDE DEF ty2
  <2> QED
    BY <1>2, <2>1
<1> HIDE DEF m, ty2
<1>7. Drops(off, h, w, ty, m, ty2)
  BY <1>1, <1>4, <1>5, <1>6, Zenon DEF Drops
<1>8. Cut(w, ty2)
  BY <1>7, CutDrop
<1> QED
  BY <1>8 DEF ty2

\* The queue is flushed and nothing but whole events was in it.
LEMMA CutRest ==
  ASSUME NEW q \in Seq(Byte), NEW w \in Seq(Byte), NEW ty \in Seq(Events),
         Cut(q \o w, ty), NEW k \in 0..Len(ty), LastBytes(ty, k) = Len(w)
  PROVE  /\ Cut(w, SubSeq(ty, Len(ty) - k + 1, Len(ty)))
         /\ SubSeq(ty, Len(ty) - k + 1, Len(ty)) \in Seq(Events)
<1> DEFINE n == Len(ty)
           m == n - k
           ty2 == SubSeq(ty, n - k + 1, n)
<1>1. PICK off : CutAt(off, q \o w, ty)
  BY DEF Cut
<1>2. n \in Nat /\ m \in 0..n /\ Len(q) \in Nat /\ Len(w) \in Nat
  BY LenProperties
<1>3. Len(q \o w) = Len(q) + Len(w)
  BY ConcatProperties
<1>4. off[n] = Len(q) + Len(w) /\ off \in [0..n -> Nat]
  BY <1>1, <1>3 DEF CutAt
<1>5. Len(w) = off[n] - off[m]
  BY <1>1, LastBytesAre
<1>6. off[m] = Len(q)
  <2>1. off[m] \in Nat
    BY <1>2, <1>4
  <2> HIDE DEF m
  <2> QED
    BY <1>2, <1>4, <1>5, <2>1
<1>7. \A i \in m..n : Len(q) <= off[i]
  BY <1>1, <1>2, <1>6, CutMonotonic
<1>8. /\ ty2 \in Seq(Events) /\ Len(ty2) = n - m
      /\ \A i \in 1..Len(ty2) : ty2[i] = ty[m + i]
  <2>1. \A i \in (n - k + 1)..n : ty[i] \in Events
    BY <1>2
  <2>2. /\ ty2 \in Seq(Events)
        /\ Len(ty2) = IF n - k + 1 <= n THEN n - (n - k + 1) + 1 ELSE 0
        /\ \A i \in 1..(n - (n - k + 1) + 1) : ty2[i] = ty[n - k + 1 + i - 1]
    BY <1>2, <2>1, SubSeqProperties
  <2> HIDE DEF ty2
  <2>3. Len(ty2) = n - m
    BY <1>2, <2>2
  <2>4. ASSUME NEW i \in 1..Len(ty2) PROVE ty2[i] = ty[m + i]
    <3>1. i \in 1..(n - (n - k + 1) + 1) /\ n - k + 1 + i - 1 = m + i
      BY <1>2, <2>3
    <3> QED
      BY <2>2, <3>1
  <2> QED
    BY <2>2, <2>3, <2>4
<1> HIDE DEF ty2, m
<1>9. Drops(off, q, w, ty, m, ty2)
  BY <1>1, <1>2, <1>6, <1>7, <1>8, Zenon DEF Drops
<1>10. Cut(w, ty2)
  BY <1>9, CutDrop
<1> QED
  BY <1>8, <1>10 DEF ty2

LEMMA AppendConcat ==
  ASSUME NEW a \in Seq(Byte), NEW x \in Byte, NEW b \in Seq(Byte)
  PROVE  Append(a, x) \o b = a \o (<<x>> \o b)
OBVIOUS

Regrouped(a, b, c, d) == a \o (b \o (c \o d)) = (a \o (b \o c)) \o d

LEMMA ConcatFour ==
  ASSUME NEW a \in Seq(Byte), NEW b \in Seq(Byte), NEW c \in Seq(Byte), NEW d \in Seq(Byte)
  PROVE  Regrouped(a, b, c, d)
BY DEF Regrouped

\* A byte that moves on stays in its place of the stream.
LEMMA StreamMoves ==
  ASSUME NEW h \in Seq(Byte), NEW q \in Seq(Byte), NEW w \in Seq(Byte)
  PROVE  /\ h \o (q \o w) \in Seq(Byte)
         /\ <<>> \o (q \o w) = q \o w
         /\ w # <<>> => h \o (Append(q, Head(w)) \o Tail(w)) = h \o (q \o w)
         /\ q # <<>> => Append(h, Head(q)) \o (Tail(q) \o w) = h \o (q \o w)
         /\ q # <<>> => <<Head(q)>> \o (Tail(q) \o w) = <<>> \o (q \o w)
<1>1. h \o (q \o w) \in Seq(Byte) /\ <<>> \o (q \o w) = q \o w
  BY ConcatProperties, ConcatEmptySeq
<1>2. ASSUME w # <<>> PROVE Append(q, Head(w)) \o Tail(w) = q \o w
  BY <1>2
<1>3. ASSUME q # <<>> PROVE <<Head(q)>> \o (Tail(q) \o w) = q \o w
  BY <1>3
<1>4. ASSUME q # <<>> PROVE Append(h, Head(q)) \o (Tail(q) \o w) = h \o (q \o w)
  <2> DEFINE x == Head(q)
             v == Tail(q) \o w
  <2>1. Tail(q) \in Seq(Byte) /\ x \in Byte
    BY <1>4, HeadTailProperties
  <2>2. v \in Seq(Byte)
    BY <2>1, ConcatProperties
  <2>3. <<x>> \o v = q \o w
    BY <1>3, <1>4
  <2> HIDE DEF x, v
  <2>4. Append(h, x) \o v = h \o (<<x>> \o v)
    BY <2>1, <2>2, AppendConcat
  <2> QED
    BY <2>3, <2>4, Zenon DEF x, v
<1> QED
  BY <1>1, <1>2, <1>3, <1>4

\* The bytes collected are the first ones of the event they belong to.
LEMMA CollectedBytes ==
  ASSUME IInv, StreamInv, Len(stream) >= 1
  PROVE  /\ stream \in Seq(Byte)
         /\ typed # <<>> /\ typed[1] \in Events /\ Head(typed) = typed[1]
         /\ Len(typed[1].seq) <= Len(stream)
         /\ \A j \in 1..Len(typed[1].seq) : stream[j] = typed[1].seq[j]
<1>1. held \in Seq(Byte) /\ queue \in Seq(Byte) /\ wire \in Seq(Byte)
  BY DEF held, IInv, StateTypeOK
<1>2. stream \in Seq(Byte)
  BY <1>1, StreamMoves DEF stream
<1> QED
  BY <1>2, CutHead DEF StreamInv

\* The lengths of the events, and the bytes by which they differ.
Shape(n, b) ==
  \/ n = 1 /\ b[1] \notin {E0, F0, E1}
  \/ n = 2 /\ b[1] = F0
  \/ n = 2 /\ b[1] = E0 /\ b[2] # F0 /\ b[2] # 18
  \/ n = 3 /\ b[1] = E0 /\ b[2] = F0 /\ b[3] # 124
  \/ n = 4 /\ b[1] = E0 /\ b[2] = 18 /\ b[3] # 124
  \/ n = 6 /\ b[1] = E0 /\ b[2] = F0 /\ b[3] = 124
  \/ n = 8 /\ b[1] = E1 /\ b[3] # 124

LEMMA ScanCodeShape ==
  ASSUME NEW e, IsScanCode(e)
  PROVE  Shape(Len(e.seq), e.seq)
<1> DEFINE s == e.seq
           n == Len(s)
<1>1. CASE n = 1 /\ s[1] \notin {E0, F0, E1}
  BY <1>1 DEF Shape
<1>2. CASE n = 2 /\ s[1] = F0
  BY <1>2 DEF Shape
<1>3. CASE n = 2 /\ s[1] = E0 /\ s[2] \notin {F0, 18}
  BY <1>3 DEF Shape
<1>4. CASE n = 3 /\ s[1] = E0 /\ s[2] = F0 /\ s[3] # 124
  BY <1>4 DEF Shape
<1>5. CASE n = 4 /\ s[1] = E0 /\ s[2] = 18 /\ s[3] # 124
  BY <1>5 DEF Shape
<1>6. CASE n = 6 /\ s[1] = E0 /\ s[2] = F0 /\ s[3] = 124
  BY <1>6 DEF Shape
<1>7. CASE n = 8 /\ s[1] = E1 /\ s[3] # 124
  BY <1>7 DEF Shape
<1> QED
  BY <1>1, <1>2, <1>3, <1>4, <1>5, <1>6, <1>7, Zenon DEF IsScanCode

\* After the first byte, more are missing exactly if the event has more.
LEMMA MissingAfterFirst ==
  ASSUME NEW b, Shape(Len(b), b)
  PROVE  /\ b[1] \in {E0, F0, E1} =>
              1 < Len(b) /\ Missing(b, 1) = IF b[1] \in {E0, F0} THEN 1 ELSE 7
         /\ b[1] \notin {E0, F0, E1} => Len(b) = 1
<1> DEFINE n == Len(b)
           b1 == b[1]
<1>1. \/ n = 1 /\ b1 \notin {E0, F0, E1}
      \/ n \in {2, 3, 4, 6} /\ b1 \in {E0, F0}
      \/ n = 8 /\ b1 = E1
  BY DEF Shape
<1>2. Missing(b, 1) = IF b1 = E1 THEN 7 ELSE 1
  BY DEF Missing
<1> HIDE DEF n, b1
<1>3. b1 \in {E0, F0} => b1 # E1
  BY DEF E0, F0, E1
<1> SUFFICES /\ b1 \in {E0, F0, E1} =>
                   1 < n /\ Missing(b, 1) = IF b1 \in {E0, F0} THEN 1 ELSE 7
             /\ b1 \notin {E0, F0, E1} => n = 1
  BY DEF n, b1
<1> QED
  BY <1>1, <1>2, <1>3

\* So it is after each of the others.
LEMMA MissingAfterMore ==
  ASSUME NEW b, Shape(Len(b), b), NEW a, NEW l \in Nat, l >= 1, l < Len(b), Len(a) = l + 1,
         l = 1 => a[1] = b[1] /\ a[2] = b[2],
         l = 2 => a[1] = b[1] /\ a[3] = b[3],
         NEW more, more = StillNeeded(a, Missing(b, l) - 1)
  PROVE  /\ more # 0 => l + 1 < Len(b) /\ more = Missing(b, l + 1)
         /\ more = 0 => l + 1 = Len(b)
<1> DEFINE n == Len(b)
           b1 == b[1]
           b2 == b[2]
           b3 == b[3]
<1>1. n \in {1, 2, 3, 4, 6, 8}
  BY DEF Shape
<1>2. \/ n = 2 /\ b1 = F0
      \/ n = 2 /\ b1 = E0 /\ b2 # F0 /\ b2 # 18
      \/ n = 3 /\ b1 = E0 /\ b2 = F0 /\ b3 # 124
      \/ n = 4 /\ b1 = E0 /\ b2 = 18 /\ b3 # 124
      \/ n = 6 /\ b1 = E0 /\ b2 = F0 /\ b3 = 124
      \/ n = 8 /\ b1 = E1 /\ b3 # 124
  <2>1. n # 1
    BY <1>1
  <2>2. \/ n = 1 /\ b1 \notin {E0, F0, E1}
        \/ n = 2 /\ b1 = F0
        \/ n = 2 /\ b1 = E0 /\ b2 # F0 /\ b2 # 18
        \/ n = 3 /\ b1 = E0 /\ b2 = F0 /\ b3 # 124
        \/ n = 4 /\ b1 = E0 /\ b2 = 18 /\ b3 # 124
        \/ n = 6 /\ b1 = E0 /\ b2 = F0 /\ b3 = 124
        \/ n = 8 /\ b1 = E1 /\ b3 # 124
    BY DEF Shape
  <2> HIDE DEF n, b1, b2, b3
  <2> QED
    BY <2>1, <2>2
<1>3. CASE l = 1
  <2>1. more = IF b1 = E0 THEN IF b2 = 18 THEN 2 ELSE IF b2 = F0 THEN 1
                               ELSE Missing(b, 1) - 1
               ELSE Missing(b, 1) - 1
    BY <1>3 DEF StillNeeded
  <2>2. Missing(b, 1) = (IF b1 = E1 THEN 7 ELSE 1) /\ l + 1 = 2
    BY <1>3 DEF Missing
  <2>3. Missing(b, 2) = IF n = 6 THEN 1 ELSE n - 2
    BY DEF Missing
  <2> HIDE DEF n, b1, b2, b3
  <2> SUFFICES /\ more # 0 => 2 < n /\ more = Missing(b, 2)
               /\ more = 0 => 2 = n
    BY <2>2 DEF n
  <2> QED
    BY <1>2, <2>1, <2>2, <2>3 DEF E0, E1, F0
<1>4. CASE l = 2
  <2>1. more = IF b3 = 124 THEN 3 ELSE Missing(b, 2) - 1
    BY <1>4 DEF StillNeeded
  <2>2. Missing(b, 3) = n - 3 /\ l + 1 = 3 /\ n # 2
    BY <1>4 DEF Missing
  <2>3. Missing(b, 2) = IF n = 6 THEN 1 ELSE n - 2
    BY DEF Missing
  <2> HIDE DEF n, b1, b2, b3
  <2> SUFFICES /\ more # 0 => 3 < n /\ more = Missing(b, 3)
               /\ more = 0 => 3 = n
    BY <2>2 DEF n
  <2> QED
    BY <1>2, <2>1, <2>2, <2>3 DEF E0, E1, F0
<1>5. CASE l > 2
  BY <1>1, <1>5 DEF Missing, StillNeeded
<1> QED
  BY <1>3, <1>4, <1>5

\* The first byte of an event.
LEMMA WaitScanStream ==
  ASSUME EventsAreScanCodes, IInv, StreamInv, keyboard_state_wait_scan
  PROVE  StreamInv'
<1> DEFINE e == typed[1]
<1>1. /\ queue \in Seq(Byte) /\ wire \in Seq(Byte) /\ queue # <<>> /\ need = 0
      /\ Head(queue) \in Byte
  BY TakenByte DEF IInv, StateTypeOK, keyboard_state_wait_scan, ps2driver_read, WAIT_SCAN,
                   READ_MORE
<1>2. /\ scancodes' = <<Head(queue)>> /\ queue' = Tail(queue)
      /\ UNCHANGED <<wire, typed>>
      /\ need' = IF Head(queue) \in {E0, F0} THEN 1 ELSE IF Head(queue) = E1 THEN 7 ELSE need
      /\ kbd_state' = IF Head(queue) \in {E0, F0, E1} THEN READ_MORE ELSE TRANSLATE
  BY DEF keyboard_state_wait_scan, ps2driver_read
<1>3. held = <<>> /\ held' = scancodes' /\ Collecting'
  BY <1>2 DEF held, Collecting, keyboard_state_wait_scan, WAIT_SCAN, READ_MORE, TRANSLATE
<1>4. stream' = stream /\ stream = queue \o wire
  BY <1>1, <1>2, <1>3, StreamMoves DEF stream
<1>5. Len(stream) >= 1 /\ stream[1] = Head(queue)
  BY <1>1, <1>4
<1>6. /\ e \in Events
      /\ \A j \in 1..Len(e.seq) : stream[j] = e.seq[j]
  BY <1>5, CollectedBytes
<1>7. IsScanCode(e) /\ Len(e.seq) \in Nat /\ Len(e.seq) >= 1
  BY <1>6, KeyboardTaskAssumption DEF EventsAreScanCodes
<1>8. e.seq[1] = Head(queue)
  BY <1>5, <1>6, <1>7
<1>9. len' = 1
  BY <1>2 DEF len
<1>10. /\ Head(queue) \in {E0, F0, E1} => 1 < Len(e.seq) /\ need' = Missing(e.seq, 1)
       /\ Head(queue) \notin {E0, F0, E1} => Len(e.seq) = 1
  <2>1. Shape(Len(e.seq), e.seq)
    BY <1>7, ScanCodeShape
  <2> QED
    BY <1>1, <1>2, <1>8, <2>1, MissingAfterFirst
<1>11. e' = e
  BY <1>2
<1> QED
  BY <1>2, <1>3, <1>4, <1>9, <1>10, <1>11 DEF StreamInv, READ_MORE, TRANSLATE

\* One more byte of an event: the decoder finds out that it needs more exactly
\* when the event has more.
LEMMA ReadMoreStream ==
  ASSUME EventsAreScanCodes, IInv, StreamInv, keyboard_state_read_more
  PROVE  StreamInv'
<1> DEFINE e == typed[1]
           n == Len(e.seq)
<1>1. /\ queue \in Seq(Byte) /\ wire \in Seq(Byte) /\ queue # <<>>
      /\ scancodes \in Seq(Byte) /\ Head(queue) \in Byte
  BY TakenByte DEF IInv, StateTypeOK, keyboard_state_read_more, ps2driver_read
<1>2. /\ scancodes' = Append(scancodes, Head(queue)) /\ queue' = Tail(queue)
      /\ UNCHANGED <<wire, typed>>
      /\ need' = StillNeeded(scancodes', need - 1)
      /\ kbd_state' = IF need' = 0 THEN TRANSLATE ELSE READ_MORE
      /\ kbd_state = READ_MORE
  BY DEF keyboard_state_read_more, ps2driver_read
<1>3. held = scancodes /\ held' = scancodes' /\ Collecting' /\ Collecting
  BY <1>2 DEF held, Collecting, READ_MORE, TRANSLATE
<1>4. stream' = stream
  BY <1>1, <1>2, <1>3, StreamMoves DEF stream
<1>5. /\ scancodes' \in Seq(Byte) /\ Len(scancodes') = Len(scancodes) + 1
      /\ Len(scancodes) \in Nat
  BY <1>1, <1>2, AppendByte, LenProperties
<1>6. stream' = scancodes' \o (queue' \o wire') /\ queue' \o wire' \in Seq(Byte)
  BY <1>1, <1>2, <1>3, HeadTailProperties, ConcatProperties DEF stream
<1>7. /\ Len(stream') = Len(scancodes') + Len(queue' \o wire')
      /\ Len(queue' \o wire') \in Nat
      /\ \A j \in 1..Len(scancodes') : stream'[j] = scancodes'[j]
  <2> DEFINE r == queue' \o wire'
  <2> HIDE DEF r
  <2>1. r \in Seq(Byte) /\ Len(r) \in Nat /\ Len(scancodes') \in Nat
        /\ stream' = scancodes' \o r
    BY <1>5, <1>6, LenProperties DEF r
  <2>2. /\ Len(stream') = Len(scancodes') + Len(r)
        /\ \A j \in 1..Len(scancodes') + Len(r) : stream'[j] =
              IF j <= Len(scancodes') THEN scancodes'[j] ELSE r[j - Len(scancodes')]
    BY <1>5, <2>1, ConcatProperties
  <2> QED
    BY <2>1, <2>2 DEF r
<1>8. Len(stream) >= 1
  BY <1>4, <1>5, <1>7
<1>9. /\ e \in Events
      /\ \A j \in 1..n : stream[j] = e.seq[j]
  BY <1>8, CollectedBytes
<1>10. IsScanCode(e) /\ n \in Nat
  BY <1>9, KeyboardTaskAssumption, LenProperties DEF EventsAreScanCodes
<1>11. len \in Nat /\ len >= 1 /\ len < n /\ need = Missing(e.seq, len) /\ len' = len + 1
  BY <1>2, <1>3, <1>5 DEF StreamInv, len
<1>12. \A j \in 1..len' : scancodes'[j] = e.seq[j]
  <2> SUFFICES ASSUME NEW j \in 1..len' PROVE scancodes'[j] = e.seq[j]
    OBVIOUS
  <2>1. j \in 1..n /\ j \in 1..Len(scancodes')
    BY <1>10, <1>11 DEF len
  <2> QED
    BY <1>4, <1>7, <1>9, <2>1
<1>13. /\ len = 1 => scancodes'[1] = e.seq[1] /\ scancodes'[2] = e.seq[2]
       /\ len = 2 => scancodes'[1] = e.seq[1] /\ scancodes'[3] = e.seq[3]
  BY <1>11, <1>12
<1>14. /\ need' # 0 => len' < n /\ need' = Missing(e.seq, len')
       /\ need' = 0 => len' = n
  <2> DEFINE a == scancodes'
             b == e.seq
  <2>1. Shape(n, b)
    BY <1>10, ScanCodeShape
  <2>2. len' = Len(a) /\ need' = StillNeeded(a, need - 1)
    BY <1>2 DEF len
  <2>3. Len(b) = n
    OBVIOUS
  <2>4. /\ len = 1 => a[1] = b[1] /\ a[2] = b[2]
        /\ len = 2 => a[1] = b[1] /\ a[3] = b[3]
    BY <1>13
  <2>5. need = Missing(b, len)
    BY <1>11
  <2> HIDE DEF a, b
  <2>6. /\ need' # 0 => len + 1 < Len(b) /\ need' = Missing(b, len + 1)
        /\ need' = 0 => len + 1 = Len(b)
    BY <1>11, <2>1, <2>2, <2>3, <2>4, <2>5, MissingAfterMore
  <2> QED
    BY <1>11, <2>3, <2>6 DEF b
<1>15. e' = e /\ n' = n /\ len' >= 1
  BY <1>2, <1>11
<1> QED
  BY <1>2, <1>3, <1>4, <1>14, <1>15 DEF StreamInv, READ_MORE, TRANSLATE

\* The bytes collected for a translation are those of the first event.
LEMMA WholeEvent ==
  ASSUME IInv, StreamInv, kbd_state = TRANSLATE
  PROVE  /\ typed # <<>> /\ typed[1] \in Events /\ Head(typed) = typed[1]
         /\ held = scancodes /\ len = Len(typed[1].seq) /\ len \in Nat
         /\ \A j \in 1..len : scancodes[j] = typed[1].seq[j]
<1>1. held = scancodes /\ len >= 1 /\ len = Len(typed[1].seq)
  BY DEF StreamInv, held, Collecting
<1>2. scancodes \in Seq(Byte) /\ queue \o wire \in Seq(Byte) /\ len \in Nat
  BY ConcatProperties, LenProperties DEF IInv, StateTypeOK, len
<1>3. stream = scancodes \o (queue \o wire)
  BY <1>1 DEF stream
<1>4. Len(stream) >= 1 /\ \A j \in 1..len : stream[j] = scancodes[j]
  <2> DEFINE r == queue \o wire
  <2> HIDE DEF r
  <2>1. r \in Seq(Byte) /\ Len(r) \in Nat /\ stream = scancodes \o r
    BY <1>2, <1>3, LenProperties DEF r
  <2>2. /\ Len(stream) = Len(scancodes) + Len(r)
        /\ \A j \in 1..Len(scancodes) + Len(r) : stream[j] =
              IF j <= Len(scancodes) THEN scancodes[j] ELSE r[j - Len(scancodes)]
    BY <1>2, <2>1, ConcatProperties
  <2> QED
    BY <1>1, <1>2, <2>1, <2>2 DEF len
<1> QED
  BY <1>1, <1>2, <1>4, CollectedBytes

\* They are translated into it.
LEMMA TranslatesEvent ==
  ASSUME EventsAreScanCodes, IInv, StreamInv, kbd_state = TRANSLATE
  PROVE  Translation = [kc |-> Head(typed).kc, type |-> Head(typed).type]
<1> DEFINE e == typed[1]
           b == e.seq
<1>1. /\ IsScanCode(e) /\ Head(typed) = e /\ len = Len(b) /\ len \in Nat
      /\ \A j \in 1..len : scancodes[j] = b[j]
  BY WholeEvent DEF EventsAreScanCodes
<1>2. /\ len >= 1 => scancodes[1] = b[1]
      /\ len >= 2 => scancodes[2] = b[2]
      /\ len >= 3 => scancodes[3] = b[3]
  BY <1>1
<1> HIDE DEF e
<1>3. \/ len = 1 /\ e.kc = KeyAt(b[1]) /\ e.type = "make"
      \/ len = 2 /\ b[1] = F0 /\ e.kc = KeyAt(b[2]) /\ e.type = "break"
      \/ len = 2 /\ b[1] = E0 /\ e.kc = scan_2bytes_to_key(b[2]) /\ e.type = "make"
      \/ len = 3 /\ e.kc = scan_2bytes_to_key(b[3]) /\ e.type = "break"
      \/ len = 4 /\ e.kc = "PRNT_SCRN" /\ e.type = "make"
      \/ len = 6 /\ e.kc = "PRNT_SCRN" /\ e.type = "break"
      \/ len = 8 /\ e.kc = "PAUSE" /\ e.type = "make"
  BY <1>1, Zenon DEF IsScanCode
<1> HIDE DEF b
<1>4. Translation = [kc |-> e.kc, type |-> e.type]
  BY <1>2, <1>3 DEF Translation, E0, F0
<1> QED
  BY <1>1, <1>4

\* The translation leaves the stream without the first event.
LEMMA TranslateStream ==
  ASSUME IInv, StreamInv, keyboard_state_translate
  PROVE  StreamInv'
<1>1. /\ kbd_state = TRANSLATE /\ kbd_state' = WAIT_SCAN
      /\ typed' = IF typed = <<>> THEN <<>> ELSE Tail(typed)
      /\ UNCHANGED <<queue, wire>>
  BY DEF keyboard_state_translate
<1>2. typed # <<>> /\ held = scancodes /\ Len(scancodes) = Len(typed[1].seq)
  BY <1>1, WholeEvent DEF len
<1>3. /\ typed \in Seq(Events) /\ typed' = Tail(typed) /\ typed' \in Seq(Events)
      /\ Cut(stream, typed)
  BY <1>1, <1>2, HeadTailProperties DEF StreamInv
<1>4. queue \in Seq(Byte) /\ wire \in Seq(Byte) /\ scancodes \in Seq(Byte)
  BY DEF IInv, StateTypeOK
<1>5. ~ Collecting' /\ held' = <<>>
  BY <1>1 DEF Collecting, held, WAIT_SCAN, READ_MORE, TRANSLATE
<1>6. stream' = queue \o wire
  BY <1>1, <1>4, <1>5, StreamMoves DEF stream
<1>7. queue \o wire \in Seq(Byte)
  BY <1>4, ConcatProperties
<1>8. Cut(queue \o wire, Tail(typed))
  BY <1>2, <1>3, <1>4, <1>7, CutTail DEF stream
<1> QED
  BY <1>1, <1>3, <1>5, <1>6, <1>8 DEF StreamInv, Collecting

\* The flush leaves the events that are still on the wire as a whole.
LEMMA ResetStream ==
  ASSUME IInv, StreamInv, keyboard_state_reset, intact'
  PROVE  StreamInv'
<1>1. /\ kbd_state = RESET /\ queue' = <<>> /\ kbd_state' = WAIT_SCAN /\ wire' = wire
  BY DEF keyboard_state_reset
<1>2. PICK k \in 0..Len(typed) :
        /\ LastBytes(typed, k) = Len(wire)
        /\ typed' = SubSeq(typed, Len(typed) - k + 1, Len(typed))
  BY DEF keyboard_state_reset
<1>3. queue \in Seq(Byte) /\ wire \in Seq(Byte) /\ typed \in Seq(Events)
  BY DEF IInv, StateTypeOK, StreamInv
<1>4. /\ held = <<>> /\ held' = <<>> /\ ~ Collecting'
  BY <1>1 DEF held, Collecting, RESET, WAIT_SCAN, READ_MORE, TRANSLATE
<1>5. stream = queue \o wire /\ stream' = wire
  BY <1>1, <1>3, <1>4, StreamMoves, ConcatEmptySeq DEF stream
<1>6. Cut(wire, typed') /\ typed' \in Seq(Events)
  BY <1>2, <1>3, <1>5, CutRest DEF StreamInv
<1> QED
  BY <1>1, <1>4, <1>5, <1>6 DEF StreamInv, Collecting

\* The keyboard and its interrupt.
LEMMA KeyboardStream ==
  ASSUME IInv, StreamInv,
         (\E e \in Events : Type(e)) \/ (keyboard_recv /\ intact')
  PROVE  StreamInv'
<1>1. /\ held \in Seq(Byte) /\ queue \in Seq(Byte) /\ wire \in Seq(Byte)
      /\ typed \in Seq(Events) /\ stream \in Seq(Byte)
  <2>1. held \in Seq(Byte) /\ queue \in Seq(Byte) /\ wire \in Seq(Byte)
    BY DEF held, IInv, StateTypeOK
  <2> QED
    BY <2>1, StreamMoves DEF StreamInv, stream
<1>2. UNCHANGED <<kbd_state, scancodes, need>>
  BY DEF Type, keyboard_recv, kbd_seq
<1>3. held' = held /\ Collecting' = Collecting /\ len' = len
  BY <1>2 DEF held, Collecting, len
<1>4. ASSUME NEW e \in Events, Type(e)
      PROVE  StreamInv'
  <2>1. queue' = queue /\ wire' = wire \o e.seq /\ typed' = Append(typed, e)
    BY <1>4 DEF Type
  <2>2. e.seq \in Seq(Byte)
    BY KeyboardTaskAssumption
  <2>3. stream' = stream \o e.seq
    <3>1. stream' = held \o (queue \o (wire \o e.seq))
      BY <1>3, <2>1 DEF stream
    <3>2. Regrouped(held, queue, wire, e.seq)
      BY <1>1, <2>2, ConcatFour, Zenon
    <3> QED
      BY <3>1, <3>2, Zenon DEF stream, Regrouped
  <2>4. Cut(stream', typed') /\ typed' \in Seq(Events)
    BY <1>1, <2>1, <2>3, CutAppend, AppendProperties DEF StreamInv
  <2>5. Collecting => typed'[1] = typed[1]
    <3> SUFFICES ASSUME Collecting PROVE typed'[1] = typed[1]
      OBVIOUS
    <3>1. held = scancodes /\ Len(scancodes) >= 1
      BY DEF held, StreamInv, len
    <3>2. Len(stream) >= 1
      <4>1. queue \o wire \in Seq(Byte)
        BY <1>1, ConcatProperties
      <4>2. Len(stream) = Len(held) + Len(queue \o wire) /\ Len(queue \o wire) \in Nat
            /\ Len(held) \in Nat
        BY <1>1, <4>1, ConcatProperties, LenProperties DEF stream
      <4> QED
        BY <3>1, <4>2
    <3>3. Len(typed) >= 1
      BY <1>1, <3>2, CutHead DEF StreamInv
    <3> QED
      BY <1>1, <2>1, <3>3
  <2> QED
    BY <1>2, <1>3, <2>4, <2>5 DEF StreamInv, Collecting
<1>5. ASSUME keyboard_recv, intact'
      PROVE  StreamInv'
  <2>1. /\ wire # <<>> /\ wire' = Tail(wire) /\ queue' = Append(queue, Head(wire))
        /\ typed' = typed
    BY <1>5 DEF keyboard_recv
  <2>2. stream' = stream
    BY <1>1, <1>3, <2>1, StreamMoves DEF stream
  <2> QED
    BY <1>2, <1>3, <2>1, <2>2 DEF StreamInv, Collecting
<1> QED
  BY <1>4, <1>5

DecodeInv == intact => StreamInv

LEMMA InitStream == Init => DecodeInv
<1> SUFFICES ASSUME Init PROVE StreamInv
  BY DEF DecodeInv
<1>1. typed = <<>> /\ stream = <<>>
  BY DEF Init, stream, held, Collecting, RESET, READ_MORE, TRANSLATE
<1>2. CutAt([k \in 0..0 |-> 0], <<>>, <<>>)
  BY DEF CutAt
<1> QED
  BY <1>1, <1>2 DEF StreamInv, Cut, Init, Collecting, RESET, READ_MORE, TRANSLATE

LEMMA NextStream ==
  ASSUME EventsAreScanCodes, IInv, DecodeInv, [Next]_vars
  PROVE  DecodeInv'
<1> SUFFICES ASSUME intact' PROVE StreamInv'
  BY DEF DecodeInv
<1>1. intact /\ ~ (\E b \in Reports : Report(b))
  BY DEF Next, Type, Report, keyboard_recv, keyboard_task, keyboard_state_reset,
         keyboard_state_wait_scan, keyboard_state_read_more, keyboard_state_translate, vars
<1>2. StreamInv
  BY <1>1 DEF DecodeInv
<1>3. CASE UNCHANGED vars
  BY <1>2, <1>3 DEF vars, kbd_seq, StreamInv, stream, held, Collecting, len
<1> QED
  BY <1>1, <1>2, <1>3, KeyboardStream, ResetStream, WaitScanStream, ReadMoreStream,
     TranslateStream DEF Next, keyboard_task

\* If the events are scan codes, the bytes sent and not translated yet are cut
\* as they were typed.
THEOREM StreamInvariance == EventsAreScanCodes => (Spec => []DecodeInv)
<1> SUFFICES ASSUME EventsAreScanCodes PROVE Spec => []DecodeInv
  OBVIOUS
<1>1. IInv /\ DecodeInv /\ [Next]_vars => DecodeInv'
  BY NextStream
<1> QED
  BY <1>1, InitStream, Invariance, PTL DEF Spec

\* For every set of keys with scan codes of set 2, any number of them typed
\* ahead and any size of the queue: as long as no byte is lost or inserted,
\* keyboard_state_translate() reports exactly the events that were typed, in
\* their order.
THEOREM Decoding == EventsAreScanCodes => (Spec => DecodesWhatWasTyped)
<1> SUFFICES ASSUME EventsAreScanCodes PROVE Spec => DecodesWhatWasTyped
  OBVIOUS
<1> DEFINE Right == intact /\ keyboard_state_translate =>
                      /\ typed # <<>>
                      /\ key' = [kc |-> Head(typed).kc, type |-> Head(typed).type]
<1>1. IInv /\ DecodeInv => Right
  <2> SUFFICES ASSUME IInv, DecodeInv, intact, keyboard_state_translate
               PROVE  /\ typed # <<>>
                      /\ key' = [kc |-> Head(typed).kc, type |-> Head(typed).type]
    OBVIOUS
  <2>1. StreamInv /\ kbd_state = TRANSLATE /\ key' = Translation
    BY DEF DecodeInv, keyboard_state_translate
  <2> QED
    BY <2>1, WholeEvent, TranslatesEvent
<1>2. Spec => []DecodeInv
  BY StreamInvariance
<1>3. Spec => [][Right]_vars
  BY <1>1, <1>2, Invariance, PTL
<1> QED
  BY <1>3 DEF DecodesWhatWasTyped

-----------------------------------------------------------------------------
(***************************************************************************)
(* keyboard_start(), module KeyboardStart: with a keyboard that answers in *)
(* time, and for any number of lost bytes, lost answers, refused bytes and *)
(* pressed keys, an acknowledged start leaves the keyboard ready and no    *)
(* answer behind.  The receive queue is the one the task reads later.      *)
(***************************************************************************)
Answers == {RES_ACK, RES_RESEND}

\* What the driver will read, in the queue or still on its way to it.
coming == recv_queue \o out

NoAnswers(w) == \A i \in 1..Len(w) : w[i] \notin Answers

OneAnswer(w) ==
  \A i, j \in 1..Len(w) : w[i] \in Answers /\ w[j] \in Answers => i = j

Asking == step \in DOMAIN ByteOf

Keyboards == [set : 1..3, scanning : BOOLEAN, wants : {"none", "led", "set"}]

StartTypeInv ==
  /\ step \in Steps
  /\ pc \in {"send", "recv"}
  /\ recv_queue \in Seq(Int) /\ out \in Seq(Int)
  /\ input \in Int
  /\ dev \in Keyboards
  /\ enabled \in BOOLEAN

\* Before a byte is sent, nothing is on its way but keys pressed while the
\* keyboard scans already.
SendInv ==
  Asking /\ pc = "send" =>
    input = NoByte /\ NoAnswers(coming) /\ (step # "enable" => Len(coming) = 0)

\* Neither is there anything else while the byte waits for the keyboard.
AskedInv ==
  Asking /\ pc = "recv" /\ input # NoByte =>
    input = ByteOf[step] /\ NoAnswers(coming) /\ (step # "enable" => Len(coming) = 0)

\* Once the keyboard has taken it, there is at most one answer, with the scan
\* code set behind it if that was asked for.
AnsweredInv ==
  Asking /\ pc = "recv" /\ input = NoByte =>
    /\ OneAnswer(coming)
    /\ step \notin {"get_arg", "enable"} => Len(coming) <= 1
    /\ step = "get_arg" =>
         /\ Len(coming) <= 2
         /\ Len(coming) = 2 => coming[1] = RES_ACK /\ coming[2] = dev.set

ReadInv ==
  step = "get_read" =>
    input = NoByte /\ Len(coming) <= 1 /\ (Len(coming) = 1 => coming[1] = dev.set)

\* An acknowledgement comes from a keyboard that has done what it was told.
AckInv ==
  \A i \in 1..Len(coming) : coming[i] = RES_ACK =>
    /\ step = "set_cmd" => dev.wants # "led"
    /\ step = "set_arg" => dev.set = 2
    /\ step = "enable" => dev.scanning

DeviceInv ==
  /\ step \in {"led_cmd", "led_arg"} => dev.wants # "set"
  /\ step = "set_arg" => dev.wants # "led"
  /\ step = "enable" => dev.set = 2
  /\ step \notin {"enable", "end"} => ~ dev.scanning

EndInv ==
  enabled => /\ step = "end" /\ input = NoByte /\ NoAnswers(coming)
             /\ dev.set = 2 /\ dev.scanning

Dialogue ==
  SendInv /\ AskedInv /\ AnsweredInv /\ ReadInv /\ AckInv /\ DeviceInv /\ EndInv

StartInv == StartTypeInv /\ (~ late => Dialogue)

-----------------------------------------------------------------------------
(* What the steps do to the bytes on their way *)

LEMMA WireTake ==
  ASSUME NEW q \in Seq(Int), NEW o \in Seq(Int), q # <<>>
  PROVE  /\ Tail(q) \in Seq(Int) /\ Head(q) \in Int
         /\ Head(q) = (q \o o)[1]
         /\ Len(q \o o) > 0
         /\ Len(Tail(q) \o o) = Len(q \o o) - 1
         /\ \A i \in 1..Len(Tail(q) \o o) : (Tail(q) \o o)[i] = (q \o o)[i + 1]
<1>1. Tail(q) \in Seq(Int) /\ Head(q) \in Int
  OBVIOUS
<1>2. Head(q) = (q \o o)[1] /\ Len(q \o o) > 0
  OBVIOUS
<1>3. Len(Tail(q) \o o) = Len(q \o o) - 1
  OBVIOUS
<1>4. \A i \in 1..Len(Tail(q) \o o) : (Tail(q) \o o)[i] = (q \o o)[i + 1]
  OBVIOUS
<1> QED
  BY <1>1, <1>2, <1>3, <1>4

LEMMA WireMove ==
  ASSUME NEW q \in Seq(Int), NEW o \in Seq(Int), o # <<>>
  PROVE  /\ Append(q, Head(o)) \in Seq(Int) /\ Tail(o) \in Seq(Int)
         /\ Append(q, Head(o)) \o Tail(o) = q \o o
OBVIOUS

LEMMA WireLose ==
  ASSUME NEW q \in Seq(Int), NEW o \in Seq(Int), o # <<>>
  PROVE  /\ Tail(o) \in Seq(Int)
         /\ Len(q \o o) > 0
         /\ Len(q \o Tail(o)) = Len(q \o o) - 1
         /\ \A i \in 1..Len(q \o Tail(o)) :
              (q \o Tail(o))[i] = (q \o o)[IF i <= Len(q) THEN i ELSE i + 1]
OBVIOUS

LEMMA WireAppend ==
  ASSUME NEW q \in Seq(Int), NEW o \in Seq(Int), NEW x \in Int
  PROVE  /\ Append(o, x) \in Seq(Int)
         /\ Len(q \o Append(o, x)) = Len(q \o o) + 1
         /\ (q \o Append(o, x))[Len(q \o o) + 1] = x
         /\ \A i \in 1..Len(q \o o) : (q \o Append(o, x))[i] = (q \o o)[i]
OBVIOUS

\* The steps that send a byte, and the bytes they send.
LEMMA Commands ==
  /\ DOMAIN ByteOf = {"led_cmd", "led_arg", "get_cmd", "get_arg", "set_cmd", "set_arg",
                    "enable"}
  /\ \A s \in DOMAIN ByteOf : ByteOf[s] \in Int /\ ByteOf[s] # NoByte
BY DEF ByteOf, CMD_SET_LED, CMD_SCAN_CODE_SET, CMD_ENABLE_SCANNING, NoByte

LEMMA StartInitHolds == StartInit => StartInv
<1> SUFFICES ASSUME StartInit PROVE StartInv
  OBVIOUS
<1>1. Len(coming) = 0 /\ coming = <<>>
  BY DEF StartInit, coming
<1>2. StartTypeInv
  <2>1. dev \in Keyboards
    BY DEF StartInit, Keyboards
  <2>2. recv_queue \in Seq(Int) /\ out \in Seq(Int)
    BY DEF StartInit
  <2>3. input \in Int
    BY DEF StartInit, NoByte
  <2>4. enabled \in BOOLEAN
    BY DEF StartInit
  <2>5. step \in Steps /\ pc \in {"send", "recv"}
    BY DEF StartInit, Steps
  <2> QED
    BY <2>1, <2>2, <2>3, <2>4, <2>5 DEF StartTypeInv
<1>3. Dialogue
  <2>1. dev.wants = "none" /\ dev.scanning = FALSE
    BY DEF StartInit
  <2>2. NoAnswers(coming)
    BY <1>1 DEF NoAnswers
  <2>3. AckInv
    BY <1>1 DEF AckInv
  <2> QED
    BY <1>1, <2>1, <2>2, <2>3 DEF StartInit, Dialogue, SendInv, AskedInv, AnsweredInv, ReadInv, DeviceInv, EndInv
<1> QED
  BY <1>2, <1>3 DEF StartInv

-----------------------------------------------------------------------------
(* The keyboard *)

\* The byte is taken without an answer: it is lost.
LEMMA LoseByteHolds ==
  ASSUME StartInv, LoseByte
  PROVE  StartInv'
<1> USE DEF StartInv, LoseByte, driver
<1>1. StartTypeInv'
  BY DEF StartTypeInv, NoByte
<1>2. coming' = coming
  BY DEF coming
<1>3. ASSUME ~ late PROVE Dialogue'
  BY <1>2, <1>3 DEF Dialogue, SendInv, AskedInv, AnsweredInv, ReadInv, AckInv,
     DeviceInv, EndInv, NoAnswers, OneAnswer, Asking
<1> QED
  BY <1>1, <1>3

LEMMA DeliverHolds ==
  ASSUME StartInv, Deliver
  PROVE  StartInv'
<1> USE DEF StartInv, Deliver, driver, device
<1>1. StartTypeInv' /\ coming' = coming
  BY WireMove DEF StartTypeInv, coming
<1>2. ASSUME ~ late PROVE Dialogue'
  BY <1>1, <1>2 DEF Dialogue, SendInv, AskedInv, AnsweredInv, ReadInv, AckInv,
     DeviceInv, EndInv, NoAnswers, OneAnswer, Asking
<1> QED
  BY <1>1, <1>2

\* The byte that was the first on its way is gone.
LEMMA LoseAnswerHolds ==
  ASSUME StartInv, LoseAnswer
  PROVE  StartInv'
<1> USE DEF StartInv, LoseAnswer, driver
<1>1. StartTypeInv'
  BY WireLose DEF StartTypeInv
<1> DEFINE At(i) == IF i <= Len(recv_queue) THEN i ELSE i + 1
<1>2. /\ Len(coming) \in Nat /\ Len(coming') = Len(coming) - 1 /\ Len(recv_queue) \in Nat
      /\ \A i \in 1..Len(coming') : At(i) \in 1..Len(coming) /\ coming'[i] = coming[At(i)]
  <2>1. recv_queue \in Seq(Int) /\ out \in Seq(Int) /\ out # <<>>
    BY DEF StartTypeInv
  <2>2. coming' = recv_queue \o Tail(out) /\ coming = recv_queue \o out
    BY DEF coming
  <2>3. Len(recv_queue) \in Nat /\ Len(coming) \in Nat /\ Len(coming) > 0
    BY <2>1, <2>2
  <2>4. /\ Len(coming') = Len(coming) - 1
        /\ \A i \in 1..Len(coming') : coming'[i] = coming[At(i)]
    BY <2>1, <2>2, WireLose
  <2> QED
    BY <2>3, <2>4
<1>3. ASSUME ~ late PROVE Dialogue'
  <2>1. NoAnswers(coming) => NoAnswers(coming)'
    BY <1>2 DEF NoAnswers
  <2>2. OneAnswer(coming) => OneAnswer(coming)'
    <3> SUFFICES ASSUME OneAnswer(coming), NEW i \in 1..Len(coming'), NEW j \in 1..Len(coming'),
                        coming'[i] \in Answers, coming'[j] \in Answers
                 PROVE  i = j
      BY DEF OneAnswer, Answers, RES_ACK, RES_RESEND
    <3>1. At(i) = At(j)
      BY <1>2 DEF OneAnswer
    <3> QED
      BY <1>2, <3>1
  <2>3. AckInv'
    BY <1>2, <1>3 DEF Dialogue, AckInv
  <2>4. SendInv' /\ AskedInv' /\ DeviceInv' /\ EndInv'
    BY <1>2, <1>3, <2>1 DEF Dialogue, SendInv, AskedInv, DeviceInv, EndInv, Asking
  <2>5. AnsweredInv' /\ ReadInv'
    BY <1>2, <1>3, <2>2 DEF Dialogue, AnsweredInv, ReadInv, Asking
  <2> QED
    BY <2>3, <2>4, <2>5 DEF Dialogue
<1> QED
  BY <1>1, <1>3

\* A byte that is no answer is added: the keyboard scans, so it is after the
\* command that enables it.
LEMMA PressKeyHolds ==
  ASSUME StartInv, PressKey
  PROVE  StartInv'
<1> USE DEF StartInv, PressKey, driver
<1>1. ScanCode \in Int /\ ScanCode \notin Answers /\ ScanCode # RES_ACK
  BY DEF ScanCode, Answers, RES_ACK, RES_RESEND
<1>2. StartTypeInv'
  BY <1>1, WireAppend DEF StartTypeInv
<1>3. /\ Len(coming) \in Nat /\ Len(coming') = Len(coming) + 1
      /\ coming'[Len(coming) + 1] = ScanCode
      /\ \A i \in 1..Len(coming) : coming'[i] = coming[i]
  BY <1>1, WireAppend DEF coming, StartTypeInv
<1>4. ASSUME ~ late PROVE Dialogue'
  <2>1. step \in {"enable", "end"}
    BY <1>4 DEF Dialogue, DeviceInv
  <2>2. \A i \in 1..Len(coming') : coming'[i] \in Answers => i \in 1..Len(coming)
    BY <1>1, <1>3
  <2>3. NoAnswers(coming) => NoAnswers(coming)'
    BY <1>3, <2>2 DEF NoAnswers
  <2>4. OneAnswer(coming) => OneAnswer(coming)'
    BY <1>3, <2>2 DEF OneAnswer
  <2>5. AckInv'
    BY <1>3, <1>4, <2>2 DEF Dialogue, AckInv, Answers
  <2>6. SendInv' /\ AskedInv' /\ AnsweredInv'
    BY <1>4, <2>1, <2>3, <2>4, Commands
       DEF Dialogue, SendInv, AskedInv, AnsweredInv, Asking
  <2>7. ReadInv' /\ DeviceInv'
    BY <1>4, <2>1 DEF Dialogue, ReadInv, DeviceInv
  <2>8. EndInv'
    BY <1>4, <2>3 DEF Dialogue, EndInv
  <2> QED
    BY <2>5, <2>6, <2>7, <2>8 DEF Dialogue
<1> QED
  BY <1>2, <1>4

\* One answer is added to none.
LEMMA OneMore ==
  ASSUME NEW w, NEW v, Len(w) \in Nat, Len(v) = Len(w) + 1, NoAnswers(w),
         \A i \in 1..Len(w) : v[i] = w[i]
  PROVE  OneAnswer(v) /\ \A i \in 1..Len(v) : v[i] \in Answers => i = Len(w) + 1
BY DEF OneAnswer, NoAnswers

LEMMA RefuseHolds ==
  ASSUME StartInv, Refuse
  PROVE  StartInv'
<1> USE DEF StartInv, Refuse, driver
<1>1. RES_RESEND \in Int /\ RES_RESEND # RES_ACK
  BY DEF RES_ACK, RES_RESEND
<1>2. StartTypeInv'
  BY <1>1, WireAppend DEF StartTypeInv, NoByte
<1>3. /\ Len(coming) \in Nat /\ Len(coming') = Len(coming) + 1
      /\ coming'[Len(coming) + 1] = RES_RESEND
      /\ \A i \in 1..Len(coming) : coming'[i] = coming[i]
  BY <1>1, WireAppend DEF coming, StartTypeInv
<1>4. ASSUME ~ late PROVE Dialogue'
  <2>1. step # "get_read" /\ ~ enabled /\ (Asking => pc = "recv")
    BY <1>4 DEF Dialogue, ReadInv, EndInv, SendInv, StartTypeInv
  <2>2. AckInv'
    BY <1>1, <1>3, <1>4 DEF Dialogue, AckInv
  <2>3. ASSUME Asking PROVE AnsweredInv'
    BY <1>3, <1>4, <2>1, <2>3, OneMore DEF Dialogue, AskedInv, AnsweredInv, Asking
  <2>4. ReadInv' /\ EndInv' /\ DeviceInv' /\ SendInv' /\ AskedInv'
    BY <1>4, <2>1 DEF Dialogue, ReadInv, EndInv, DeviceInv, SendInv, AskedInv, Asking
  <2> QED
    BY <2>2, <2>3, <2>4 DEF Dialogue, AnsweredInv, Asking
<1> QED
  BY <1>2, <1>4

LEMMA DevUpdate ==
  ASSUME NEW d \in Keyboards
  PROVE  /\ \A w \in {"none", "led", "set"} : [d EXCEPT !.wants = w] \in Keyboards
         /\ \A k \in 1..3 : [d EXCEPT !.set = k] \in Keyboards
         /\ [d EXCEPT !.scanning = TRUE] \in Keyboards
BY DEF Keyboards

\* What a keyboard that is given the byte of the step answers, and what becomes
\* of it.
LEMMA Obedience ==
  ASSUME StartTypeInv, DeviceInv, Asking
  PROVE  LET o == Obeys(ByteOf[step])
         IN  /\ o.dev \in Keyboards
             /\ \/ o.answer = <<RES_ACK>> \/ o.answer = <<RES_RESEND>>
                \/ step = "get_arg" /\ o.answer = <<RES_ACK, o.dev.set>>
             /\ step \in {"led_cmd", "led_arg"} => o.dev.wants # "set"
             /\ step = "set_cmd" => o.dev.wants # "led"
             /\ step = "set_arg" =>
                  o.dev.wants # "led" /\ (o.answer = <<RES_RESEND>> \/ o.dev.set = 2)
             /\ step = "enable" => o.dev.set = 2 /\ o.dev.scanning
             /\ step # "enable" => ~ o.dev.scanning
<1> DEFINE Wants(w) == [dev EXCEPT !.wants = w]
           Set2     == [dev EXCEPT !.wants = "none", !.set = 2]
           Scans    == [dev EXCEPT !.wants = "none", !.scanning = TRUE]
           Ack(d)   == [dev |-> d, answer |-> <<RES_ACK>>]
           Refused  == [dev |-> dev, answer |-> <<RES_RESEND>>]
<1> USE DEF CMD_SET_LED, CMD_SCAN_CODE_SET, CMD_ENABLE_SCANNING, RES_ACK, RES_RESEND
<1>1. /\ dev \in Keyboards /\ dev.set \in 1..3
      /\ dev.wants \in {"none", "led", "set"}
  BY DEF StartTypeInv, Keyboards
<1>2. \A w \in {"none", "led", "set"} :
        /\ Wants(w) \in Keyboards /\ Wants(w).wants = w
        /\ Wants(w).set = dev.set /\ Wants(w).scanning = dev.scanning
  BY <1>1, DevUpdate DEF Keyboards
<1>3. /\ Set2 \in Keyboards /\ Set2.wants = "none" /\ Set2.set = 2
      /\ Set2.scanning = dev.scanning
  <2>1. \A d \in Keyboards : [d EXCEPT !.set = 2] \in Keyboards
    BY DevUpdate, 2 \in 1..3
  <2>2. [Wants("none") EXCEPT !.set = 2] \in Keyboards
    BY <1>2, <2>1
  <2> QED
    BY <1>1, <2>2 DEF Keyboards
<1>4. Scans \in Keyboards /\ Scans.wants = "none" /\ Scans.set = dev.set /\ Scans.scanning
  <2>1. [Wants("none") EXCEPT !.scanning = TRUE] \in Keyboards
    BY <1>2, DevUpdate
  <2> QED
    BY <1>1, <2>1 DEF Keyboards
<1> HIDE DEF Wants, Set2, Scans
<1>5. CASE step = "led_cmd"
  <2>1. Obeys(ByteOf[step]) = Ack(Wants("led"))
    BY <1>5 DEF Obeys, ByteOf, Wants
  <2> QED
    BY <1>2, <1>5, <2>1 DEF DeviceInv
<1>6. CASE step = "led_arg"
  <2>1. Obeys(ByteOf[step]) = Ack(Wants("none")) \/ Obeys(ByteOf[step]) = Refused
    BY <1>6 DEF Obeys, ByteOf, DeviceInv, Wants
  <2> QED
    BY <1>1, <1>2, <1>6, <2>1 DEF DeviceInv
<1>7. CASE step = "get_cmd" \/ step = "set_cmd"
  <2>1. Obeys(ByteOf[step]) = Ack(Wants("set"))
    BY <1>7 DEF Obeys, ByteOf, Wants
  <2> QED
    BY <1>2, <1>7, <2>1 DEF DeviceInv
<1>8. CASE step = "get_arg"
  <2>1. \/ Obeys(ByteOf[step]) = Ack(Wants("none"))
        \/ Obeys(ByteOf[step]) = [dev |-> Wants("none"), answer |-> <<RES_ACK, dev.set>>]
        \/ Obeys(ByteOf[step]) = Refused
    BY <1>8 DEF Obeys, ByteOf, Wants
  <2> QED
    BY <1>1, <1>2, <1>8, <2>1 DEF DeviceInv
<1>9. CASE step = "set_arg"
  <2>1. Obeys(ByteOf[step]) = Ack(Set2) \/ Obeys(ByteOf[step]) = Refused
    BY <1>9 DEF Obeys, ByteOf, DeviceInv, Set2
  <2> QED
    BY <1>1, <1>3, <1>9, <2>1 DEF DeviceInv
<1>10. CASE step = "enable"
  <2>1. Obeys(ByteOf[step]) = Ack(Scans)
    BY <1>10 DEF Obeys, ByteOf, Scans
  <2> QED
    BY <1>4, <1>10, <2>1 DEF DeviceInv
<1> QED
  BY <1>5, <1>6, <1>7, <1>8, <1>9, <1>10, Commands DEF Asking

\* Bytes x and y are all that is on the wire.
TwoBytes(wired, x, y) == Len(wired) = 2 /\ wired[1] = x /\ wired[2] = y

LEMMA WireAppendTwo ==
  ASSUME NEW q \in Seq(Int), NEW o \in Seq(Int), Len(q \o o) = 0,
         NEW x \in Int, NEW y \in Int
  PROVE  TwoBytes(q \o (o \o <<x, y>>), x, y)
BY DEF TwoBytes

\* Type of what the keyboard does with any byte, in time or not.
LEMMA ObeysType ==
  ASSUME StartTypeInv, NEW b \in Int
  PROVE  Obeys(b).dev \in Keyboards /\ out \o Obeys(b).answer \in Seq(Int)
<1>1. dev \in Keyboards /\ dev.set \in Int /\ out \in Seq(Int)
  BY DEF StartTypeInv, Keyboards
<1>2. RES_ACK \in Int /\ RES_RESEND \in Int
  BY DEF RES_ACK, RES_RESEND
<1>3. \A x, y \in Int : out \o <<x>> \in Seq(Int) /\ out \o <<x, y>> \in Seq(Int)
  BY <1>1
<1>4. /\ [dev EXCEPT !.wants = "none"] \in Keyboards
      /\ [dev EXCEPT !.wants = "led"] \in Keyboards
      /\ [dev EXCEPT !.wants = "set"] \in Keyboards
      /\ \A k \in 1..3 : [dev EXCEPT !.wants = "none", !.set = k] \in Keyboards
      /\ [dev EXCEPT !.wants = "none", !.scanning = TRUE] \in Keyboards
  <2>1. \A w \in {"none", "led", "set"} : [dev EXCEPT !.wants = w] \in Keyboards
    BY <1>1, DevUpdate
  <2> DEFINE d == [dev EXCEPT !.wants = "none"]
  <2>2. \A k \in 1..3 : [d EXCEPT !.set = k] \in Keyboards
    <3> HIDE DEF d
    <3>1. d \in Keyboards
      BY <2>1 DEF d
    <3> QED
      BY <3>1, DevUpdate
  <2>3. [d EXCEPT !.scanning = TRUE] \in Keyboards
    <3> HIDE DEF d
    <3>1. d \in Keyboards
      BY <2>1 DEF d
    <3> QED
      BY <3>1, DevUpdate
  <2> QED
    BY <2>1, <2>2, <2>3
<1>5. Obeys(b).dev \in Keyboards
  BY <1>1, <1>4 DEF Obeys
<1>6. Obeys(b).answer \in {<<RES_ACK>>, <<RES_ACK, dev.set>>, <<RES_RESEND>>}
  BY DEF Obeys
<1> QED
  BY <1>1, <1>2, <1>3, <1>5, <1>6

LEMMA AnswerHolds ==
  ASSUME StartInv, Answer
  PROVE  StartInv'
<1> USE DEF StartInv, Answer, driver
<1>1. StartTypeInv'
  BY ObeysType DEF StartTypeInv, NoByte
<1>2. ASSUME ~ late PROVE Dialogue'
  <2> USE <1>2
  <2>1. step # "get_read" /\ ~ enabled /\ (Asking => pc = "recv")
    BY DEF Dialogue, ReadInv, EndInv, SendInv, StartTypeInv
  <2>2. CASE ~ Asking
    <3>1. step = "end"
      BY <2>1, <2>2, Commands DEF Asking, StartTypeInv, Steps
    <3> QED
      BY <2>1, <2>2, <3>1 DEF Dialogue, SendInv, AskedInv, AnsweredInv, ReadInv, AckInv,
         DeviceInv, EndInv, Asking
  <2>3. CASE Asking
    <3>1. /\ input = ByteOf[step] /\ NoAnswers(coming)
          /\ step # "enable" => Len(coming) = 0
      BY <2>1, <2>3 DEF Dialogue, AskedInv
    <3> DEFINE o == Obeys(ByteOf[step])
    <3>2. /\ \/ o.answer = <<RES_ACK>> \/ o.answer = <<RES_RESEND>>
             \/ step = "get_arg" /\ o.answer = <<RES_ACK, o.dev.set>>
          /\ step \in {"led_cmd", "led_arg"} => o.dev.wants # "set"
          /\ step = "set_cmd" => o.dev.wants # "led"
          /\ step = "set_arg" =>
               o.dev.wants # "led" /\ (o.answer = <<RES_RESEND>> \/ o.dev.set = 2)
          /\ step = "enable" => o.dev.set = 2 /\ o.dev.scanning
          /\ step # "enable" => ~ o.dev.scanning
          /\ o.dev \in Keyboards
      BY <2>3, Obedience DEF Dialogue
    <3>3. dev' = o.dev /\ coming' = recv_queue \o (out \o o.answer) /\ coming = recv_queue \o out
      BY <3>1 DEF coming
    <3> HIDE DEF o
    <3>4. Len(coming) \in Nat /\ recv_queue \in Seq(Int) /\ out \in Seq(Int)
      BY <3>3 DEF StartTypeInv
    <3>5. SendInv' /\ AskedInv' /\ ReadInv' /\ EndInv' /\ DeviceInv'
      BY <2>1, <2>3, <3>2, <3>3 DEF SendInv, AskedInv, ReadInv, EndInv, DeviceInv, Asking
    <3>6. AnsweredInv' /\ AckInv'
      <4>1. CASE step = "get_arg" /\ o.answer = <<RES_ACK, o.dev.set>>
        <5>1. RES_ACK \in Int /\ o.dev.set \in Int /\ o.dev.set \notin Answers
          BY <3>2 DEF Keyboards, RES_ACK, RES_RESEND, Answers
        <5>2. Len(coming') = 2 /\ coming'[1] = RES_ACK /\ coming'[2] = o.dev.set
          <6> DEFINE y == o.dev.set
          <6>1. y \in Int /\ coming' = recv_queue \o (out \o <<RES_ACK, y>>) /\ Len(recv_queue \o out) = 0
            BY <3>1, <3>3, <4>1, <5>1
          <6> HIDE DEF y
          <6>2. TwoBytes(recv_queue \o (out \o <<RES_ACK, y>>), RES_ACK, y)
            BY <3>4, <5>1, <6>1, WireAppendTwo, Zenon
          <6>3. TwoBytes(coming', RES_ACK, y)
            BY <6>1, <6>2, Zenon
          <6> QED
            BY <6>3, Zenon DEF TwoBytes, y
        <5>3. OneAnswer(coming)'
          BY <5>1, <5>2 DEF OneAnswer
        <5> QED
          BY <3>3, <4>1, <5>2, <5>3 DEF AnsweredInv, AckInv
      <4>2. ASSUME NEW a \in {RES_ACK, RES_RESEND}, o.answer = <<a>>
            PROVE  AnsweredInv' /\ AckInv'
        <5>1. a \in Int /\ out \o <<a>> = Append(out, a)
          BY <3>4 DEF RES_ACK, RES_RESEND
        <5>2. /\ Len(coming') = Len(coming) + 1
              /\ coming'[Len(coming) + 1] = a
              /\ \A i \in 1..Len(coming) : coming'[i] = coming[i]
          BY <3>3, <3>4, <4>2, <5>1, WireAppend
        <5>3. OneAnswer(coming)'
              /\ \A i \in 1..Len(coming') : coming'[i] \in Answers => i = Len(coming) + 1
          BY <3>1, <3>4, <5>2, OneMore
        <5>4. AnsweredInv'
          BY <3>1, <3>4, <5>2, <5>3 DEF AnsweredInv
        <5>5. o.answer = <<RES_RESEND>> => a = RES_RESEND
          BY <4>2
        <5>6. AckInv'
          <6>1. \A i \in 1..Len(coming') : coming'[i] = RES_ACK => a = RES_ACK
            BY <3>4, <5>2, <5>3 DEF Answers
          <6> QED
            BY <3>2, <3>3, <5>5, <6>1 DEF AckInv, RES_ACK, RES_RESEND
        <5> QED
          BY <5>4, <5>6
      <4> QED
        BY <3>2, <4>1, <4>2
    <3> QED
      BY <3>5, <3>6 DEF Dialogue
  <2> QED
    BY <2>2, <2>3
<1> QED
  BY <1>1, <1>2

-----------------------------------------------------------------------------
(* The driver *)

\* keyboard_start() has returned without enabling the keyboard.
LEMMA Returned ==
  ASSUME step' = "end", ~ enabled'
  PROVE  Dialogue'
BY Commands DEF Dialogue, SendInv, AskedInv, AnsweredInv, ReadInv, AckInv, DeviceInv,
   EndInv, Asking

\* The next byte is about to be sent, and nothing is on its way.
LEMMA NextCommand ==
  ASSUME step' \in DOMAIN ByteOf, pc' = "send", ~ enabled', input' = NoByte, NoAnswers(coming'),
         step' # "enable" => Len(coming') = 0, DeviceInv'
  PROVE  Dialogue'
BY Commands DEF Dialogue, SendInv, AskedInv, AnsweredInv, ReadInv, AckInv, EndInv, Asking,
   NoAnswers, Answers

\* keyboard_send() fails when nothing is on its way, or nothing but what no
\* following step waits for.
LEMMA FailHolds ==
  ASSUME StartTypeInv, DeviceInv, ~ enabled, Fail, UNCHANGED dev, input' = NoByte,
         step # "enable" => Len(coming') = 0
  PROVE  step' \in Steps /\ pc' \in {"send", "recv"} /\ enabled' = enabled
         /\ (step \in {"led_cmd", "led_arg"} \/ step' = "end")
         /\ Dialogue'
<1>1. CASE step \in {"led_cmd", "led_arg"}
  <2>1. step' = "get_cmd" /\ pc' = "send" /\ enabled' = enabled
    BY <1>1 DEF Fail, GoTo
  <2>2. DeviceInv' /\ NoAnswers(coming')
    BY <1>1, <2>1 DEF DeviceInv, NoAnswers
  <2> QED
    BY <1>1, <2>1, <2>2, NextCommand, Commands DEF Steps
<1>2. CASE step \notin {"led_cmd", "led_arg"}
  <2>1. step' = "end" /\ enabled' = enabled /\ pc' = pc
    BY <1>2 DEF Fail, Return
  <2> QED
    BY <2>1, Returned DEF Steps, StartTypeInv
<1> QED
  BY <1>1, <1>2

\* In the middle of the dialogue nothing is enabled yet.
LEMMA NotYet ==
  ASSUME EndInv, step # "end"
  PROVE  ~ enabled
BY DEF EndInv

LEMMA GiveUpHolds ==
  ASSUME StartInv, GiveUp
  PROVE  StartInv'
<1> USE DEF StartInv, GiveUp, Sending, device
<1>1. coming' = coming
  BY DEF coming
<1>2. StartTypeInv'
  BY DEF StartTypeInv, Fail, GoTo, Return, Steps
<1>3. ASSUME ~ late PROVE Dialogue'
  <2>1. step # "end" /\ ~ enabled
    BY <1>3, Commands, NotYet DEF Dialogue
  <2>2. input = NoByte /\ (step # "enable" => Len(coming) = 0)
    BY <1>3 DEF Dialogue, SendInv, Asking
  <2> QED
    BY <1>1, <1>3, <2>1, <2>2, FailHolds DEF Dialogue
<1> QED
  BY <1>2, <1>3

LEMMA SendHolds ==
  ASSUME StartInv, Send
  PROVE  StartInv'
<1> USE DEF StartInv, Send, Sending, device
<1>1. coming' = coming
  BY DEF coming
<1>2. StartTypeInv'
  BY Commands DEF StartTypeInv
<1>3. ASSUME ~ late PROVE Dialogue'
  <2>1. input' # NoByte
    BY Commands
  <2> QED
    BY <1>1, <1>3, <2>1, Commands DEF Dialogue, SendInv, AskedInv, AnsweredInv, ReadInv,
       AckInv, DeviceInv, EndInv, Asking, NoAnswers
<1> QED
  BY <1>2, <1>3

LEMMA SendTimeoutHolds ==
  ASSUME StartInv, SendTimeout
  PROVE  StartInv'
BY DEF StartInv, SendTimeout, device, StartTypeInv

\* Nothing came and nothing is on its way: the byte or its answer is lost.
LEMMA ReceiveTimeoutHolds ==
  ASSUME StartInv, ReceiveTimeout
  PROVE  StartInv'
<1> USE DEF StartInv, ReceiveTimeout, Receiving, device
<1>1. StartTypeInv'
  BY DEF StartTypeInv
<1>2. ASSUME ~ late PROVE Dialogue'
  <2>1. input = NoByte /\ coming = <<>> /\ coming' = coming /\ Len(coming) = 0
    BY <1>2 DEF Quiet, coming
  <2>2. ~ enabled
    BY <1>2, Commands, NotYet DEF Dialogue
  <2>3. DeviceInv' /\ NoAnswers(coming')
    BY <1>2, <2>1 DEF Dialogue, DeviceInv, NoAnswers
  <2> QED
    BY <2>1, <2>2, <2>3, NextCommand
<1> QED
  BY <1>1, <1>2

LEMMA ReadSetTimeoutHolds ==
  ASSUME StartInv, ReadSetTimeout
  PROVE  StartInv'
<1> USE DEF StartInv, ReadSetTimeout, Return, device
<1>1. StartTypeInv'
  BY DEF StartTypeInv, Steps
<1>2. ASSUME ~ late PROVE Dialogue'
  BY <1>2, NotYet, Returned DEF Dialogue
<1> QED
  BY <1>1, <1>2

LEMMA ReadSetHolds ==
  ASSUME StartInv, ReadSet
  PROVE  StartInv'
<1> USE DEF StartInv, ReadSet, device
<1>1. recv_queue \in Seq(Int) /\ out \in Seq(Int)
  BY DEF StartTypeInv
<1>2. StartTypeInv'
  BY <1>1, WireTake DEF StartTypeInv, Steps, GoTo, Return
<1>3. ASSUME ~ late PROVE Dialogue'
  <2>1. /\ Len(coming) \in Nat /\ Len(coming) > 0 /\ Head(recv_queue) = coming[1]
        /\ Len(coming') = Len(coming) - 1
    BY <1>1, WireTake DEF coming
  <2>2. input = NoByte /\ Len(coming') = 0 /\ Head(recv_queue) = dev.set /\ ~ enabled
    BY <1>3, <2>1, NotYet DEF Dialogue, ReadInv
  <2>3. NoAnswers(coming')
    BY <2>2 DEF NoAnswers
  <2>4. CASE step' = "end"
    BY <2>2, <2>4, Returned
  <2>5. CASE step' = "enable" \/ step' = "set_cmd"
    <3>1. pc' = "send" /\ (step' = "enable" => dev.set = 2)
      BY <2>2, <2>5 DEF GoTo, Return
    <3>2. DeviceInv' /\ ~ enabled' /\ input' = NoByte
      BY <1>3, <2>2, <2>5, <3>1 DEF Dialogue, DeviceInv
    <3> QED
      BY <2>2, <2>3, <2>5, <3>1, <3>2, NextCommand, Commands
  <2> QED
    BY <2>4, <2>5 DEF GoTo, Return
<1> QED
  BY <1>2, <1>3

\* What is left behind the byte that is taken for the answer.
LEMMA ReceiveLeaves ==
  ASSUME StartTypeInv, AskedInv, AnsweredInv, AckInv, Receive
  PROVE  /\ Head(recv_queue) = RES_ACK \/ Head(recv_queue) = RES_RESEND =>
              input = NoByte /\ NoAnswers(coming')
         /\ step # "enable" => input = NoByte
         /\ step \notin {"get_arg", "enable"} => Len(coming') = 0
         /\ step = "get_arg" =>
              /\ Len(coming') \in 0..1
              /\ Len(coming') = 1 => Head(recv_queue) = RES_ACK /\ coming'[1] = dev.set
         /\ Head(recv_queue) = RES_ACK =>
              /\ step = "set_cmd" => dev.wants # "led"
              /\ step = "set_arg" => dev.set = 2
              /\ step = "enable" => dev.scanning
<1> USE DEF Receive, Receiving, device
<1>1. recv_queue \in Seq(Int) /\ out \in Seq(Int) /\ recv_queue # <<>>
  BY DEF StartTypeInv
<1>2. coming = recv_queue \o out /\ coming' = Tail(recv_queue) \o out
  BY DEF coming
<1>3. /\ Len(coming) \in Nat /\ Len(coming) > 0 /\ Head(recv_queue) = coming[1]
      /\ Len(coming') = Len(coming) - 1
      /\ \A i \in 1..Len(coming') : coming'[i] = coming[i + 1]
  BY <1>1, <1>2, WireTake
<1>4. step # "enable" => input = NoByte
  BY <1>3 DEF AskedInv, Asking
<1>5. ASSUME Head(recv_queue) \in Answers PROVE input = NoByte /\ NoAnswers(coming')
  <2>1. input = NoByte
    BY <1>3, <1>5 DEF AskedInv, Asking, NoAnswers
  <2>2. OneAnswer(coming)
    BY <2>1 DEF AnsweredInv, Asking
  <2> QED
    BY <1>3, <1>5, <2>1, <2>2 DEF OneAnswer, NoAnswers
<1>6. ASSUME step \notin {"get_arg", "enable"} PROVE Len(coming') = 0
  BY <1>3, <1>4, <1>6 DEF AnsweredInv, Asking
<1>7. ASSUME step = "get_arg"
      PROVE  /\ Len(coming') \in 0..1
             /\ Len(coming') = 1 => Head(recv_queue) = RES_ACK /\ coming'[1] = dev.set
  BY <1>3, <1>4, <1>7 DEF AnsweredInv, Asking
<1>8. ASSUME Head(recv_queue) = RES_ACK
      PROVE  /\ step = "set_cmd" => dev.wants # "led"
             /\ step = "set_arg" => dev.set = 2
             /\ step = "enable" => dev.scanning
  <2>1. 1 \in 1..Len(coming) /\ coming[1] = RES_ACK
    BY <1>3, <1>8
  <2> QED
    BY <2>1 DEF AckInv
<1> QED
  BY <1>4, <1>5, <1>6, <1>7, <1>8 DEF Answers

LEMMA ReceiveHolds ==
  ASSUME StartInv, Receive
  PROVE  StartInv'
<1> USE DEF StartInv
<1>1. recv_queue \in Seq(Int) /\ out \in Seq(Int) /\ step \in DOMAIN ByteOf
  BY DEF StartTypeInv, Receive, Receiving
<1>2. StartTypeInv'
  <2>1. recv_queue' \in Seq(Int) /\ UNCHANGED <<out, input, dev>>
    BY <1>1, WireTake DEF Receive, device
  <2>2. step' \in Steps /\ pc' \in {"send", "recv"} /\ enabled' \in BOOLEAN
    <3>1. CASE Succeed
      <4>1. CASE step \in {"led_cmd", "led_arg", "get_cmd", "set_cmd", "set_arg"}
        BY <3>1, <4>1 DEF Succeed, GoTo, StartTypeInv, Steps
      <4>2. CASE step \in {"get_arg", "enable"}
        BY <3>1, <4>2 DEF Succeed, Return, StartTypeInv, Steps
      <4> QED
        BY <1>1, <4>1, <4>2, Commands
    <3>2. CASE Fail
      BY <3>2 DEF Fail, GoTo, Return, StartTypeInv, Steps
    <3>3. CASE pc' = "send" /\ UNCHANGED <<step, enabled>>
      BY <3>3 DEF StartTypeInv
    <3> QED
      BY <3>1, <3>2, <3>3 DEF Receive
  <2> QED
    BY <2>1, <2>2 DEF StartTypeInv
<1>3. ASSUME ~ late PROVE Dialogue'
  <2> USE <1>3
  <2>1. /\ StartTypeInv /\ AskedInv /\ AnsweredInv /\ AckInv /\ DeviceInv /\ EndInv
        /\ UNCHANGED <<input, dev>>
    BY DEF Dialogue, Receive, device
  <2>2. ~ enabled /\ pc = "recv"
    BY <1>1, <2>1, NotYet, Commands DEF Receive, Receiving
  <2>3. CASE Head(recv_queue) = RES_ACK /\ Succeed
    <3>1. input = NoByte /\ NoAnswers(coming')
      BY <2>1, <2>3, ReceiveLeaves
    <3>2. CASE step \in {"led_cmd", "led_arg", "get_cmd", "set_cmd", "set_arg"}
      <4>1. /\ pc' = "send" /\ ~ enabled' /\ Len(coming') = 0
            /\ step' = [led_cmd |-> "led_arg", led_arg |-> "get_cmd",
                        get_cmd |-> "get_arg", set_cmd |-> "set_arg",
                        set_arg |-> "enable"][step]
        BY <2>1, <2>2, <2>3, <3>2, ReceiveLeaves DEF Succeed, GoTo
      <4>2. /\ step' \in DOMAIN ByteOf
            /\ step' = "led_arg" => step = "led_cmd"
            /\ step' = "set_arg" => step = "set_cmd"
            /\ step' = "enable" => step = "set_arg"
            /\ step' # "led_cmd" /\ step # "enable"
        BY <3>2, <4>1, Commands
      <4>3. DeviceInv'
        BY <2>1, <2>3, <3>2, <4>2, ReceiveLeaves DEF DeviceInv
      <4> QED
        BY <2>1, <3>1, <4>1, <4>2, <4>3, NextCommand
    <3>3. CASE step = "get_arg"
      <4>1. step' = "get_read" /\ ~ enabled'
        BY <2>2, <2>3, <3>3 DEF Succeed
      <4>2. Len(coming') \in 0..1 /\ (Len(coming') = 1 => coming'[1] = dev.set)
        BY <2>1, <3>3, ReceiveLeaves
      <4>3. ReadInv'
        BY <2>1, <3>1, <4>2 DEF ReadInv
      <4>4. DeviceInv'
        BY <2>1, <3>3, <4>1 DEF DeviceInv
      <4>5. EndInv'
        BY <4>1 DEF EndInv
      <4> QED
        BY <4>1, <4>3, <4>4, <4>5, Commands
           DEF Dialogue, SendInv, AskedInv, AnsweredInv, AckInv, Asking
    <3>4. CASE step = "enable"
      <4>1. step' = "end" /\ dev.scanning /\ dev.set = 2
        BY <2>1, <2>3, <3>4, ReceiveLeaves DEF Succeed, Return, DeviceInv
      <4>2. EndInv' /\ DeviceInv'
        BY <2>1, <3>1, <4>1 DEF EndInv, DeviceInv
      <4> QED
        BY <4>1, <4>2, Commands
           DEF Dialogue, SendInv, AskedInv, AnsweredInv, ReadInv, AckInv, Asking
    <3> QED
      BY <1>1, <3>2, <3>3, <3>4, Commands
  <2>4. CASE Head(recv_queue) = RES_RESEND /\ pc' = "send" /\ UNCHANGED <<step, enabled>>
    <3>1. input = NoByte /\ NoAnswers(coming') /\ (step # "enable" => Len(coming') = 0)
      BY <2>1, <2>4, ReceiveLeaves DEF RES_ACK, RES_RESEND
    <3>2. DeviceInv'
      BY <2>1, <2>4 DEF DeviceInv
    <3> QED
      BY <1>1, <2>1, <2>2, <2>4, <3>1, <3>2, NextCommand
  <2>5. CASE Head(recv_queue) # RES_ACK /\ Fail
    <3>1. step # "enable" => input = NoByte /\ Len(coming') = 0
      BY <2>1, <2>5, ReceiveLeaves DEF RES_ACK, RES_RESEND
    <3>2. CASE step = "enable"
      BY <2>2, <2>5, <3>2, Returned DEF Fail, Return
    <3>3. CASE step # "enable"
      BY <2>1, <2>2, <2>5, <3>1, <3>3, FailHolds
    <3> QED
      BY <3>2, <3>3
  <2> QED
    BY <2>3, <2>4, <2>5 DEF Receive, RES_ACK, RES_RESEND
<1> QED
  BY <1>2, <1>3 DEF Receive, device

-----------------------------------------------------------------------------

LEMMA StartNextHolds == StartInv /\ [StartNext]_start_vars => StartInv'
<1> SUFFICES ASSUME StartInv, [StartNext]_start_vars PROVE StartInv'
  OBVIOUS
<1>1. CASE Driver
  BY <1>1, GiveUpHolds, SendHolds, SendTimeoutHolds, ReceiveHolds, ReceiveTimeoutHolds,
     ReadSetHolds, ReadSetTimeoutHolds DEF Driver
<1>2. CASE Keyboard
  BY <1>2, AnswerHolds, RefuseHolds, LoseByteHolds, LoseAnswerHolds, DeliverHolds,
     PressKeyHolds DEF Keyboard
<1>3. CASE UNCHANGED start_vars
  <2>1. coming' = coming
    BY <1>3 DEF start_vars, coming
  <2> QED
    BY <1>3, <2>1 DEF start_vars, driver, device, StartInv, StartTypeInv, Dialogue, SendInv, AskedInv,
       AnsweredInv, ReadInv, AckInv, DeviceInv, EndInv, Asking, NoAnswers, OneAnswer
<1> QED
  BY <1>1, <1>2, <1>3 DEF StartNext

THEOREM StartInvariance == StartSpec => []StartInv
<1> QED
  BY StartInitHolds, StartNextHolds, PTL DEF StartSpec

\* However many bytes and answers were lost, refused and sent again: if the last
\* command of keyboard_start() was acknowledged in time, the keyboard uses scan
\* code set 2 and scans.
THEOREM Ready == StartSpec => []StartedMeansReady
<1>1. StartInv => StartedMeansReady
  BY DEF StartInv, Dialogue, EndInv, StartedMeansReady
<1> QED
  BY <1>1, StartInvariance, PTL

\* ... and the keyboard task, which reads the same queue afterwards, finds no
\* answer in it.
THEOREM NothingLeft == StartSpec => []NoAnswerLeftBehind
<1>1. StartInv => NoAnswerLeftBehind
  <2> SUFFICES ASSUME StartInv, ~ late, enabled,
                      NEW i \in DOMAIN (recv_queue \o out)
               PROVE  (recv_queue \o out)[i] \notin {RES_ACK, RES_RESEND}
    BY DEF NoAnswerLeftBehind
  <2>1. recv_queue \o out \in Seq(Int)
    BY DEF StartInv, StartTypeInv
  <2>2. i \in 1..Len(coming)
    BY <2>1 DEF coming
  <2> QED
    BY <2>2 DEF StartInv, Dialogue, EndInv, NoAnswers, Answers, coming
<1> QED
  BY <1>1, StartInvariance, PTL

===============================================================================
