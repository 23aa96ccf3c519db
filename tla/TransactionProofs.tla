------------------------- MODULE TransactionProofs -------------------------
(* Proofs about Transaction for any connections and bounds. *)
EXTENDS Transaction, TLAPS, SequenceTheorems

Frame == [level : Nat \cup {Bare}, base : SUBSET Items]
Save == [name : Nat, image : SUBSET Items]

(* The first elements of a sequence. *)
LEMMA PrefixSeq ==
    ASSUME NEW S, NEW s \in Seq(S), NEW n \in 0..Len(s)
    PROVE  /\ SubSeq(s, 1, n) \in Seq(S)
           /\ Len(SubSeq(s, 1, n)) = n /\ DOMAIN SubSeq(s, 1, n) = 1..n
           /\ \A i \in 1..n : SubSeq(s, 1, n)[i] = s[i]
  <1>1. Len(s) \in Nat /\ n \in Int /\ 1 \in Int /\ n >= 0
    BY LenProperties
  <1>2. \A i \in 1..n : s[i] \in S
    BY <1>1, ElementOfSeq
  <1>3. /\ SubSeq(s, 1, n) \in Seq(S)
        /\ Len(SubSeq(s, 1, n)) = IF 1 <= n THEN n - 1 + 1 ELSE 0
        /\ \A i \in 1..(n - 1 + 1) : SubSeq(s, 1, n)[i] = s[1 + i - 1]
    BY <1>1, <1>2, SubSeqProperties
  <1>4. Len(SubSeq(s, 1, n)) = n
    BY <1>1, <1>3
  <1>5. DOMAIN SubSeq(s, 1, n) = 1..n
    BY <1>3, <1>4, LenProperties
  <1>6. \A i \in 1..n : SubSeq(s, 1, n)[i] = s[i]
    BY <1>1, <1>3
  <1> QED
    BY <1>3, <1>4, <1>5, <1>6

(* Objects and savepoints have lengths and types. *)
LEMMA Stacks ==
    ASSUME TypeOK
    PROVE  /\ \A c \in Conns : /\ frames[c] \in Seq(Frame)
                               /\ Len(frames[c]) \in Nat
                               /\ DOMAIN frames[c] = 1..Len(frames[c])
                               /\ (frames[c] # <<>> <=> Len(frames[c]) > 0)
                               /\ \A i \in 1..Len(frames[c]) : frames[c][i] \in Frame
           /\ saves \in Seq(Save) /\ Len(saves) \in Nat
           /\ DOMAIN saves = 1..Len(saves)
           /\ \A k \in DOMAIN saves : saves[k] \in Save
  <1>1. saves \in Seq(Save) /\ \A c \in Conns : frames[c] \in Seq(Frame)
    BY DEF TypeOK, Frame, Save
  <1> QED
    BY <1>1, LenProperties, ElementOfSeq, EmptySeq

(* A new object goes on top of its connection's. *)
LEMMA PushStep ==
    ASSUME TypeOK, NEW c \in Conns, NEW n \in Nat \cup {Bare},
           image' \in SUBSET Items, Push(c, n)
    PROVE  /\ frames' \in [Conns -> Seq(Frame)]
           /\ Len(frames'[c]) = Len(frames[c]) + 1
           /\ DOMAIN frames'[c] = 1..(Len(frames[c]) + 1)
           /\ \A i \in 1..Len(frames[c]) : frames'[c][i] = frames[c][i]
           /\ frames'[c][Len(frames[c]) + 1] = [level |-> n, base |-> image']
           /\ \A d \in Conns \ {c} : frames'[d] = frames[d]
  <1> DEFINE f == [level |-> n, base |-> image']
  <1>1. frames \in [Conns -> Seq(Frame)] /\ frames[c] \in Seq(Frame)
    BY DEF TypeOK, Frame
  <1>2. f \in Frame
    BY DEF Frame
  <1>3. frames' = [frames EXCEPT ![c] = Append(frames[c], f)]
    BY DEF Push
  <1> HIDE DEF f
  <1>4. /\ Append(frames[c], f) \in Seq(Frame)
        /\ Len(Append(frames[c], f)) = Len(frames[c]) + 1
        /\ \A i \in 1..Len(frames[c]) : Append(frames[c], f)[i] = frames[c][i]
        /\ Append(frames[c], f)[Len(frames[c]) + 1] = f
    BY <1>1, <1>2, AppendProperties
  <1>5. DOMAIN Append(frames[c], f) = 1..(Len(frames[c]) + 1)
    BY <1>4, LenProperties
  <1>6. frames'[c] = Append(frames[c], f) /\ \A d \in Conns \ {c} : frames'[d] = frames[d]
    BY <1>1, <1>3
  <1>7. frames' \in [Conns -> Seq(Frame)]
    BY <1>1, <1>3, <1>4
  <1> QED
    BY <1>4, <1>5, <1>6, <1>7 DEF f

(* The innermost object goes. *)
LEMMA PopStep ==
    ASSUME TypeOK, NEW c \in Conns, frames[c] # <<>>, NEW b \in BOOLEAN, Pop(c, b)
    PROVE  /\ frames' \in [Conns -> Seq(Frame)] /\ kept' \in BOOLEAN
           /\ Len(frames'[c]) = Len(frames[c]) - 1
           /\ DOMAIN frames'[c] = 1..(Len(frames[c]) - 1)
           /\ \A i \in 1..(Len(frames[c]) - 1) : frames'[c][i] = frames[c][i]
           /\ (Len(frames[c]) = 1 => frames'[c] = <<>>)
           /\ \A d \in Conns \ {c} : frames'[d] = frames[d]
  <1> DEFINE m == Len(frames[c]) - 1
  <1>0. frames \in [Conns -> Seq(Frame)]
    BY DEF TypeOK, Frame
  <1>1. frames[c] \in Seq(Frame) /\ m \in 0..Len(frames[c])
    BY Stacks
  <1>2. frames' = [frames EXCEPT ![c] = SubSeq(frames[c], 1, m)] /\ kept' = b
    BY DEF Pop, Others
  <1>3. frames'[c] = SubSeq(frames[c], 1, m) /\ \A d \in Conns \ {c} : frames'[d] = frames[d]
    BY <1>0, <1>2
  <1> HIDE DEF m
  <1>4. /\ frames'[c] \in Seq(Frame) /\ Len(frames'[c]) = m /\ DOMAIN frames'[c] = 1..m
        /\ \A i \in 1..m : frames'[c][i] = frames[c][i]
    BY <1>1, <1>3, PrefixSeq
  <1>5. frames' \in [Conns -> Seq(Frame)]
    BY <1>0, <1>2, <1>3, <1>4
  <1>6. m = 0 => frames'[c] = <<>>
    BY <1>4, EmptySeq
  <1> QED
    BY <1>2, <1>3, <1>4, <1>5, <1>6 DEF m

-----------------------------------------------------------------------------
(* The counter and the nesting *)

(* The innermost object and its level. *)
LEMMA TopLevel ==
    ASSUME NestInv, NEW c \in Conns, frames[c] # <<>>
    PROVE  \/ /\ Top(c).level = Bare /\ Len(frames[c]) = 1
              /\ depth[c] = 0 /\ writer = c
           \/ /\ depth[c] = Len(frames[c]) /\ Top(c).level = depth[c] - 1
              /\ Top(c).level \in Nat
              /\ \A i \in DOMAIN frames[c] : frames[c][i].level = i - 1
  <1>1. Nested(c) /\ Len(frames[c]) \in Nat /\ Len(frames[c]) > 0
        /\ DOMAIN frames[c] = 1..Len(frames[c])
    BY Stacks DEF NestInv
  <1> QED
    BY <1>1 DEF Nested, Top

(* Whoever ends the innermost object and counts it out keeps the nesting. *)
LEMMA PopNests ==
    ASSUME NestInv, NEW c \in Conns, frames[c] # <<>>, NEW b \in BOOLEAN, Pop(c, b),
           depth' = [depth EXCEPT ![c] = Counted(c)],
           \A d \in Conns \ {c} : writer = d => writer' = d
    PROVE  depth' \in [Conns -> Nat] /\ \A d \in Conns : Nested(d)'
  <1>0. TypeOK /\ depth \in [Conns -> Nat]
    BY DEF NestInv, TypeOK
  <1>1. depth'[c] = Counted(c) /\ \A d \in Conns \ {c} : depth'[d] = depth[d]
    BY <1>0
  <1>2. Len(frames[c]) \in Nat /\ Len(frames[c]) > 0
        /\ DOMAIN frames[c] = 1..Len(frames[c])
    BY <1>0, Stacks
  <1>3. Nested(c)' /\ Counted(c) \in Nat
    <2>1. CASE Top(c).level = Bare
      <3>1. Len(frames[c]) = 1 /\ depth[c] = 0
        BY <2>1, TopLevel DEF Bare
      <3>2. Counted(c) = 0 /\ frames'[c] = <<>>
        BY <1>0, <2>1, <3>1, PopStep DEF Counted
      <3> QED
        BY <1>1, <3>2 DEF Nested
    <2>2. CASE Top(c).level # Bare
      <3>1. /\ depth[c] = Len(frames[c])
            /\ \A i \in DOMAIN frames[c] : frames[c][i].level = i - 1
        BY <2>2, TopLevel
      <3>2. Counted(c) = Len(frames[c]) - 1
        BY <1>2, <2>2, <3>1 DEF Counted, Released
      <3>3. /\ Len(frames'[c]) = Len(frames[c]) - 1
            /\ DOMAIN frames'[c] = 1..(Len(frames[c]) - 1)
            /\ \A i \in 1..(Len(frames[c]) - 1) : frames'[c][i] = frames[c][i]
            /\ (Len(frames[c]) = 1 => frames'[c] = <<>>)
        BY <1>0, PopStep
      <3>7. Counted(c) \in Nat
        BY <1>2, <3>2
      <3>4. CASE Len(frames[c]) = 1
        BY <1>1, <3>2, <3>3, <3>4, <3>7 DEF Nested
      <3>5. CASE Len(frames[c]) > 1
        <4>1. Len(frames'[c]) > 0 /\ depth'[c] = Len(frames'[c])
          BY <1>1, <1>2, <3>2, <3>3, <3>5
        <4>2. \A i \in DOMAIN frames'[c] : frames'[c][i].level = i - 1
          BY <1>2, <3>1, <3>3
        <4> QED
          BY <3>7, <4>1, <4>2 DEF Nested
      <3>6. Len(frames[c]) = 1 \/ Len(frames[c]) > 1
        <4>1. \A n \in Nat : n > 0 => n = 1 \/ n > 1
          OBVIOUS
        <4> QED
          BY <1>2, <4>1
      <3> QED
        BY <3>4, <3>5, <3>6
    <2> QED
      BY <2>1, <2>2
  <1>4. ASSUME NEW d \in Conns \ {c} PROVE Nested(d)'
    <2>1. frames'[d] = frames[d] /\ depth'[d] = depth[d] /\ Nested(d)
      BY <1>0, <1>1, PopStep DEF NestInv
    <2> QED
      BY <2>1 DEF Nested
  <1>5. depth' \in [Conns -> Nat]
    BY <1>0, <1>3
  <1> QED
    BY <1>3, <1>4, <1>5

(* Every other connection stays nested when the lock does not leave it. *)
LEMMA OthersNest ==
    ASSUME NestInv, NEW c \in Conns, Nested(c)',
           \A d \in Conns \ {c} : /\ frames'[d] = frames[d] /\ depth'[d] = depth[d]
                                  /\ (writer = d => writer' = d)
    PROVE  \A d \in Conns : Nested(d)'
  <1>1. ASSUME NEW d \in Conns \ {c} PROVE Nested(d)'
    <2>1. /\ Nested(d) /\ frames'[d] = frames[d] /\ depth'[d] = depth[d]
          /\ (writer = d => writer' = d)
      BY DEF NestInv
    <2> QED
      BY <2>1 DEF Nested
  <1> QED
    BY <1>1

(* The empty stack of savepoints and the lock at rest. *)
LEMMA UnlockStep ==
    ASSUME TypeOK, Unlock
    PROVE  /\ writer' = NoOne /\ writer' \in Conns \cup {NoOne}
           /\ image' \in SUBSET Items /\ saves' \in Seq(Save) /\ begun' \in BOOLEAN
  BY EmptySeq DEF Unlock

(* A connection outside any object takes the lock. *)
LEMMA AcquireStep ==
    ASSUME TypeOK, NEW c \in Conns, Acquire(c)
    PROVE  /\ writer = NoOne /\ writer # c /\ writer' = c /\ begun' = TRUE
           /\ writer' \in Conns \cup {NoOne}
           /\ image' \in SUBSET Items /\ saves' \in Seq(Save) /\ begun' \in BOOLEAN
           /\ \A d \in Conns : writer # d
  BY EmptySeq, TransactionAssumption DEF Acquire, TypeOK

LEMMA OpenOuterStep ==
    ASSUME NestInv, NEW c \in Conns, OpenOuter(c)
    PROVE  NestInv'
  <1>1. /\ TypeOK /\ Acquire(c) /\ Push(c, 0) /\ depth[c] = 0
        /\ depth' = [depth EXCEPT ![c] = 1] /\ UNCHANGED <<disk, kept, steps>>
        /\ depth \in [Conns -> Nat]
    BY DEF OpenOuter, NestInv, TypeOK
  <1>2. frames[c] = <<>> /\ Len(frames[c]) = 0
    <2>1. \/ frames[c] = <<>>
          \/ writer = c
          \/ Len(frames[c]) > 0 /\ 0 = Len(frames[c])
      BY <1>1 DEF NestInv, Nested
    <2>2. writer # c /\ Len(frames[c]) \in Nat
      BY <1>1, AcquireStep, Stacks
    <2>3. frames[c] = <<>>
      BY <2>1, <2>2
    <2> QED
      BY <2>3, EmptySeq
  <1>3. /\ frames' \in [Conns -> Seq(Frame)]
        /\ Len(frames'[c]) = 1 /\ DOMAIN frames'[c] = 1..1
        /\ frames'[c][1].level = 0
        /\ \A d \in Conns \ {c} : frames'[d] = frames[d]
    <2>1. image' \in SUBSET Items /\ 0 \in Nat \cup {Bare}
      BY <1>1, AcquireStep
    <2>2. /\ frames' \in [Conns -> Seq(Frame)]
          /\ Len(frames'[c]) = 0 + 1 /\ DOMAIN frames'[c] = 1..(0 + 1)
          /\ frames'[c][0 + 1] = [level |-> 0, base |-> image']
          /\ \A d \in Conns \ {c} : frames'[d] = frames[d]
      BY <1>1, <1>2, <2>1, PushStep
    <2> QED
      BY <2>2
  <1>4. TypeOK'
    BY <1>1, <1>3, AcquireStep DEF TypeOK, Frame, Save
  <1>5. Nested(c)'
    <2>1. depth'[c] = 1
      BY <1>1
    <2> QED
      BY <1>3, <2>1 DEF Nested
  <1>6. \A d \in Conns : Nested(d)'
    BY <1>1, <1>3, <1>5, AcquireStep, OthersNest
  <1> QED
    BY <1>4, <1>6 DEF NestInv

LEMMA OpenBareStep ==
    ASSUME NestInv, NEW c \in Conns, OpenBare(c)
    PROVE  NestInv'
  <1>1. /\ TypeOK /\ Acquire(c) /\ Push(c, Bare) /\ frames[c] = <<>>
        /\ UNCHANGED <<disk, depth, kept, steps>>
    BY DEF OpenBare, NestInv, TypeOK
  <1>2. Len(frames[c]) = 0 /\ depth[c] = 0
    BY <1>1, Stacks DEF NestInv, Nested
  <1>3. /\ frames' \in [Conns -> Seq(Frame)]
        /\ Len(frames'[c]) = 1 /\ frames'[c][1].level = Bare
        /\ \A d \in Conns \ {c} : frames'[d] = frames[d]
    <2>1. image' \in SUBSET Items /\ Bare \in Nat \cup {Bare}
      BY <1>1, AcquireStep
    <2>2. /\ frames' \in [Conns -> Seq(Frame)]
          /\ Len(frames'[c]) = 0 + 1
          /\ frames'[c][0 + 1] = [level |-> Bare, base |-> image']
          /\ \A d \in Conns \ {c} : frames'[d] = frames[d]
      BY <1>1, <1>2, <2>1, PushStep
    <2> QED
      BY <2>2
  <1>4. TypeOK'
    BY <1>1, <1>3, AcquireStep DEF TypeOK, Frame, Save
  <1>5. Nested(c)'
    BY <1>1, <1>2, <1>3, AcquireStep DEF Nested
  <1>6. \A d \in Conns : Nested(d)'
    BY <1>1, <1>3, <1>5, AcquireStep, OthersNest
  <1> QED
    BY <1>4, <1>6 DEF NestInv

(* A nested object goes one level deeper. *)
LEMMA DeeperStep ==
    ASSUME NestInv, NEW c \in Conns, depth[c] > 0, Push(c, depth[c]),
           image' \in SUBSET Items,
           depth' = [depth EXCEPT ![c] = @ + 1],
           \A d \in Conns \ {c} : writer = d => writer' = d
    PROVE  /\ frames' \in [Conns -> Seq(Frame)] /\ depth' \in [Conns -> Nat]
           /\ \A d \in Conns : Nested(d)'
           /\ depth[c] = Len(frames[c]) /\ Len(frames'[c]) = Len(frames[c]) + 1
           /\ \A i \in 1..Len(frames[c]) : frames'[c][i] = frames[c][i]
           /\ frames'[c][Len(frames[c]) + 1].base = image'
  <1>1. TypeOK /\ depth \in [Conns -> Nat] /\ depth[c] \in Nat
    BY DEF NestInv, TypeOK
  <1>2. /\ depth[c] = Len(frames[c]) /\ DOMAIN frames[c] = 1..Len(frames[c])
        /\ \A i \in DOMAIN frames[c] : frames[c][i].level = i - 1
    BY <1>1, Stacks DEF NestInv, Nested
  <1>3. /\ frames' \in [Conns -> Seq(Frame)]
        /\ Len(frames'[c]) = Len(frames[c]) + 1
        /\ DOMAIN frames'[c] = 1..(Len(frames[c]) + 1)
        /\ \A i \in 1..Len(frames[c]) : frames'[c][i] = frames[c][i]
        /\ frames'[c][Len(frames[c]) + 1].level = depth[c]
        /\ frames'[c][Len(frames[c]) + 1].base = image'
        /\ \A d \in Conns \ {c} : frames'[d] = frames[d]
    <2>1. depth[c] \in Nat \cup {Bare}
      BY <1>1
    <2>2. /\ frames' \in [Conns -> Seq(Frame)]
          /\ Len(frames'[c]) = Len(frames[c]) + 1
          /\ DOMAIN frames'[c] = 1..(Len(frames[c]) + 1)
          /\ \A i \in 1..Len(frames[c]) : frames'[c][i] = frames[c][i]
          /\ frames'[c][Len(frames[c]) + 1] = [level |-> depth[c], base |-> image']
          /\ \A d \in Conns \ {c} : frames'[d] = frames[d]
      BY <1>1, <2>1, PushStep
    <2> QED
      BY <2>2
  <1>4. /\ depth'[c] = depth[c] + 1 /\ depth' \in [Conns -> Nat]
        /\ \A d \in Conns \ {c} : depth'[d] = depth[d]
    BY <1>1
  <1>5. Nested(c)'
    <2>1. Len(frames'[c]) > 0 /\ depth'[c] = Len(frames'[c])
      BY <1>1, <1>2, <1>3, <1>4
    <2>2. \A i \in DOMAIN frames'[c] : frames'[c][i].level = i - 1
      BY <1>1, <1>2, <1>3
    <2> QED
      BY <2>1, <2>2 DEF Nested
  <1>6. \A d \in Conns : Nested(d)'
    BY <1>3, <1>4, <1>5, OthersNest
  <1> QED
    BY <1>2, <1>3, <1>4, <1>6

LEMMA OpenInnerStep ==
    ASSUME NestInv, NEW c \in Conns, OpenInner(c) \/ OpenStray(c)
    PROVE  NestInv'
  <1>1. /\ TypeOK /\ depth[c] > 0 /\ depth[c] \in Nat /\ Push(c, depth[c])
        /\ depth' = [depth EXCEPT ![c] = @ + 1]
        /\ steps[c] < MaxSteps /\ steps' = [steps EXCEPT ![c] = @ + 1]
        /\ disk' = disk /\ kept' = kept
    BY DEF OpenInner, OpenStray, NestInv, TypeOK
  <1>2. /\ writer' \in Conns \cup {NoOne} /\ image' \in SUBSET Items
        /\ saves' \in Seq(Save) /\ begun' \in BOOLEAN
        /\ \A d \in Conns \ {c} : writer = d => writer' = d
    <2>1. CASE OpenInner(c)
      <3>1. /\ saves' = Append(saves, [name |-> SavepointName(depth[c]), image |-> image])
            /\ writer' = writer /\ image' = image /\ begun' = begun
        BY <2>1 DEF OpenInner
      <3>2. [name |-> SavepointName(depth[c]), image |-> image] \in Save
        BY <1>1 DEF TypeOK, Save, SavepointName
      <3>3. saves' \in Seq(Save)
        BY <1>1, <3>1, <3>2, Stacks, AppendProperties
      <3> QED
        BY <1>1, <3>1, <3>3 DEF TypeOK
    <2>2. CASE OpenStray(c)
      <3>1. /\ saves' = <<[name |-> SavepointName(depth[c]), image |-> disk]>>
            /\ writer = NoOne /\ writer' = c /\ image' = disk /\ begun' = FALSE
        BY <2>2 DEF OpenStray
      <3>2. [name |-> SavepointName(depth[c]), image |-> disk] \in Save
        BY <1>1 DEF TypeOK, Save, SavepointName
      <3>3. saves' \in Seq(Save)
        BY <3>1, <3>2
      <3>4. /\ writer' \in Conns \cup {NoOne} /\ image' \in SUBSET Items
            /\ begun' \in BOOLEAN
        BY <1>1, <3>1 DEF TypeOK
      <3>5. \A d \in Conns : writer # d
        BY <3>1, TransactionAssumption
      <3> QED
        BY <3>3, <3>4, <3>5
    <2> QED
      BY <2>1, <2>2
  <1>3. steps' \in [Conns -> 0..MaxSteps]
    <2>1. steps \in [Conns -> 0..MaxSteps] /\ steps[c] + 1 \in 0..MaxSteps
      BY <1>1, TransactionAssumption DEF TypeOK
    <2> QED
      BY <1>1, <2>1
  <1>4. /\ frames' \in [Conns -> Seq(Frame)] /\ depth' \in [Conns -> Nat]
        /\ \A d \in Conns : Nested(d)'
    BY <1>1, <1>2, DeeperStep
  <1>5. TypeOK'
    BY <1>1, <1>2, <1>3, <1>4 DEF TypeOK, Frame, Save
  <1> QED
    BY <1>4, <1>5 DEF NestInv

(* A statement. *)
LEMMA WriteStep ==
    ASSUME NestInv, NEW c \in Conns, Write(c)
    PROVE  NestInv'
  <1>1. /\ TypeOK /\ steps[c] < MaxSteps /\ steps' = [steps EXCEPT ![c] = @ + 1]
        /\ UNCHANGED <<frames, depth, kept>>
        /\ writer' = writer /\ saves' = saves /\ begun' = begun
        /\ image' \in {image, image \cup {Issued(c)}}
        /\ disk' \in {disk, disk \cup {Issued(c)}}
    BY DEF Write, lock, NestInv
  <1>2. /\ steps \in [Conns -> 0..MaxSteps] /\ steps[c] + 1 \in 1..MaxSteps
    BY <1>1, TransactionAssumption DEF TypeOK
  <1>3. Issued(c) \in Items /\ steps' \in [Conns -> 0..MaxSteps]
    BY <1>1, <1>2 DEF Issued, Items
  <1>4. disk' \in SUBSET Items /\ image' \in SUBSET Items
    BY <1>1, <1>3 DEF TypeOK
  <1>5. TypeOK'
    BY <1>1, <1>3, <1>4 DEF TypeOK
  <1>6. \A d \in Conns : Nested(d)'
    BY <1>1 DEF NestInv, Nested
  <1> QED
    BY <1>5, <1>6 DEF NestInv
-----------------------------------------------------------------------------
(* The ends of an object *)

(* RELEASE SAVEPOINT leaves the lock where it was or gives it back. *)
LEMMA ReleaseStep ==
    ASSUME TypeOK, NEW i \in DOMAIN saves, NEW written \in SUBSET Items,
           Release(i, written)
    PROVE  /\ disk' \in SUBSET Items /\ image' \in SUBSET Items
           /\ saves' \in Seq(Save) /\ begun' \in BOOLEAN
           /\ writer' \in {writer, NoOne}
  <1>1. CASE i = 1 /\ ~ begun
    BY <1>1, UnlockStep DEF Release
  <1>2. CASE ~ (i = 1 /\ ~ begun)
    <2>1. /\ image' = written /\ saves' = SubSeq(saves, 1, i - 1)
          /\ disk' = disk /\ writer' = writer /\ begun' = begun
      BY <1>2 DEF Release
    <2>2. saves \in Seq(Save) /\ i - 1 \in 0..Len(saves)
      BY Stacks
    <2>3. saves' \in Seq(Save)
      BY <2>1, <2>2, PrefixSeq
    <2> QED
      BY <2>1, <2>3 DEF TypeOK
  <1> QED
    BY <1>1, <1>2

(* What the ends of an object have in common. *)
LEMMA EndStep ==
    ASSUME NestInv, NEW c \in Conns, frames[c] # <<>>, NEW b \in BOOLEAN, Pop(c, b),
           depth' = [depth EXCEPT ![c] = Counted(c)],
           disk' \in SUBSET Items, image' \in SUBSET Items, saves' \in Seq(Save),
           begun' \in BOOLEAN, steps' = steps,
           writer' = writer \/ (writer' = NoOne /\ writer = c)
    PROVE  NestInv'
  <1>1. TypeOK /\ writer' \in Conns \cup {NoOne}
    BY DEF NestInv, TypeOK
  <1>2. \A d \in Conns \ {c} : writer = d => writer' = d
    OBVIOUS
  <1>3. depth' \in [Conns -> Nat] /\ \A d \in Conns : Nested(d)'
    BY <1>2, PopNests
  <1>4. frames' \in [Conns -> Seq(Frame)] /\ kept' \in BOOLEAN
    BY <1>1, PopStep
  <1>5. TypeOK'
    BY <1>1, <1>3, <1>4 DEF TypeOK, Frame, Save
  <1> QED
    BY <1>3, <1>5 DEF NestInv

(* A savepoint that is found is on the stack, as is its image. *)
LEMMA FoundStep ==
    ASSUME TypeOK, NEW c \in Conns, Found(c)
    PROVE  LET i == Newest(SavepointName(Top(c).level))
           IN  i \in DOMAIN saves /\ saves[i].image \in SUBSET Items
  <1> DEFINE i == Newest(SavepointName(Top(c).level))
  <1>1. IsNewest(i, SavepointName(Top(c).level))
    BY DEF Found, Newest
  <1>2. i \in DOMAIN saves
    BY <1>1 DEF IsNewest
  <1>3. saves[i] \in Save
    BY <1>2, Stacks
  <1> QED
    BY <1>2, <1>3 DEF Save

(* An object that is not bare is counted out. *)
LEMMA InnerCounted ==
    ASSUME NestInv, NEW c \in Conns, frames[c] # <<>>, Top(c).level # Bare
    PROVE  Counted(c) = Released(depth[c])
  BY DEF Counted

LEMMA CloseStep ==
    ASSUME NestInv, NEW c \in Conns, Close(c)
    PROVE  NestInv'
  <1>1. TypeOK
    BY DEF NestInv
  <1> DEFINE i == Newest(SavepointName(Top(c).level))
  <1>2. CASE CommitOuter(c)
    <2>1. /\ frames[c] # <<>> /\ writer = c /\ disk' = image /\ Unlock /\ Pop(c, TRUE)
          /\ depth' = [depth EXCEPT ![c] = Counted(c)] /\ steps' = steps
      BY <1>2 DEF CommitOuter
    <2>2. disk' \in SUBSET Items
      BY <1>1, <2>1 DEF TypeOK
    <2> QED
      BY <1>1, <2>1, <2>2, UnlockStep, EndStep
  <1>3. CASE CommitRefused(c)
    <2>1. /\ frames[c] # <<>> /\ writer = c /\ disk' = disk /\ Unlock /\ Pop(c, FALSE)
          /\ depth' = [depth EXCEPT ![c] = Counted(c)] /\ steps' = steps
      BY <1>3 DEF CommitRefused, Rollback, Counted, DepthAfterRefusal
    <2>2. disk' \in SUBSET Items
      BY <1>1, <2>1 DEF TypeOK
    <2> QED
      BY <1>1, <2>1, <2>2, UnlockStep, EndStep
  <1>4. CASE LeaveOuter(c)
    <2>1. /\ frames[c] # <<>> /\ writer = c /\ disk' = disk /\ Unlock /\ Pop(c, FALSE)
          /\ depth' = [depth EXCEPT ![c] = Counted(c)] /\ steps' = steps
      BY <1>4 DEF LeaveOuter, Rollback
    <2>2. disk' \in SUBSET Items
      BY <1>1, <2>1 DEF TypeOK
    <2> QED
      BY <1>1, <2>1, <2>2, UnlockStep, EndStep
  <1>5. CASE CommitInner(c)
    <2>1. /\ frames[c] # <<>> /\ Top(c).level > 0 /\ writer = c /\ Found(c)
          /\ Release(i, image) /\ Pop(c, TRUE)
          /\ depth' = [depth EXCEPT ![c] = Released(depth[c])] /\ steps' = steps
      BY <1>5 DEF CommitInner
    <2>2. Top(c).level # Bare
      BY <2>1 DEF Bare
    <2>3. depth' = [depth EXCEPT ![c] = Counted(c)]
      BY <2>1, <2>2, InnerCounted
    <2>4. i \in DOMAIN saves /\ image \in SUBSET Items
      BY <1>1, <2>1, FoundStep DEF TypeOK
    <2>5. /\ disk' \in SUBSET Items /\ image' \in SUBSET Items
          /\ saves' \in Seq(Save) /\ begun' \in BOOLEAN
          /\ writer' \in {writer, NoOne}
      BY <1>1, <2>1, <2>4, ReleaseStep
    <2> HIDE DEF i
    <2> QED
      BY <2>1, <2>3, <2>5, EndStep
  <1>6. CASE ReleaseRefused(c)
    <2>1. /\ frames[c] # <<>> /\ Top(c).level > 0 /\ writer = c /\ Found(c)
          /\ image' = saves[i].image /\ saves' = SubSeq(saves, 1, i) /\ Pop(c, FALSE)
          /\ depth' = [depth EXCEPT ![c] = Released(depth[c])]
          /\ disk' = disk /\ writer' = writer /\ begun' = begun /\ steps' = steps
      BY <1>6 DEF ReleaseRefused
    <2>2. Top(c).level # Bare
      BY <2>1 DEF Bare
    <2>3. depth' = [depth EXCEPT ![c] = Counted(c)]
      BY <2>1, <2>2, InnerCounted
    <2>4. i \in DOMAIN saves /\ saves[i].image \in SUBSET Items
      BY <1>1, <2>1, FoundStep
    <2> HIDE DEF i
    <2>5. saves \in Seq(Save) /\ i \in 0..Len(saves)
      BY <1>1, <2>4, Stacks
    <2>6. saves' \in Seq(Save)
      BY <2>1, <2>5, PrefixSeq
    <2>7. disk' \in SUBSET Items /\ image' \in SUBSET Items /\ begun' \in BOOLEAN
      BY <1>1, <2>1, <2>4 DEF TypeOK
    <2> QED
      BY <2>1, <2>3, <2>6, <2>7, EndStep
  <1>7. CASE LeaveInner(c)
    <2>1. /\ frames[c] # <<>> /\ Top(c).level > 0 /\ writer = c /\ Found(c)
          /\ Release(i, saves[i].image) /\ Pop(c, FALSE)
          /\ depth' = [depth EXCEPT ![c] = Released(depth[c])] /\ steps' = steps
      BY <1>7 DEF LeaveInner, Unwound
    <2>2. Top(c).level # Bare
      BY <2>1 DEF Bare
    <2>3. depth' = [depth EXCEPT ![c] = Counted(c)]
      BY <2>1, <2>2, InnerCounted
    <2>4. i \in DOMAIN saves /\ saves[i].image \in SUBSET Items
      BY <1>1, <2>1, FoundStep
    <2>5. /\ disk' \in SUBSET Items /\ image' \in SUBSET Items
          /\ saves' \in Seq(Save) /\ begun' \in BOOLEAN
          /\ writer' \in {writer, NoOne}
      BY <1>1, <2>1, <2>4, ReleaseStep
    <2> HIDE DEF i
    <2> QED
      BY <2>1, <2>3, <2>5, EndStep
  <1>8. CASE LeaveLost(c)
    <2>1. /\ frames[c] # <<>> /\ Pop(c, FALSE)
          /\ depth' = [depth EXCEPT ![c] = Counted(c)]
          /\ disk' = disk /\ writer' = writer /\ image' = image /\ saves' = saves
          /\ begun' = begun /\ steps' = steps
      BY <1>8 DEF LeaveLost, lock
    <2>2. /\ disk' \in SUBSET Items /\ image' \in SUBSET Items
          /\ saves' \in Seq(Save) /\ begun' \in BOOLEAN
      BY <1>1, <2>1 DEF TypeOK, Save
    <2> QED
      BY <2>1, <2>2, EndStep
  <1> QED
    BY <1>2, <1>3, <1>4, <1>5, <1>6, <1>7, <1>8 DEF Close

-----------------------------------------------------------------------------
(* The failures *)

LEMMA CrashStep ==
    ASSUME NestInv, NEW c \in Conns, Crash(c)
    PROVE  NestInv'
  <1>1. /\ TypeOK /\ frames' = [frames EXCEPT ![c] = <<>>]
        /\ depth' = [depth EXCEPT ![c] = 0] /\ UNCHANGED <<disk, kept, steps>>
        /\ (writer = c => Unlock) /\ (writer # c => UNCHANGED lock)
    BY DEF Crash, NestInv
  <1>2. /\ writer' \in Conns \cup {NoOne} /\ image' \in SUBSET Items
        /\ saves' \in Seq(Save) /\ begun' \in BOOLEAN
        /\ \A d \in Conns \ {c} : writer = d => writer' = d
    <2>1. CASE writer = c
      BY <1>1, <2>1, UnlockStep
    <2>2. CASE writer # c
      BY <1>1, <2>2 DEF lock, TypeOK, Save
    <2> QED
      BY <2>1, <2>2
  <1>3. /\ frames \in [Conns -> Seq(Frame)] /\ depth \in [Conns -> Nat]
        /\ <<>> \in Seq(Frame)
    BY <1>1, EmptySeq DEF TypeOK, Frame
  <1>4. /\ frames' \in [Conns -> Seq(Frame)] /\ depth' \in [Conns -> Nat]
        /\ frames'[c] = <<>> /\ depth'[c] = 0
        /\ \A d \in Conns \ {c} : frames'[d] = frames[d] /\ depth'[d] = depth[d]
    BY <1>1, <1>3
  <1>5. TypeOK'
    BY <1>1, <1>2, <1>4 DEF TypeOK, Frame, Save
  <1>6. Nested(c)'
    BY <1>4 DEF Nested
  <1>7. \A d \in Conns : Nested(d)'
    BY <1>2, <1>4, <1>6, OthersNest
  <1> QED
    BY <1>5, <1>7 DEF NestInv

(* SQLite's own rollback leaves the objects and the counter. *)
LEMMA EngineStep ==
    ASSUME NestInv, NEW c \in Conns, EngineRollsBack(c)
    PROVE  NestInv'
  <1>1. /\ TypeOK /\ writer = c /\ Top(c).level # Bare /\ Unlock
        /\ UNCHANGED <<disk, frames, depth, kept, steps>>
    BY DEF EngineRollsBack, NestInv
  <1>2. TypeOK'
    BY <1>1, UnlockStep DEF TypeOK, Save
  <1>3. Nested(c)'
    <2>1. CASE Len(frames[c]) = 1 /\ frames[c][1].level = Bare
      BY <1>1, <2>1 DEF Top
    <2>2. CASE ~ (Len(frames[c]) = 1 /\ frames[c][1].level = Bare)
      BY <1>1, <2>2 DEF NestInv, Nested
    <2> QED
      BY <2>1, <2>2
  <1>4. \A d \in Conns : Nested(d)'
    BY <1>1, <1>3, OthersNest
  <1> QED
    BY <1>2, <1>4 DEF NestInv

(* At every step of every run the live objects of a connection are one per
   level below its counter, or a single bare one that holds the lock. *)
THEOREM NestingInvariant == Spec => []NestInv
  <1>1. Init => NestInv
    <2> SUFFICES ASSUME Init PROVE NestInv
      OBVIOUS
    <2>1. saves \in Seq(Save)
      BY EmptySeq DEF Init
    <2>2. frames \in [Conns -> Seq(Frame)]
      <3>1. <<>> \in Seq(Frame)
        BY EmptySeq
      <3> QED
        BY <3>1 DEF Init
    <2>3. steps \in [Conns -> 0..MaxSteps] /\ depth \in [Conns -> Nat]
      BY TransactionAssumption DEF Init
    <2>4. TypeOK
      BY <2>1, <2>2, <2>3 DEF Init, TypeOK, Save, Frame
    <2>5. \A c \in Conns : Nested(c)
      BY DEF Init, Nested
    <2> QED
      BY <2>4, <2>5 DEF NestInv
  <1>2. NestInv /\ [Next]_vars => NestInv'
    <2> SUFFICES ASSUME NestInv, [Next]_vars PROVE NestInv'
      OBVIOUS
    <2>1. CASE UNCHANGED vars
      BY <2>1 DEF vars, lock, NestInv, TypeOK, Nested
    <2>2. CASE Next
      <3> PICK c \in Conns : \/ OpenOuter(c) \/ OpenInner(c) \/ OpenBare(c)
                             \/ OpenStray(c) \/ Write(c) \/ Close(c)
                             \/ Crash(c) \/ EngineRollsBack(c)
        BY <2>2 DEF Next
      <3> QED
        BY OpenOuterStep, OpenInnerStep, OpenBareStep, WriteStep, CloseStep,
           CrashStep, EngineStep
    <2> QED
      BY <2>1, <2>2
  <1> QED
    BY <1>1, <1>2, PTL DEF Spec

(* depths() of Transaction.cpp, which decides between BEGIN and SAVEPOINT, is
   how deep the live objects of the connection are nested, also after refused
   commits and after SQLite ended the transaction by itself. *)
THEOREM CounterIsNesting == Spec => []DepthIsNesting
  <1>1. NestInv => DepthIsNesting
    <2> SUFFICES ASSUME NestInv, NEW c \in Conns
                 PROVE  depth[c] = IF frames[c] # <<>> /\ frames[c][1].level = Bare
                                   THEN 0 ELSE Len(frames[c])
      BY DEF DepthIsNesting
    <2>1. Len(frames[c]) \in Nat /\ DOMAIN frames[c] = 1..Len(frames[c]) /\ Nested(c)
      BY Stacks DEF NestInv
    <2>2. CASE frames[c] = <<>> /\ depth[c] = 0
      BY <2>2, EmptySeq
    <2>3. CASE Len(frames[c]) = 1 /\ frames[c][1].level = Bare /\ depth[c] = 0
      BY <2>3, EmptySeq
    <2>4. CASE /\ Len(frames[c]) > 0 /\ depth[c] = Len(frames[c])
               /\ \A i \in DOMAIN frames[c] : frames[c][i].level = i - 1
      <3>1. frames[c][1].level = 0
        BY <2>1, <2>4
      <3> QED
        BY <2>4, <3>1 DEF Bare
    <2> QED
      BY <2>1, <2>2, <2>3, <2>4 DEF Nested
  <1> QED
    BY <1>1, NestingInvariant, PTL

-----------------------------------------------------------------------------
(* While SQLite ends no transaction by itself *)

(* The savepoint of a live object is the newest of its name. *)
LEMMA OwnIsNewest ==
    ASSUME TypeOK, NEW c \in Conns, NEW n \in Nat, OwnSavepoint(c, n)
    PROVE  /\ Newest(n) \in DOMAIN saves /\ IsNewest(Newest(n), n)
           /\ saves[Newest(n)].name = n
           /\ saves[Newest(n)].image = frames[c][n + 1].base
           /\ \A j \in DOMAIN saves : j > Newest(n) => saves[j].name > n
  <1>1. PICK k \in DOMAIN saves :
            /\ saves[k].name = n /\ saves[k].image = frames[c][n + 1].base
            /\ \A j \in DOMAIN saves : j > k => saves[j].name > n
    BY DEF OwnSavepoint
  <1>2. DOMAIN saves = 1..Len(saves) /\ Len(saves) \in Nat
    BY Stacks
  <1>3. \A j \in DOMAIN saves : saves[j].name = n => j <= k
    BY <1>1, <1>2
  <1>4. IsNewest(k, n)
    BY <1>1, <1>3 DEF IsNewest
  <1>5. IsNewest(Newest(n), n)
    BY <1>4 DEF Newest
  <1>6. Newest(n) = k
    BY <1>1, <1>2, <1>4, <1>5 DEF IsNewest
  <1> QED
    BY <1>1, <1>4, <1>6

(* The stack cut at or just below the innermost object's savepoint keeps the
   savepoints of the objects around it. *)
LEMMA CutKeepsOwn ==
    ASSUME TypeOK, NEW c \in Conns, NEW t \in Nat, NEW n \in Nat, n < t,
           OwnSavepoint(c, t), OwnSavepoint(c, n),
           NEW m \in {Newest(t) - 1, Newest(t)},
           saves' = SubSeq(saves, 1, m),
           frames'[c][n + 1] = frames[c][n + 1]
    PROVE  OwnSavepoint(c, n)'
  <1>1. /\ saves \in Seq(Save) /\ Len(saves) \in Nat /\ DOMAIN saves = 1..Len(saves)
    BY Stacks
  <1>2. /\ Newest(t) \in DOMAIN saves
        /\ \A j \in DOMAIN saves : j > Newest(t) => saves[j].name > t
        /\ saves[Newest(t)].name = t
    BY OwnIsNewest
  <1>3. PICK k \in DOMAIN saves :
            /\ saves[k].name = n /\ saves[k].image = frames[c][n + 1].base
            /\ \A j \in DOMAIN saves : j > k => saves[j].name > n
    BY DEF OwnSavepoint
  <1>4. k < Newest(t)
    BY <1>1, <1>2, <1>3
  <1>5. m \in 0..Len(saves) /\ k \in 1..m
    BY <1>1, <1>2, <1>3, <1>4
  <1>6. DOMAIN saves' = 1..m /\ \A j \in 1..m : saves'[j] = saves[j]
    BY <1>1, <1>5, PrefixSeq
  <1>7. \A j \in 1..m : j \in DOMAIN saves
    BY <1>1, <1>5
  <1> QED
    BY <1>3, <1>5, <1>6, <1>7 DEF OwnSavepoint

(* Who holds objects holds the lock, and nobody else holds objects. *)
LEMMA Alone ==
    ASSUME LockFollowsFrames, NEW c \in Conns, frames[c] # <<>>
    PROVE  writer = c /\ writer # NoOne /\ \A d \in Conns \ {c} : frames[d] = <<>>
  BY TransactionAssumption DEF LockFollowsFrames

(* Nobody holds objects while the lock is free. *)
LEMMA Free ==
    ASSUME LockFollowsFrames, writer = NoOne
    PROVE  \A d \in Conns : frames[d] = <<>>
  BY TransactionAssumption DEF LockFollowsFrames

(* The first object of a connection. *)
LEMMA FirstInStep ==
    ASSUME NestInv, InStep, NEW c \in Conns, NEW n \in Nat \cup {Bare},
           Acquire(c), Push(c, n)
    PROVE  InStep'
  <1>1. /\ TypeOK /\ LockFollowsFrames /\ writer = NoOne /\ writer' = c /\ begun' = TRUE
        /\ image' \in SUBSET Items
    BY AcquireStep DEF NestInv, InStep
  <1>2. \A d \in Conns : frames[d] = <<>>
    BY <1>1, Free
  <1>3. /\ Len(frames'[c]) = 0 + 1 /\ \A d \in Conns \ {c} : frames'[d] = frames[d]
    <2>1. Len(frames[c]) = 0
      BY <1>2, EmptySeq
    <2> QED
      BY <1>1, <2>1, PushStep
  <1>4. frames'[c] # <<>>
    BY <1>3, EmptySeq
  <1>5. LockFollowsFrames'
    BY <1>1, <1>2, <1>3, <1>4 DEF LockFollowsFrames
  <1>6. \A d \in Conns : writer' = d =>
            \A k \in 1..(Len(frames'[d]) - 1) : OwnSavepoint(d, k)'
    <2>1. Len(frames'[c]) - 1 = 0
      BY <1>3
    <2>2. \A k \in 1..(Len(frames'[c]) - 1) : FALSE
      <3>1. \A k \in 1..0 : FALSE
        OBVIOUS
      <3> QED
        BY <2>1, <3>1
    <2> QED
      BY <1>1, <2>2
  <1> QED
    BY <1>1, <1>5, <1>6 DEF InStep

LEMMA InnerInStep ==
    ASSUME NestInv, InStep, NEW c \in Conns, OpenInner(c)
    PROVE  InStep'
  <1> DEFINE s == [name |-> depth[c], image |-> image]
             L == Len(frames[c])
             M == Len(saves)
  <1>1. /\ TypeOK /\ LockFollowsFrames /\ depth[c] > 0 /\ depth[c] \in Nat
        /\ Push(c, depth[c]) /\ writer = c /\ writer' = c /\ begun' = begun /\ begun
        /\ saves' = Append(saves, s) /\ image' = image /\ image \in SUBSET Items
        /\ depth' = [depth EXCEPT ![c] = @ + 1]
    BY TransactionAssumption DEF OpenInner, SavepointName, NestInv, TypeOK, InStep
  <1>2. /\ depth[c] = L /\ Len(frames'[c]) = L + 1
        /\ \A i \in 1..L : frames'[c][i] = frames[c][i]
        /\ frames'[c][L + 1].base = image
    BY <1>1, DeeperStep
  <1>3. /\ saves \in Seq(Save) /\ M \in Nat /\ DOMAIN saves = 1..M
        /\ L \in Nat
    BY <1>1, Stacks
  <1>4. /\ Len(saves') = M + 1 /\ DOMAIN saves' = 1..(M + 1)
        /\ \A j \in 1..M : saves'[j] = saves[j]
        /\ saves'[M + 1] = s
    <2>1. s \in Save
      BY <1>1 DEF Save
    <2> HIDE DEF s
    <2>2. /\ Append(saves, s) \in Seq(Save) /\ Len(Append(saves, s)) = M + 1
          /\ \A j \in 1..M : Append(saves, s)[j] = saves[j]
          /\ Append(saves, s)[M + 1] = s
      BY <1>3, <2>1, AppendProperties
    <2> QED
      BY <1>1, <2>2, LenProperties
  <1>5. \A d \in Conns \ {c} : frames'[d] = frames[d]
    BY <1>1, PushStep
  <1>6. \A n \in 1..(L - 1) : OwnSavepoint(c, n)
    BY <1>1 DEF InStep
  <1>7. frames[c] # <<>> /\ frames'[c] # <<>>
    <2>1. L # 0 /\ L + 1 # 0
      BY <1>1, <1>2, <1>3
    <2> QED
      BY <1>2, <2>1, EmptySeq
  <1>8. LockFollowsFrames'
    BY <1>1, <1>5, <1>7, Alone DEF LockFollowsFrames
  <1>9. ASSUME NEW n \in 1..L PROVE OwnSavepoint(c, n)'
    <2>1. CASE n = L
      <3>1. saves'[M + 1].name = n /\ saves'[M + 1].image = frames'[c][n + 1].base
        BY <1>1, <1>2, <1>4, <2>1
      <3>2. M + 1 \in DOMAIN saves' /\ ~ \E j \in DOMAIN saves' : j > M + 1
        BY <1>3, <1>4
      <3> QED
        BY <3>1, <3>2 DEF OwnSavepoint
    <2>2. CASE n # L
      <3>0. n \in 1..(L - 1) /\ n + 1 \in 1..L /\ L > n
        BY <1>3, <2>2
      <3>1. PICK k \in DOMAIN saves :
                /\ saves[k].name = n /\ saves[k].image = frames[c][n + 1].base
                /\ \A j \in DOMAIN saves : j > k => saves[j].name > n
        BY <1>6, <3>0 DEF OwnSavepoint
      <3>2. /\ k \in DOMAIN saves' /\ saves'[k].name = n
            /\ saves'[k].image = frames'[c][n + 1].base
        BY <1>2, <1>3, <1>4, <3>0, <3>1
      <3>3. saves'[M + 1].name > n
        BY <1>2, <1>4, <3>0
      <3>4. \A j \in DOMAIN saves' : j > k => saves'[j].name > n
        BY <1>3, <1>4, <3>1, <3>3
      <3> QED
        BY <3>2, <3>4 DEF OwnSavepoint
    <2> QED
      BY <2>1, <2>2
  <1>10. \A n \in 1..(Len(frames'[c]) - 1) : OwnSavepoint(c, n)'
    BY <1>2, <1>3, <1>9
  <1> QED
    BY <1>1, <1>8, <1>10 DEF InStep

(* The outermost object is alone. *)
LEMMA LastIsAlone ==
    ASSUME NestInv, NEW c \in Conns, frames[c] # <<>>, Top(c).level <= 0
    PROVE  Len(frames[c]) = 1
  <1>1. CASE Top(c).level = Bare
    BY <1>1, TopLevel DEF Bare
  <1>2. CASE Top(c).level # Bare
    <2>1. depth[c] = Len(frames[c]) /\ Top(c).level = depth[c] - 1 /\ Top(c).level \in Nat
      BY <1>2, TopLevel
    <2>2. \A n \in Nat, m \in Nat : n <= 0 /\ n = m - 1 => m = 1
      OBVIOUS
    <2>3. Len(frames[c]) \in Nat
      BY Stacks DEF NestInv
    <2> QED
      BY <2>1, <2>2, <2>3
  <1> QED
    BY <1>1, <1>2

(* The last object of a connection takes the transaction with it. *)
LEMMA LastInStep ==
    ASSUME NestInv, InStep, NEW c \in Conns, frames[c] # <<>>, Top(c).level <= 0,
           Unlock, NEW b \in BOOLEAN, Pop(c, b)
    PROVE  InStep'
  <1>1. TypeOK /\ LockFollowsFrames /\ writer' = NoOne
    BY DEF NestInv, InStep, Unlock
  <1>2. Len(frames[c]) = 1
    BY LastIsAlone
  <1>3. frames'[c] = <<>> /\ \A d \in Conns \ {c} : frames'[d] = frames[d]
    BY <1>1, <1>2, PopStep
  <1>4. \A d \in Conns : frames'[d] = <<>> /\ writer' # d
    BY <1>1, <1>3, Alone, TransactionAssumption
  <1> QED
    BY <1>1, <1>4 DEF InStep, LockFollowsFrames

(* The savepoint of a nested object is there when it ends. *)
LEMMA TopOwn ==
    ASSUME NestInv, InStep, NEW c \in Conns, frames[c] # <<>>, Top(c).level > 0
    PROVE  /\ Top(c).level \in Nat /\ Top(c).level = Len(frames[c]) - 1
           /\ Len(frames[c]) \in Nat
           /\ \A n \in 1..Top(c).level : OwnSavepoint(c, n)
           /\ Found(c) /\ writer = c /\ begun
  <1>1. TypeOK /\ LockFollowsFrames
    BY DEF NestInv, InStep
  <1>2. Top(c).level # Bare
    BY DEF Bare
  <1>3. /\ Top(c).level \in Nat /\ Top(c).level = Len(frames[c]) - 1
        /\ Len(frames[c]) \in Nat
    BY <1>1, <1>2, TopLevel, Stacks
  <1>4. writer = c /\ begun
    BY <1>1, Alone DEF InStep
  <1>5. \A n \in 1..Top(c).level : OwnSavepoint(c, n)
    BY <1>3, <1>4 DEF InStep
  <1>6. OwnSavepoint(c, Top(c).level)
    BY <1>3, <1>5
  <1>7. Found(c)
    BY <1>1, <1>3, <1>6, OwnIsNewest DEF Found, SavepointName
  <1> QED
    BY <1>3, <1>4, <1>5, <1>7

(* A nested object ends: its savepoint and those above it go, or stay alone. *)
LEMMA NestedEnds ==
    ASSUME NestInv, InStep, NEW c \in Conns, frames[c] # <<>>, Top(c).level > 0,
           NEW b \in BOOLEAN, Pop(c, b), writer' = writer, begun' = begun,
           NEW m \in {Newest(Top(c).level) - 1, Newest(Top(c).level)},
           saves' = SubSeq(saves, 1, m)
    PROVE  InStep'
  <1> DEFINE t == Top(c).level
             L == Len(frames[c])
  <1>1. /\ TypeOK /\ LockFollowsFrames /\ t \in Nat /\ t = L - 1 /\ L \in Nat
        /\ writer = c /\ begun
    BY TopOwn DEF NestInv, InStep
  <1>2. /\ Len(frames'[c]) = L - 1
        /\ \A i \in 1..(L - 1) : frames'[c][i] = frames[c][i]
        /\ \A d \in Conns \ {c} : frames'[d] = frames[d]
    BY <1>1, PopStep
  <1>3. \A n \in 1..t : OwnSavepoint(c, n)
    BY TopOwn
  <1>4. t > 0 /\ m \in {Newest(t) - 1, Newest(t)}
    OBVIOUS
  <1> HIDE DEF t
  <1>5. frames'[c] # <<>>
    <2>1. \A n \in Nat, k \in Nat : k > 0 /\ k = n - 1 => n - 1 # 0
      OBVIOUS
    <2>2. Len(frames'[c]) # 0
      BY <1>1, <1>2, <1>4, <2>1
    <2> QED
      BY <2>2, EmptySeq
  <1>6. LockFollowsFrames'
    BY <1>1, <1>2, <1>5, Alone DEF LockFollowsFrames
  <1>7. ASSUME NEW n \in 1..(L - 2) PROVE OwnSavepoint(c, n)'
    <2>1. n \in Nat /\ n < t /\ n \in 1..t /\ t \in 1..t /\ n + 1 \in 1..(L - 1)
      BY <1>1, <1>4
    <2>2. OwnSavepoint(c, t) /\ OwnSavepoint(c, n)
      BY <1>3, <2>1
    <2>3. frames'[c][n + 1] = frames[c][n + 1]
      BY <1>2, <2>1
    <2> QED
      BY <1>1, <1>4, <2>1, <2>2, <2>3, CutKeepsOwn
  <1>8. \A n \in 1..(Len(frames'[c]) - 1) : OwnSavepoint(c, n)'
    BY <1>1, <1>2, <1>7
  <1> QED
    BY <1>1, <1>6, <1>8 DEF InStep

LEMMA CloseInStep ==
    ASSUME NestInv, InStep, NEW c \in Conns, Close(c)
    PROVE  InStep'
  <1>1. CASE CommitOuter(c) \/ CommitRefused(c) \/ LeaveOuter(c)
    BY <1>1, LastInStep DEF CommitOuter, CommitRefused, LeaveOuter, Rollback
  <1>2. CASE CommitInner(c) \/ LeaveInner(c)
    <2> DEFINE i == Newest(SavepointName(Top(c).level))
    <2>1. PICK b \in BOOLEAN, w \in {image, saves[i].image} :
              frames[c] # <<>> /\ Top(c).level > 0 /\ Release(i, w) /\ Pop(c, b)
      BY <1>2 DEF CommitInner, LeaveInner, Unwound
    <2>2. begun
      BY <2>1, TopOwn
    <2>3. writer' = writer /\ begun' = begun /\ saves' = SubSeq(saves, 1, i - 1)
      BY <2>1, <2>2 DEF Release
    <2> QED
      BY <2>1, <2>3, NestedEnds DEF SavepointName
  <1>3. CASE ReleaseRefused(c)
    BY <1>3, NestedEnds DEF ReleaseRefused, SavepointName
  <1>4. CASE LeaveLost(c)
    <2>1. frames[c] # <<>> /\ (writer # c \/ (Top(c).level > 0 /\ ~ Found(c)))
      BY <1>4 DEF LeaveLost
    <2>2. writer = c
      BY <2>1, Alone DEF InStep
    <2> QED
      BY <2>1, <2>2, TopOwn
  <1> QED
    BY <1>1, <1>2, <1>3, <1>4 DEF Close

LEMMA CrashInStep ==
    ASSUME NestInv, InStep, NEW c \in Conns, Crash(c)
    PROVE  InStep'
  <1>1. LockFollowsFrames /\ frames[c] # <<>> /\ frames' = [frames EXCEPT ![c] = <<>>]
    BY DEF InStep, Crash
  <1>2. writer = c /\ writer' = NoOne /\ \A d \in Conns \ {c} : frames[d] = <<>>
    BY <1>1, Alone DEF Crash, Unlock
  <1>3. frames \in [Conns -> Seq(Frame)]
    BY DEF NestInv, TypeOK, Frame
  <1>4. \A d \in Conns : frames'[d] = <<>> /\ writer' # d
    BY <1>1, <1>2, <1>3, TransactionAssumption
  <1> QED
    BY <1>2, <1>4 DEF InStep, LockFollowsFrames

(* A step that leaves objects, savepoints and lock alone. *)
LEMMA QuietInStep ==
    ASSUME InStep, UNCHANGED <<frames, saves, writer, begun>>
    PROVE  InStep'
  <1>1. LockFollowsFrames'
    BY DEF InStep, LockFollowsFrames
  <1>2. \A d \in Conns, n \in Nat : OwnSavepoint(d, n) => OwnSavepoint(d, n)'
    BY DEF OwnSavepoint
  <1>3. \A d \in Conns : writer' = d =>
            \A n \in 1..(Len(frames'[d]) - 1) : OwnSavepoint(d, n)'
    BY <1>2 DEF InStep
  <1> QED
    BY <1>1, <1>3 DEF InStep

(* The strengthened invariant: the nesting always, and, unless SQLite ends
   transactions by itself, lock and savepoints in step with the objects. *)
THEOREM TransactionInvariant == Spec => []TxInv
  <1>1. Init /\ NestInv => TxInv
    BY TransactionAssumption DEF Init, TxInv, InStep, LockFollowsFrames
  <1>2. TxInv /\ NestInv' /\ [Next]_vars => TxInv'
    <2> SUFFICES ASSUME NestInv, InStep, ~ EngineMayRollBack, [Next]_vars PROVE InStep'
      BY DEF TxInv
    <2>1. CASE UNCHANGED vars
      BY <2>1, QuietInStep DEF vars, lock
    <2>2. CASE Next
      <3> PICK c \in Conns : \/ OpenOuter(c) \/ OpenInner(c) \/ OpenBare(c)
                             \/ OpenStray(c) \/ Write(c) \/ Close(c)
                             \/ Crash(c) \/ EngineRollsBack(c)
        BY <2>2 DEF Next
      <3>1. CASE OpenOuter(c) \/ OpenBare(c)
        BY <3>1, FirstInStep DEF OpenOuter, OpenBare
      <3>2. CASE OpenInner(c)
        BY <3>2, InnerInStep
      <3>3. CASE OpenStray(c)
        <4>1. writer = NoOne /\ depth[c] > 0
          BY <3>3 DEF OpenStray
        <4>2. frames[c] = <<>>
          BY <4>1, Free DEF InStep
        <4>3. depth[c] = 0
          BY <4>1, <4>2, EmptySeq DEF NestInv, Nested
        <4> QED
          BY <4>1, <4>3
      <3>4. CASE Write(c)
        BY <3>4, QuietInStep DEF Write, lock
      <3>5. CASE Close(c)
        BY <3>5, CloseInStep
      <3>6. CASE Crash(c)
        BY <3>6, CrashInStep
      <3>7. CASE EngineRollsBack(c)
        BY <3>7 DEF EngineRollsBack
      <3> QED
        BY <3>1, <3>2, <3>3, <3>4, <3>5, <3>6, <3>7
    <2> QED
      BY <2>1, <2>2
  <1> QED
    BY <1>1, <1>2, NestingInvariant, PTL DEF Spec

(* No object works in autocommit and no transaction outlives its objects. *)
THEOREM LockHolds ==
    ASSUME ~ EngineMayRollBack
    PROVE  Spec => []LockFollowsFrames
  <1>1. TxInv => LockFollowsFrames
    BY DEF TxInv, InStep
  <1> QED
    BY <1>1, TransactionInvariant, PTL

(* Every live nested object finds by its name the savepoint with the image it
   started from, whatever failed releases left on the stack. *)
THEOREM SavepointsHold ==
    ASSUME ~ EngineMayRollBack
    PROVE  Spec => []FramesFindTheirSavepoint
  <1>1. TxInv => FramesFindTheirSavepoint
    <2> SUFFICES ASSUME NestInv, InStep, NEW c \in Conns, writer = c,
                        NEW i \in 2..Len(frames[c])
                 PROVE  LET name == SavepointName(frames[c][i].level)
                        IN  /\ \E k \in DOMAIN saves : saves[k].name = name
                            /\ saves[Newest(name)].image = frames[c][i].base
      BY DEF TxInv, FramesFindTheirSavepoint
    <2>1. TypeOK /\ Len(frames[c]) \in Nat /\ DOMAIN frames[c] = 1..Len(frames[c])
      BY Stacks DEF NestInv
    <2>2. frames[c][i].level = i - 1 /\ i - 1 \in 1..(Len(frames[c]) - 1)
          /\ i - 1 \in Nat /\ (i - 1) + 1 = i
      <3>1. Len(frames[c]) > 1 /\ i \in DOMAIN frames[c]
        BY <2>1
      <3>2. Nested(c) /\ frames[c] # <<>>
        BY <2>1, <3>1, EmptySeq DEF NestInv
      <3>3. frames[c][i].level = i - 1
        BY <3>1, <3>2 DEF Nested
      <3> QED
        BY <2>1, <3>3
    <2>3. OwnSavepoint(c, i - 1)
      BY <2>2 DEF InStep
    <2> DEFINE n == i - 1
    <2>4. n \in Nat /\ n + 1 = i /\ OwnSavepoint(c, n)
      BY <2>2, <2>3
    <2>5. frames[c][i].level = n
      BY <2>2
    <2> HIDE DEF n
    <2>6. /\ Newest(n) \in DOMAIN saves /\ saves[Newest(n)].name = n
          /\ saves[Newest(n)].image = frames[c][n + 1].base
      BY <2>1, <2>4, OwnIsNewest
    <2> QED
      BY <2>4, <2>5, <2>6 DEF SavepointName
  <1> QED
    BY <1>1, TransactionInvariant, PTL
-----------------------------------------------------------------------------
(* The objects are nested units of work *)

(* What the object after this one found, or what there is now. *)
Seen(c, i) == IF i = Len(frames[c]) THEN image ELSE frames[c][i + 1].base

(* The outermost object found the file as it is and each found what those
   around it had written; and no write is issued twice. *)
Layers ==
    /\ \A c \in Conns : frames[c] # <<>> => frames[c][1].base = disk
    /\ \A c \in Conns, i \in Nat : i \in 1..Len(frames[c]) => frames[c][i].base \subseteq Seen(c, i)
    /\ \A x \in disk \cup image : x[2] <= steps[x[1]]

LEMMA UnitsOf ==
    ASSUME NEW f \in Seq(Frame), NEW now \in SUBSET Items
    PROVE  /\ Written(f, now) \in Seq(SUBSET Items)
           /\ Len(Written(f, now)) = Len(f)
           /\ Len(f) \in Nat
           /\ \A i \in 1..Len(f) :
                 Written(f, now)[i] = (IF i = Len(f) THEN now ELSE f[i + 1].base) \ f[i].base
  <1>1. Len(f) \in Nat /\ DOMAIN f = 1..Len(f) /\ \A i \in 1..Len(f) : f[i] \in Frame
    BY LenProperties, ElementOfSeq
  <1> DEFINE e(i) == (IF i = Len(f) THEN now ELSE f[i + 1].base) \ f[i].base
  <1>2. Written(f, now) = [i \in 1..Len(f) |-> e(i)]
    BY <1>1 DEF Written
  <1>3. ASSUME NEW i \in 1..Len(f) PROVE e(i) \in SUBSET Items
    <2>1. i # Len(f) => i + 1 \in 1..Len(f)
      <3>1. \A n \in Nat : \A k \in 1..n : k # n => k + 1 \in 1..n
        OBVIOUS
      <3> QED
        BY <1>1, <3>1
    <2> QED
      BY <1>1, <2>1 DEF Frame
  <1> HIDE DEF e
  <1>4. [i \in 1..Len(f) |-> e(i)] \in Seq(SUBSET Items)
    BY <1>1, <1>3
  <1>5. Len([i \in 1..Len(f) |-> e(i)]) = Len(f)
    BY <1>1, <1>4, LenProperties
  <1> QED
    BY <1>1, <1>2, <1>4, <1>5 DEF e

(* One connection moves, and no other has units. *)
LEMMA OpenMoves ==
    ASSUME NEW c \in Conns, writer \in {NoOne, c}, writer' \in {NoOne, c},
           NEW w, w = IF writer' = c THEN Written(frames[c], image)' ELSE <<>>
    PROVE  /\ Open' = [Open EXCEPT ![c] = w]
           /\ Open[c] = (IF writer = c THEN Written(frames[c], image) ELSE <<>>)
           /\ \A d \in Conns \ {c} : Open[d] = <<>>
  <1>1. \A d \in Conns \ {c} : writer # d /\ writer' # d
    BY TransactionAssumption
  <1> QED
    BY <1>1 DEF Open

(* The first object of a connection begins a unit. *)
LEMMA FirstBegins ==
    ASSUME NestInv, InStep, Layers, NEW c \in Conns, NEW n \in Nat \cup {Bare},
           Acquire(c), Push(c, n), UNCHANGED <<disk, kept, steps>>
    PROVE  Layers' /\ Store!Begin(c)
  <1>1. /\ TypeOK /\ LockFollowsFrames /\ writer = NoOne /\ writer' = c
        /\ image' = disk /\ image' \in SUBSET Items
    BY AcquireStep DEF NestInv, InStep, Acquire
  <1>2. \A d \in Conns : frames[d] = <<>> /\ writer # d
    BY <1>1, Free, TransactionAssumption
  <1>3. /\ frames' \in [Conns -> Seq(Frame)]
        /\ Len(frames'[c]) = 1 /\ frames'[c][1].base = image'
        /\ \A d \in Conns \ {c} : frames'[d] = <<>>
    <2>1. Len(frames[c]) = 0
      BY <1>2, EmptySeq
    <2>2. /\ frames' \in [Conns -> Seq(Frame)]
          /\ Len(frames'[c]) = Len(frames[c]) + 1
          /\ frames'[c][Len(frames[c]) + 1] = [level |-> n, base |-> image']
          /\ \A d \in Conns \ {c} : frames'[d] = frames[d]
      BY <1>1, PushStep
    <2>3. Len(frames'[c]) = 1 /\ frames'[c][1] = [level |-> n, base |-> image']
      BY <2>1, <2>2
    <2> QED
      BY <1>2, <2>2, <2>3
  <1>4. Layers'
    <2>1. \A d \in Conns \ {c} : Len(frames'[d]) = 0
      BY <1>3, EmptySeq
    <2>2. \A d \in Conns : frames'[d] # <<>> => frames'[d][1].base = disk'
      BY <1>1, <1>3
    <2>3. ASSUME NEW d \in Conns, NEW i \in Nat, i \in 1..Len(frames'[d])
          PROVE  frames'[d][i].base \subseteq Seen(d, i)'
      <3>1. d = c
        BY <2>1, <2>3
      <3>2. Len(frames'[d]) = 1
        BY <1>3, <3>1
      <3> QED
        <4>1. i = 1
          BY <2>3, <3>2
        <4> QED
          BY <1>3, <3>1, <3>2, <4>1 DEF Seen
    <2>4. \A x \in disk' \cup image' : x[2] <= steps'[x[1]]
      BY <1>1 DEF Layers
    <2> QED
      BY <2>2, <2>3, <2>4 DEF Layers
  <1>5. Written(frames[c], image)' = <<{}>>
    <2>1. frames'[c] \in Seq(Frame)
      BY <1>3
    <2> DEFINE w == Written(frames'[c], image')
    <2>2. w \in Seq(SUBSET Items) /\ Len(w) = 1 /\ w[1] = image' \ image'
      BY <1>1, <1>3, <2>1, UnitsOf
    <2> HIDE DEF w
    <2>3. <<{}>> \in Seq(SUBSET Items) /\ Len(<<{}>>) = 1 /\ <<{}>>[1] = {}
      OBVIOUS
    <2>4. w = <<{}>>
      BY <2>2, <2>3, SeqEqual
    <2> QED
      BY <2>4 DEF w
  <1>6. Open' = [Open EXCEPT ![c] = <<{}>>] /\ \A d \in Conns : Open[d] = <<>>
    BY <1>1, <1>2, <1>5, OpenMoves DEF Open
  <1> QED
    BY <1>4, <1>6 DEF Store!Begin, Store!NobodyWrites

(* Layers of the one connection that has objects. *)
LEMMA LayersOf ==
    ASSUME NEW c \in Conns, \A d \in Conns \ {c} : frames'[d] = <<>>,
           frames'[c] # <<>> => frames'[c][1].base = disk',
           \A i \in Nat : i \in 1..Len(frames'[c]) => frames'[c][i].base \subseteq Seen(c, i)',
           \A x \in disk' \cup image' : x[2] <= steps'[x[1]]
    PROVE  Layers'
  <1>1. ASSUME NEW d \in Conns, NEW i \in Nat, i \in 1..Len(frames'[d])
        PROVE  frames'[d][i].base \subseteq Seen(d, i)'
    <2>1. d = c
      <3>1. CASE frames'[d] = <<>>
        <4>1. Len(frames'[d]) = 0
          BY <3>1, EmptySeq
        <4> QED
          BY <1>1, <4>1
      <3> QED
        BY <3>1
    <2> QED
      BY <1>1, <2>1
  <1> QED
    BY <1>1 DEF Layers

(* The units of the connection that holds the lock. *)
LEMMA HolderUnits ==
    ASSUME NestInv, InStep, Layers, NEW c \in Conns, frames[c] # <<>>
    PROVE  /\ TypeOK /\ writer = c /\ \A d \in Conns \ {c} : frames[d] = <<>>
           /\ Len(frames[c]) \in Nat /\ Len(frames[c]) > 0 /\ frames[c] \in Seq(Frame)
           /\ Open[c] = Written(frames[c], image)
           /\ Open[c] \in Seq(SUBSET Items) /\ Open[c] # <<>>
           /\ Len(Open[c]) = Len(frames[c])
           /\ \A i \in 1..Len(frames[c]) : Open[c][i] = Seen(c, i) \ frames[c][i].base
  <1>1. TypeOK /\ writer = c /\ \A d \in Conns \ {c} : frames[d] = <<>>
    BY Alone DEF NestInv, InStep
  <1>2. frames[c] \in Seq(Frame) /\ image \in SUBSET Items /\ Len(frames[c]) > 0
    BY <1>1, Stacks DEF TypeOK
  <1>3. Open[c] = Written(frames[c], image)
    BY <1>1 DEF Open
  <1>4. /\ Open[c] \in Seq(SUBSET Items) /\ Len(frames[c]) \in Nat
        /\ Len(Open[c]) = Len(frames[c])
        /\ \A i \in 1..Len(frames[c]) : Open[c][i] = Seen(c, i) \ frames[c][i].base
    BY <1>2, <1>3, UnitsOf DEF Seen
  <1>5. Open[c] # <<>>
    BY <1>2, <1>4, EmptySeq
  <1> QED
    BY <1>1, <1>2, <1>3, <1>4, <1>5

(* A nested object is a unit within the innermost one. *)
LEMMA InnerNests ==
    ASSUME NestInv, InStep, Layers, NEW c \in Conns, OpenInner(c)
    PROVE  Layers' /\ Store!Nest(c)
  <1> DEFINE w == Written(frames'[c], image')
  <1>1. /\ TypeOK /\ LockFollowsFrames /\ depth[c] \in Nat /\ Push(c, depth[c])
        /\ writer = c /\ writer' = c /\ image' = image /\ image \in SUBSET Items
        /\ UNCHANGED <<disk, kept>>
        /\ steps[c] \in Nat /\ steps' = [steps EXCEPT ![c] = @ + 1]
        /\ steps \in [Conns -> 0..MaxSteps]
    <2>1. /\ TypeOK /\ LockFollowsFrames
      BY DEF NestInv, InStep
    <2>2. /\ Push(c, depth[c]) /\ writer = c /\ writer' = c /\ image' = image
          /\ UNCHANGED <<disk, kept>> /\ steps' = [steps EXCEPT ![c] = @ + 1]
      BY DEF OpenInner
    <2>3. /\ depth[c] \in Nat /\ image \in SUBSET Items
          /\ steps \in [Conns -> 0..MaxSteps] /\ steps[c] \in Nat
      BY <2>1, TransactionAssumption DEF TypeOK
    <2> QED
      BY <2>1, <2>2, <2>3
  <1>2. frames[c] # <<>>
    BY <1>1 DEF LockFollowsFrames
  <1>0. PICK L \in Nat : L = Len(frames[c])
    BY <1>2, HolderUnits
  <1>3. /\ \A d \in Conns \ {c} : frames[d] = <<>>
        /\ L > 0
        /\ Open[c] \in Seq(SUBSET Items) /\ Open[c] # <<>> /\ Len(Open[c]) = L
        /\ \A i \in 1..L : Open[c][i] = Seen(c, i) \ frames[c][i].base
    BY <1>0, <1>2, HolderUnits
  <1>4. /\ frames' \in [Conns -> Seq(Frame)]
        /\ Len(frames'[c]) = L + 1
        /\ \A i \in 1..L : frames'[c][i] = frames[c][i]
        /\ frames'[c][L + 1].base = image
        /\ \A d \in Conns \ {c} : frames'[d] = <<>>
    <2>1. depth[c] \in Nat \cup {Bare} /\ image' \in SUBSET Items
      BY <1>1
    <2>2. /\ frames' \in [Conns -> Seq(Frame)]
          /\ Len(frames'[c]) = L + 1
          /\ \A i \in 1..L : frames'[c][i] = frames[c][i]
          /\ frames'[c][L + 1] = [level |-> depth[c], base |-> image']
          /\ \A d \in Conns \ {c} : frames'[d] = frames[d]
      BY <1>0, <1>1, <2>1, PushStep
    <2>3. frames'[c][L + 1].base = image
      BY <1>1, <2>2
    <2> QED
      BY <1>3, <2>2, <2>3
  <1>5. \A i \in 1..L : Seen(c, i)' = Seen(c, i)
    <2>1. ASSUME NEW i \in 1..L, i # L PROVE i + 1 \in 1..L /\ i # L + 1
      BY <1>3, <2>1
    <2>2. L # L + 1
      BY <1>3
    <2> QED
      BY <1>0, <1>1, <1>3, <1>4, <2>1, <2>2 DEF Seen
  <1>6. Seen(c, L + 1)' = image
    BY <1>1, <1>4 DEF Seen
  <1>7. Layers'
    <2>1. frames'[c][1].base = disk'
      <3>1. 1 \in 1..L
        BY <1>3
      <3> QED
        BY <1>1, <1>2, <1>4, <3>1 DEF Layers
    <2>2. ASSUME NEW i \in Nat, i \in 1..Len(frames'[c])
          PROVE  frames'[c][i].base \subseteq Seen(c, i)'
      <3>1. i \in 1..L \/ i = L + 1
        BY <1>3, <1>4, <2>2
      <3> QED
        BY <1>0, <1>4, <1>5, <1>6, <3>1 DEF Layers
    <2>3. ASSUME NEW x \in disk' \cup image' PROVE x[2] <= steps'[x[1]]
      <3>1. x \in Items /\ x[1] \in Conns /\ x[2] \in Nat /\ x[2] <= steps[x[1]]
        BY <1>1 DEF Layers, TypeOK, Items
      <3>2. steps[x[1]] \in Nat /\ steps'[x[1]] \in {steps[x[1]], steps[x[1]] + 1}
        BY <1>1, <3>1
      <3> QED
        BY <3>1, <3>2
    <2> QED
      BY <1>4, <2>1, <2>2, <2>3, LayersOf
  <1>8. w = Append(Open[c], {})
    <2>1. /\ w \in Seq(SUBSET Items) /\ Len(w) = L + 1
          /\ \A i \in 1..(L + 1) : w[i] = Seen(c, i)' \ frames'[c][i].base
      <3>1. frames'[c] \in Seq(Frame) /\ image' \in SUBSET Items
        BY <1>1, <1>4
      <3> QED
        <4>1. /\ w \in Seq(SUBSET Items) /\ Len(w) = Len(frames'[c])
              /\ \A i \in 1..Len(frames'[c]) :
                    w[i] = (IF i = Len(frames'[c]) THEN image' ELSE frames'[c][i + 1].base)
                               \ frames'[c][i].base
          BY <3>1, UnitsOf
        <4> QED
          BY <1>4, <4>1 DEF Seen
    <2>2. /\ Append(Open[c], {}) \in Seq(SUBSET Items) /\ Len(Append(Open[c], {})) = L + 1
          /\ \A i \in 1..L : Append(Open[c], {})[i] = Open[c][i]
          /\ Append(Open[c], {})[L + 1] = {}
      BY <1>3, AppendProperties
    <2> HIDE DEF w
    <2>3. ASSUME NEW i \in 1..(L + 1) PROVE w[i] = Append(Open[c], {})[i]
      <3>1. CASE i \in 1..L
        <4>1. /\ w[i] = Seen(c, i)' \ frames'[c][i].base
              /\ Append(Open[c], {})[i] = Seen(c, i) \ frames[c][i].base
          BY <1>3, <2>1, <2>2, <3>1
        <4> QED
          BY <1>4, <1>5, <3>1, <4>1
      <3>2. CASE i = L + 1
        BY <1>4, <1>6, <2>1, <2>2, <3>2
      <3> QED
        BY <1>3, <3>1, <3>2
    <2> QED
      BY <2>1, <2>2, <2>3, SeqEqual
  <1>9. Open' = [Open EXCEPT ![c] = Append(Open[c], {})]
    BY <1>1, <1>8, OpenMoves
  <1> QED
    BY <1>1, <1>3, <1>7, <1>9 DEF Store!Nest

(* A statement writes into the innermost unit, or is a unit of its own. *)
LEMMA WritePuts ==
    ASSUME NestInv, InStep, Layers, NEW c \in Conns, Write(c)
    PROVE  Layers' /\ (Store!Put(c, Issued(c)) \/ Store!PutAlone(Issued(c)))
           /\ Issued(c) \in Items
  <1> DEFINE x == Issued(c)
  <1>1. /\ TypeOK /\ LockFollowsFrames
        /\ disk \in SUBSET Items /\ image \in SUBSET Items
        /\ steps \in [Conns -> 0..MaxSteps] /\ steps[c] \in Nat
        /\ frames \in [Conns -> Seq(Frame)]
    <2>1. TypeOK /\ LockFollowsFrames
      BY DEF NestInv, InStep
    <2>2. /\ disk \in SUBSET Items /\ image \in SUBSET Items
          /\ steps \in [Conns -> 0..MaxSteps]
          /\ frames \in [Conns -> Seq(Frame)]
      BY <2>1 DEF TypeOK, Frame
    <2>3. steps[c] \in Nat
      BY <2>2, TransactionAssumption
    <2> QED
      BY <2>1, <2>2, <2>3
  <1>2. /\ steps[c] < MaxSteps /\ steps' = [steps EXCEPT ![c] = @ + 1]
        /\ UNCHANGED <<frames, depth, kept>>
        /\ \/ /\ writer = c /\ image' = image \cup {x} /\ writer' = c /\ disk' = disk
           \/ /\ writer = NoOne /\ disk' = disk \cup {x} /\ writer' = NoOne /\ image' = image
    BY DEF Write, lock
  <1>3. x \in Items /\ x[1] = c /\ x[2] = steps[c] + 1
    BY <1>1, <1>2, TransactionAssumption DEF Issued, Items
  <1> HIDE DEF x
  <1>4. ASSUME NEW y \in disk' \cup image' PROVE y[2] <= steps'[y[1]]
    <2>1. CASE y = x
      BY <1>1, <1>2, <1>3, <2>1
    <2>2. CASE y # x
      <3>1. y \in disk \cup image
        BY <1>2, <2>2
      <3>2. y[1] \in Conns /\ y[2] \in Nat /\ y[2] <= steps[y[1]]
        BY <1>1, <3>1 DEF Layers, Items
      <3>3. steps[y[1]] \in Nat /\ steps'[y[1]] \in {steps[y[1]], steps[y[1]] + 1}
        BY <1>1, <1>2, <3>2
      <3> QED
        BY <3>2, <3>3
    <2> QED
      BY <2>1, <2>2
  <1>5. CASE /\ writer = c /\ image' = image \cup {x} /\ writer' = c /\ disk' = disk
    <2>1. frames[c] # <<>>
      BY <1>1, <1>5 DEF LockFollowsFrames
    <2>2. PICK L \in Nat : L = Len(frames[c])
      BY <2>1, HolderUnits
    <2>3. /\ \A d \in Conns \ {c} : frames[d] = <<>>
          /\ L > 0 /\ frames[c] \in Seq(Frame)
          /\ Open[c] \in Seq(SUBSET Items) /\ Open[c] # <<>> /\ Len(Open[c]) = L
          /\ \A i \in 1..L : Open[c][i] = Seen(c, i) \ frames[c][i].base
      BY <2>1, <2>2, HolderUnits
    <2>4. \A i \in 1..L : i # L => Seen(c, i)' = Seen(c, i)
      BY <1>2, <2>2 DEF Seen
    <2>5. Seen(c, L) = image /\ Seen(c, L)' = image \cup {x}
      BY <1>2, <1>5, <2>2 DEF Seen
    <2>6. L \in 1..L /\ frames[c][L].base \subseteq image
      BY <2>2, <2>3, <2>5 DEF Layers
    <2>7. Layers'
      <3>1. \A i \in Nat : i \in 1..Len(frames'[c]) => frames'[c][i].base \subseteq Seen(c, i)'
        BY <1>2, <2>2, <2>4, <2>5, <2>6 DEF Layers
      <3>2. frames'[c] # <<>> => frames'[c][1].base = disk'
        BY <1>2, <1>5 DEF Layers
      <3>3. \A d \in Conns \ {c} : frames'[d] = <<>>
        BY <1>2, <2>3
      <3> QED
        BY <1>4, <3>1, <3>2, <3>3, LayersOf
    <2>8. x \notin frames[c][L].base
      <3>1. x \notin image
        <4> SUFFICES ASSUME x \in image PROVE FALSE
          OBVIOUS
        <4>1. steps[c] + 1 <= steps[c]
          BY <1>3 DEF Layers
        <4> QED
          BY <1>1, <4>1
      <3> QED
        BY <2>6, <3>1
    <2> DEFINE w == Written(frames'[c], image')
               v == [Open[c] EXCEPT ![L] = Open[c][L] \cup {x}]
    <2>9. w = v
      <3>1. /\ w \in Seq(SUBSET Items) /\ Len(w) = L
            /\ \A i \in 1..L : w[i] = Seen(c, i)' \ frames[c][i].base
        <4>1. frames'[c] \in Seq(Frame) /\ image' \in SUBSET Items /\ frames'[c] = frames[c]
          BY <1>1, <1>2, <1>3, <1>5, <2>3
        <4>2. /\ w \in Seq(SUBSET Items) /\ Len(w) = Len(frames'[c])
              /\ \A i \in 1..Len(frames'[c]) :
                    w[i] = (IF i = Len(frames'[c]) THEN image' ELSE frames'[c][i + 1].base)
                               \ frames'[c][i].base
          BY <4>1, UnitsOf
        <4> QED
          BY <2>2, <4>1, <4>2 DEF Seen
      <3>2. /\ v \in Seq(SUBSET Items) /\ Len(v) = L /\ v[L] = Open[c][L] \cup {x}
            /\ \A i \in 1..L : i # L => v[i] = Open[c][i]
        <4>1. Open[c][L] \cup {x} \in SUBSET Items
          BY <1>3, <2>3, <2>6, ElementOfSeq
        <4> QED
          BY <2>3, <2>6, <4>1, ExceptSeq
      <3> HIDE DEF w, v
      <3>3. ASSUME NEW i \in 1..L PROVE w[i] = v[i]
        <4>1. CASE i = L
          BY <2>3, <2>5, <2>6, <2>8, <3>1, <3>2, <4>1
        <4>2. CASE i # L
          <5>1. w[i] = Seen(c, i)' \ frames[c][i].base
            BY <3>1
          <5>2. v[i] = Seen(c, i) \ frames[c][i].base
            BY <2>3, <3>2, <4>2
          <5> QED
            BY <2>4, <4>2, <5>1, <5>2
        <4> QED
          BY <4>1, <4>2
      <3> QED
        BY <3>1, <3>2, <3>3, SeqEqual
    <2>10. Open' = [Open EXCEPT ![c] = v]
      BY <1>5, <2>9, OpenMoves
    <2>11. Store!Put(c, x)
      BY <1>2, <1>5, <2>2, <2>3, <2>10 DEF Store!Put, Store!InnerMost
    <2> QED
      BY <1>3, <2>7, <2>11 DEF x
  <1>6. CASE /\ writer = NoOne /\ disk' = disk \cup {x} /\ writer' = NoOne /\ image' = image
    <2>1. \A d \in Conns : frames[d] = <<>> /\ writer # d /\ writer' # d
      BY <1>1, <1>6, Free, TransactionAssumption
    <2>2. frames'[c] = <<>> /\ \A i \in Nat : ~(i \in 1..Len(frames'[c]))
      <3>1. frames'[c] = <<>> /\ Len(frames'[c]) = 0
        BY <1>2, <2>1, EmptySeq
      <3> QED
        BY <3>1
    <2>3. Layers'
      BY <1>2, <1>4, <2>1, <2>2, LayersOf
    <2>4. Open' = Open /\ \A d \in Conns : Open[d] = <<>>
      BY <2>1 DEF Open
    <2>5. Store!PutAlone(x)
      BY <1>2, <1>6, <2>4 DEF Store!PutAlone, Store!NobodyWrites
    <2> QED
      BY <1>3, <2>3, <2>5 DEF x
  <1> QED
    BY <1>2, <1>5, <1>6

(* The outermost object publishes its unit or undoes it. *)
LEMMA LastEnds ==
    ASSUME NestInv, InStep, Layers, NEW c \in Conns, frames[c] # <<>>,
           Top(c).level <= 0, Unlock, NEW b \in BOOLEAN, Pop(c, b),
           disk' = IF b THEN image ELSE disk, steps' = steps
    PROVE  Layers' /\ (Store!Publish(c) \/ Store!Undo(c))
  <1>1. /\ TypeOK /\ writer = c /\ \A d \in Conns \ {c} : frames[d] = <<>>
        /\ Open[c] = Written(frames[c], image) /\ Open[c] \in Seq(SUBSET Items)
        /\ Open[c] # <<>>
    BY HolderUnits
  <1>2. Len(frames[c]) = 1
    BY LastIsAlone
  <1>3. frames'[c] = <<>> /\ \A d \in Conns \ {c} : frames'[d] = frames[d]
    BY <1>1, <1>2, PopStep
  <1>4. Len(Open[c]) = 1 /\ Open[c][1] = image \ disk /\ disk \subseteq image
    <2>1. Len(Open[c]) = 1 /\ Seen(c, 1) = image /\ 1 \in 1..Len(frames[c])
      BY <1>2, HolderUnits DEF Seen
    <2>2. Open[c][1] = Seen(c, 1) \ frames[c][1].base
      BY <2>1, HolderUnits
    <2>3. frames[c][1].base = disk /\ frames[c][1].base \subseteq Seen(c, 1)
      BY <2>1 DEF Layers
    <2> QED
      BY <2>1, <2>2, <2>3
  <1>5. Layers'
    <2>1. \A i \in Nat : ~(i \in 1..Len(frames'[c]))
      <3>1. Len(frames'[c]) = 0
        BY <1>3, EmptySeq
      <3> QED
        BY <3>1
    <2>2. \A x \in disk' \cup image' : x[2] <= steps'[x[1]]
      BY DEF Layers, Unlock
    <2> QED
      BY <1>1, <1>3, <2>1, <2>2, LayersOf
  <1>6. writer' = NoOne /\ NoOne # c /\ kept' = b
    BY TransactionAssumption DEF Unlock, Pop
  <1>7. Open' = [Open EXCEPT ![c] = <<>>]
    BY <1>1, <1>6, OpenMoves
  <1>8. ASSUME b PROVE Store!Publish(c)
    <2>1. disk' = disk \cup Open[c][1]
      BY <1>4, <1>8
    <2>2. kept' = TRUE
      BY <1>6, <1>8
    <2>3. Store!InnerMost(c) = 1
      BY <1>4 DEF Store!InnerMost
    <2> QED
      BY <1>7, <2>1, <2>2, <2>3 DEF Store!Publish
  <1>9. ASSUME ~ b PROVE Store!Undo(c)
    <2>1. SubSeq(Open[c], 1, Len(Open[c]) - 1) = <<>>
      <3>1. Len(Open[c]) - 1 = 0
        BY <1>4
      <3>2. SubSeq(Open[c], 1, 0) = <<>>
        <4>1. 1 \in Int /\ 0 \in Int /\ 0 < 1
          OBVIOUS
        <4> QED
          BY <4>1, SubSeqEmpty
      <3> QED
        BY <3>1, <3>2
    <2>2. kept' = FALSE /\ disk' = disk
      BY <1>6, <1>9
    <2>3. Store!Outer(c) = <<>>
      BY <2>1 DEF Store!Outer
    <2>4. Open' = [Open EXCEPT ![c] = Store!Outer(c)]
      BY <1>7, <2>3
    <2> QED
      BY <1>1, <2>2, <2>4 DEF Store!Undo
  <1> QED
    BY <1>5, <1>8, <1>9

(* The units left when the innermost object of several ends. *)
LEMMA InnerUnits ==
    ASSUME NestInv, InStep, Layers, NEW c \in Conns, frames[c] # <<>>,
           Top(c).level > 0, NEW b \in BOOLEAN, Pop(c, b),
           writer' = c, disk' = disk, steps' = steps,
           NEW L \in Nat, L = Len(frames[c]),
           image' = image \/ image' = frames[c][L].base
    PROVE  /\ Layers' /\ L > 1 /\ L - 1 \in Nat
           /\ Open[c] \in Seq(SUBSET Items) /\ Open[c] # <<>> /\ Len(Open[c]) = L
           /\ Open[c][L] = image \ frames[c][L].base
           /\ Open[c][L - 1] = frames[c][L].base \ frames[c][L - 1].base
           /\ frames[c][L - 1].base \subseteq frames[c][L].base
           /\ frames[c][L].base \subseteq image
           /\ Written(frames[c], image)' \in Seq(SUBSET Items)
           /\ Len(Written(frames[c], image)') = L - 1
           /\ \A i \in 1..(L - 2) : Written(frames[c], image)'[i] = Open[c][i]
           /\ Written(frames[c], image)'[L - 1] = image' \ frames[c][L - 1].base
           /\ Open' = [Open EXCEPT ![c] = Written(frames[c], image)']
  <1>1. /\ TypeOK /\ writer = c /\ \A d \in Conns \ {c} : frames[d] = <<>>
        /\ frames[c] \in Seq(Frame) /\ image \in SUBSET Items
        /\ Open[c] \in Seq(SUBSET Items) /\ Open[c] # <<>> /\ Len(Open[c]) = L
        /\ \A i \in 1..L : Open[c][i] = Seen(c, i) \ frames[c][i].base
    BY HolderUnits DEF TypeOK
  <1>2. L > 1
    <2>1. Top(c).level \in Nat /\ Top(c).level = L - 1
      BY TopOwn
    <2>2. \A n \in Nat, m \in Nat : m > 0 /\ m = n - 1 => n > 1
      OBVIOUS
    <2> QED
      BY <2>1, <2>2
  <1>3. PICK M \in Nat : M = L - 1
    BY <1>2
  <1>4. M > 0 /\ M # L /\ M + 1 = L /\ L \in 1..L /\ M \in 1..L
    BY <1>2, <1>3
  <1>5. /\ frames' \in [Conns -> Seq(Frame)] /\ frames'[c] \in Seq(Frame)
        /\ Len(frames'[c]) = M /\ frames'[c] # <<>>
        /\ \A i \in 1..M : frames'[c][i] = frames[c][i]
        /\ \A d \in Conns \ {c} : frames'[d] = <<>>
    <2>1. /\ frames' \in [Conns -> Seq(Frame)]
          /\ Len(frames'[c]) = M
          /\ \A i \in 1..M : frames'[c][i] = frames[c][i]
          /\ \A d \in Conns \ {c} : frames'[d] = frames[d]
      BY <1>1, <1>3, PopStep
    <2>2. frames'[c] # <<>>
      BY <1>4, <2>1, EmptySeq
    <2> QED
      BY <1>1, <2>1, <2>2
  <1>6. \A i \in 1..L : frames[c][i].base \subseteq Seen(c, i)
    BY DEF Layers
  <1>7. /\ Seen(c, L) = image /\ Seen(c, M) = frames[c][L].base
        /\ \A i \in 1..(M - 1) : Seen(c, i) = frames[c][i + 1].base
    <2>1. \A i \in 1..(M - 1) : i # L
      BY <1>4
    <2> QED
      BY <1>4, <2>1 DEF Seen
  <1>8. /\ Open[c][L] = image \ frames[c][L].base
        /\ Open[c][M] = frames[c][L].base \ frames[c][M].base
        /\ frames[c][M].base \subseteq frames[c][L].base
        /\ frames[c][L].base \subseteq image
    BY <1>1, <1>4, <1>6, <1>7
  <1>9. /\ Seen(c, M)' = image'
        /\ \A i \in 1..(M - 1) : Seen(c, i)' = Seen(c, i)
    <2>1. Seen(c, M)' = image'
      BY <1>5 DEF Seen
    <2>2. ASSUME NEW i \in 1..(M - 1) PROVE Seen(c, i)' = Seen(c, i)
      <3>1. i # M /\ i + 1 \in 1..M
        BY <1>4
      <3> QED
        BY <1>5, <1>7, <3>1 DEF Seen
    <2> QED
      BY <2>1, <2>2
  <1>10. frames[c][M].base \subseteq image' /\ image' \subseteq image
    BY <1>8
  <1>11. Layers'
    <2>1. frames'[c][1].base = disk'
      <3>1. 1 \in 1..M
        BY <1>4
      <3> QED
        BY <1>5, <3>1 DEF Layers
    <2>2. ASSUME NEW i \in Nat, i \in 1..Len(frames'[c])
          PROVE  frames'[c][i].base \subseteq Seen(c, i)'
      <3>1. i \in 1..M /\ (i = M \/ i \in 1..(M - 1)) /\ i \in 1..L
        BY <1>4, <1>5, <2>2
      <3>2. CASE i = M
        BY <1>5, <1>9, <1>10, <3>1, <3>2
      <3>3. CASE i \in 1..(M - 1)
        BY <1>5, <1>6, <1>9, <3>1, <3>3
      <3> QED
        BY <3>1, <3>2, <3>3
    <2>3. \A x \in disk' \cup image' : x[2] <= steps'[x[1]]
      BY <1>10 DEF Layers
    <2> QED
      BY <1>5, <2>1, <2>2, <2>3, LayersOf
  <1> DEFINE w == Written(frames'[c], image')
  <1>12. /\ w \in Seq(SUBSET Items) /\ Len(w) = M
         /\ \A i \in 1..M : w[i] = Seen(c, i)' \ frames'[c][i].base
    <2>1. image' \in SUBSET Items
      BY <1>1, <1>10
    <2>2. /\ w \in Seq(SUBSET Items) /\ Len(w) = Len(frames'[c])
          /\ \A i \in 1..Len(frames'[c]) :
                w[i] = (IF i = Len(frames'[c]) THEN image' ELSE frames'[c][i + 1].base)
                           \ frames'[c][i].base
      BY <1>5, <2>1, UnitsOf
    <2> QED
      BY <1>5, <2>2 DEF Seen
  <1>13. Open' = [Open EXCEPT ![c] = w]
    BY <1>1, OpenMoves
  <1> HIDE DEF w
  <1>14. w[M] = image' \ frames[c][M].base
    <2>1. M \in 1..M
      BY <1>4
    <2> QED
      BY <1>5, <1>9, <1>12, <2>1
  <1>15. ASSUME NEW i \in 1..(M - 1) PROVE w[i] = Open[c][i]
    <2>1. i \in 1..M /\ i \in 1..L
      BY <1>4
    <2> QED
      BY <1>1, <1>5, <1>9, <1>12, <2>1
  <1>16. L - 2 = M - 1
    BY <1>3
  <1> QED
    BY <1>1, <1>2, <1>3, <1>8, <1>11, <1>12, <1>13, <1>14, <1>15, <1>16 DEF w

(* A nested object that commits joins the unit around it. *)
LEMMA InnerKept ==
    ASSUME NestInv, InStep, Layers, NEW c \in Conns, CommitInner(c)
    PROVE  Layers' /\ Store!Keep(c)
  <1>1. frames[c] # <<>> /\ Top(c).level > 0 /\ Pop(c, TRUE) /\ kept' = TRUE
        /\ writer = c /\ steps' = steps
        /\ Release(Newest(SavepointName(Top(c).level)), image)
    BY DEF CommitInner, Pop
  <1>2. image' = image /\ writer' = c /\ disk' = disk
    <2>1. begun
      BY <1>1, TopOwn
    <2> QED
      BY <1>1, <2>1 DEF Release
  <1>3. PICK L \in Nat : L = Len(frames[c])
    BY <1>1, HolderUnits
  <1> DEFINE w == Written(frames[c], image)'
             o == SubSeq(Open[c], 1, L - 1)
             v == [o EXCEPT ![L - 1] = o[L - 1] \cup Open[c][L]]
  <1>4. /\ Layers' /\ L > 1 /\ L - 1 \in Nat
        /\ Open[c] \in Seq(SUBSET Items) /\ Open[c] # <<>> /\ Len(Open[c]) = L
        /\ Open[c][L] = image \ frames[c][L].base
        /\ Open[c][L - 1] = frames[c][L].base \ frames[c][L - 1].base
        /\ frames[c][L - 1].base \subseteq frames[c][L].base
        /\ frames[c][L].base \subseteq image
        /\ w \in Seq(SUBSET Items) /\ Len(w) = L - 1
        /\ \A i \in 1..(L - 2) : w[i] = Open[c][i]
        /\ w[L - 1] = image' \ frames[c][L - 1].base
        /\ Open' = [Open EXCEPT ![c] = w]
    BY <1>1, <1>2, <1>3, InnerUnits
  <1> HIDE DEF w
  <1>5. L - 1 \in 0..Len(Open[c]) /\ L - 1 \in 1..(L - 1) /\ L \in 1..Len(Open[c])
    BY <1>4
  <1>6. /\ o \in Seq(SUBSET Items) /\ Len(o) = L - 1
        /\ \A i \in 1..(L - 1) : o[i] = Open[c][i]
    BY <1>4, <1>5, PrefixSeq
  <1>7. Open[c][L] \in SUBSET Items /\ o[L - 1] \in SUBSET Items
    BY <1>4, <1>5, <1>6, ElementOfSeq
  <1> HIDE DEF o
  <1>8. /\ v \in Seq(SUBSET Items) /\ Len(v) = L - 1
        /\ \A i \in 1..(L - 1) : v[i] = IF i = L - 1 THEN o[L - 1] \cup Open[c][L] ELSE o[i]
    BY <1>5, <1>6, <1>7, ExceptSeq
  <1>9. o[L - 1] \cup Open[c][L] = image' \ frames[c][L - 1].base
    BY <1>2, <1>4, <1>5, <1>6
  <1> HIDE DEF v
  <1>10. ASSUME NEW i \in 1..(L - 1) PROVE w[i] = v[i]
    <2>1. i = L - 1 \/ i \in 1..(L - 2)
      BY <1>4
    <2> QED
      BY <1>4, <1>6, <1>8, <1>9, <2>1
  <1>11. w = v
    BY <1>4, <1>8, <1>10, SeqEqual
  <1>12. Store!InnerMost(c) = L /\ L > 1 /\ Store!Outer(c) = o
    BY <1>4 DEF Store!InnerMost, Store!Outer, o
  <1>13. Open' = [Open EXCEPT ![c] = v]
    BY <1>4, <1>11
  <1> QED
    BY <1>1, <1>2, <1>4, <1>12, <1>13 DEF Store!Keep, v

(* One that does not leaves no trace. *)
LEMMA InnerUndone ==
    ASSUME NestInv, InStep, Layers, NEW c \in Conns, LeaveInner(c) \/ ReleaseRefused(c)
    PROVE  Layers' /\ Store!Undo(c)
  <1> DEFINE n == Newest(SavepointName(Top(c).level))
  <1>1. frames[c] # <<>> /\ Top(c).level > 0 /\ Pop(c, FALSE) /\ kept' = FALSE
        /\ writer = c /\ steps' = steps
    BY DEF LeaveInner, ReleaseRefused, Pop
  <1>2. image' = saves[n].image /\ writer' = c /\ disk' = disk
    <2>1. CASE LeaveInner(c)
      <3>1. begun /\ Release(n, saves[n].image)
        BY <1>1, <2>1, TopOwn DEF LeaveInner, Unwound
      <3> QED
        BY <1>1, <3>1 DEF Release
    <2>2. CASE ReleaseRefused(c)
      BY <1>1, <2>2 DEF ReleaseRefused
    <2> QED
      BY <2>1, <2>2
  <1>3. PICK L \in Nat : L = Len(frames[c])
    BY <1>1, HolderUnits
  <1>4. image' = frames[c][L].base
    <2>1. PICK t \in Nat : t = Top(c).level
      BY <1>1, TopOwn
    <2>2. t > 0 /\ t = L - 1 /\ t + 1 = L /\ t \in 1..t
      BY <1>1, <1>3, <2>1, TopOwn
    <2>3. OwnSavepoint(c, t)
      BY <1>1, <2>1, <2>2, TopOwn
    <2>4. TypeOK
      BY DEF NestInv
    <2>5. saves[Newest(t)].image = frames[c][t + 1].base
      BY <2>3, <2>4, OwnIsNewest
    <2>6. n = Newest(t)
      BY <2>1 DEF SavepointName
    <2> HIDE DEF n
    <2> QED
      BY <1>2, <2>2, <2>5, <2>6
  <1> DEFINE w == Written(frames[c], image)'
             o == SubSeq(Open[c], 1, L - 1)
  <1>5. /\ Layers' /\ L > 1 /\ L - 1 \in Nat
        /\ Open[c] \in Seq(SUBSET Items) /\ Open[c] # <<>> /\ Len(Open[c]) = L
        /\ Open[c][L - 1] = frames[c][L].base \ frames[c][L - 1].base
        /\ w \in Seq(SUBSET Items) /\ Len(w) = L - 1
        /\ \A i \in 1..(L - 2) : w[i] = Open[c][i]
        /\ w[L - 1] = image' \ frames[c][L - 1].base
        /\ Open' = [Open EXCEPT ![c] = w]
    BY <1>1, <1>2, <1>3, <1>4, InnerUnits
  <1> HIDE DEF w
  <1>6. L - 1 \in 0..Len(Open[c])
    BY <1>5
  <1>7. /\ o \in Seq(SUBSET Items) /\ Len(o) = L - 1
        /\ \A i \in 1..(L - 1) : o[i] = Open[c][i]
    BY <1>5, <1>6, PrefixSeq
  <1> HIDE DEF o
  <1>8. ASSUME NEW i \in 1..(L - 1) PROVE w[i] = o[i]
    <2>1. i = L - 1 \/ i \in 1..(L - 2)
      BY <1>5
    <2> QED
      BY <1>4, <1>5, <1>7, <2>1
  <1>9. w = o
    BY <1>5, <1>7, <1>8, SeqEqual
  <1>10. Store!Outer(c) = o
    BY <1>5 DEF Store!Outer, o
  <1>11. Open' = [Open EXCEPT ![c] = Store!Outer(c)]
    BY <1>5, <1>9, <1>10
  <1> QED
    BY <1>1, <1>2, <1>5, <1>11 DEF Store!Undo

(* What a process that dies had in progress vanishes. *)
LEMMA CrashVanishes ==
    ASSUME NestInv, InStep, Layers, NEW c \in Conns, Crash(c)
    PROVE  Layers' /\ Store!Vanish(c)
  <1>1. /\ frames[c] # <<>> /\ frames' = [frames EXCEPT ![c] = <<>>]
        /\ disk' = disk /\ kept' = kept /\ steps' = steps
    BY DEF Crash
  <1>2. /\ TypeOK /\ writer = c /\ \A d \in Conns \ {c} : frames[d] = <<>>
        /\ Open[c] # <<>>
    BY <1>1, HolderUnits
  <1>3. writer' = NoOne /\ image' = {} /\ NoOne # c
    BY <1>2, TransactionAssumption DEF Crash, Unlock
  <1>4. frames'[c] = <<>> /\ \A d \in Conns \ {c} : frames'[d] = <<>>
    BY <1>1, <1>2 DEF TypeOK
  <1>5. Layers'
    <2>1. \A i \in Nat : ~(i \in 1..Len(frames'[c]))
      <3>1. Len(frames'[c]) = 0
        BY <1>4, EmptySeq
      <3> QED
        BY <3>1
    <2>2. \A x \in disk' \cup image' : x[2] <= steps'[x[1]]
      BY <1>1, <1>3 DEF Layers
    <2> QED
      BY <1>4, <2>1, <2>2, LayersOf
  <1>6. Open' = [Open EXCEPT ![c] = <<>>]
    BY <1>2, <1>3, OpenMoves
  <1> QED
    BY <1>1, <1>2, <1>5, <1>6 DEF Store!Vanish

(* Every step of the objects is a step of the units of work, or none. *)
LEMMA StepIsUnits ==
    ASSUME NestInv, InStep, Layers, ~ EngineMayRollBack, [Next]_vars
    PROVE  Layers' /\ [Store!SNext]_(Store!svars)
  <1>1. CASE UNCHANGED vars
    <2>1. UNCHANGED <<disk, writer, image, frames, kept, steps>>
      BY <1>1 DEF vars, lock
    <2>2. UNCHANGED Store!svars
      BY <2>1 DEF Store!svars, Open, Written
    <2>3. Layers'
      BY <2>1 DEF Layers, Seen
    <2> QED
      BY <2>2, <2>3
  <1>2. CASE Next
    <2> PICK c \in Conns : \/ OpenOuter(c) \/ OpenInner(c) \/ OpenBare(c)
                           \/ OpenStray(c) \/ Write(c) \/ Close(c)
                           \/ Crash(c) \/ EngineRollsBack(c)
      BY <1>2 DEF Next
    <2>1. CASE OpenOuter(c) \/ OpenBare(c)
      <3>1. PICK n \in Nat \cup {Bare} :
                Acquire(c) /\ Push(c, n) /\ UNCHANGED <<disk, kept, steps>>
        BY <2>1 DEF OpenOuter, OpenBare
      <3>2. Layers' /\ Store!Begin(c)
        BY <3>1, FirstBegins
      <3> QED
        BY <3>2 DEF Store!SNext
    <2>2. CASE OpenInner(c)
      BY <2>2, InnerNests DEF Store!SNext
    <2>3. CASE OpenStray(c)
      <3>1. writer = NoOne /\ depth[c] > 0
        BY <2>3 DEF OpenStray
      <3>2. frames[c] = <<>>
        BY <3>1, Free DEF InStep
      <3>3. depth[c] = 0
        BY <3>1, <3>2, EmptySeq DEF NestInv, Nested
      <3> QED
        BY <3>1, <3>3
    <2>4. CASE Write(c)
      <3>1. Layers' /\ Issued(c) \in Items
            /\ (Store!Put(c, Issued(c)) \/ Store!PutAlone(Issued(c)))
        BY <2>4, WritePuts
      <3> QED
        BY <3>1 DEF Store!SNext
    <2>5. CASE CommitOuter(c) \/ CommitRefused(c) \/ LeaveOuter(c)
      <3>1. PICK b \in BOOLEAN :
                /\ frames[c] # <<>> /\ Top(c).level <= 0 /\ Unlock /\ Pop(c, b)
                /\ disk' = (IF b THEN image ELSE disk) /\ steps' = steps
        BY <2>5 DEF CommitOuter, CommitRefused, LeaveOuter, Rollback
      <3>2. Layers' /\ (Store!Publish(c) \/ Store!Undo(c))
        BY <3>1, LastEnds
      <3> QED
        BY <3>2 DEF Store!SNext
    <2>6. CASE CommitInner(c)
      BY <2>6, InnerKept DEF Store!SNext
    <2>7. CASE LeaveInner(c) \/ ReleaseRefused(c)
      BY <2>7, InnerUndone DEF Store!SNext
    <2>8. CASE LeaveLost(c)
      <3>1. frames[c] # <<>> /\ (writer # c \/ (Top(c).level > 0 /\ ~ Found(c)))
        BY <2>8 DEF LeaveLost
      <3>2. writer = c
        BY <3>1, Alone DEF InStep
      <3> QED
        BY <3>1, <3>2, TopOwn
    <2>9. CASE Crash(c)
      BY <2>9, CrashVanishes DEF Store!SNext
    <2>10. CASE EngineRollsBack(c)
      BY <2>10 DEF EngineRollsBack
    <2> QED
      BY <2>1, <2>2, <2>3, <2>4, <2>5, <2>6, <2>7, <2>8, <2>9, <2>10 DEF Close
  <1> QED
    BY <1>1, <1>2

(* Transactions, savepoints named by a counter and everything that fails about
   them are nested units of work on one store: what an inner object keeps joins
   the one around it, what it does not keep leaves no trace, and the file only
   changes by the whole of an outermost object. *)
THEOREM StoreIsImplemented ==
    ASSUME ~ EngineMayRollBack
    PROVE  Spec => ImplementsStore
  <1>1. Init => Store!SInit /\ Layers
    <2> SUFFICES ASSUME Init PROVE Store!SInit /\ Layers
      OBVIOUS
    <2>1. /\ disk = {} /\ writer = NoOne /\ image = {} /\ kept = FALSE
          /\ \A c \in Conns : frames[c] = <<>> /\ writer # c
      BY TransactionAssumption DEF Init
    <2>2. Open = [c \in Conns |-> <<>>]
      BY <2>1 DEF Open
    <2>3. \A c \in Conns : Len(frames[c]) = 0
      BY <2>1, EmptySeq
    <2>4. Layers
      BY <2>1, <2>3 DEF Layers
    <2> QED
      BY <2>1, <2>2, <2>4 DEF Store!SInit
  <1>2. TxInv => NestInv /\ InStep
    BY DEF TxInv
  <1>3. NestInv /\ InStep /\ Layers /\ [Next]_vars
            => Layers' /\ [Store!SNext]_(Store!svars)
    BY StepIsUnits
  <1> QED
    BY <1>1, <1>2, <1>3, TransactionInvariant, PTL DEF Spec, ImplementsStore, Store!SSpec

(* No connection sees a write of an object that is still alive: while a
   connection goes from one state with objects to the next, nothing it wrote
   reaches the file. *)
THEOREM NothingIsHalfway ==
    ASSUME ~ EngineMayRollBack
    PROVE  Spec => NothingHalfway
  <1> DEFINE Whole == \A c \in Conns : frames[c] # <<>> /\ frames'[c] # <<>> =>
                          disk' \cap ({c} \X (1..MaxSteps)) = disk \cap ({c} \X (1..MaxSteps))
  <1>1. TxInv => NestInv /\ InStep
    BY DEF TxInv
  <1>2. NestInv /\ InStep /\ [Next]_vars => [Whole]_vars
    <2> SUFFICES ASSUME NestInv, InStep, Next, NEW c \in Conns,
                        frames[c] # <<>>, frames'[c] # <<>>
                 PROVE  disk' = disk
      OBVIOUS
    <2>0. writer = c /\ writer # NoOne /\ begun /\ TypeOK
          /\ \A d \in Conns \ {c} : frames[d] = <<>>
      BY Alone DEF InStep, NestInv
    <2>1. PICK e \in Conns : \/ OpenOuter(e) \/ OpenInner(e) \/ OpenBare(e)
                             \/ OpenStray(e) \/ Write(e) \/ Close(e)
                             \/ Crash(e) \/ EngineRollsBack(e)
      BY DEF Next
    <2>2. CASE OpenOuter(e) \/ OpenInner(e) \/ OpenBare(e) \/ OpenStray(e)
               \/ Crash(e) \/ EngineRollsBack(e)
      BY <2>2 DEF OpenOuter, OpenInner, OpenBare, OpenStray, Crash, EngineRollsBack
    <2>3. CASE Write(e)
      BY <2>0, <2>3 DEF Write
    <2>4. CASE Close(e)
      <3>1. e = c
        <4>1. frames[e] # <<>>
          BY <2>4 DEF Close, CommitOuter, CommitRefused, CommitInner, ReleaseRefused,
                      LeaveOuter, LeaveInner, LeaveLost
        <4> QED
          BY <2>0, <4>1
      <3>2. CASE CommitOuter(c)
        <4>1. Top(c).level <= 0 /\ Pop(c, TRUE)
          BY <3>2 DEF CommitOuter
        <4>2. Len(frames[c]) = 1
          BY <4>1, LastIsAlone
        <4>3. frames'[c] = <<>>
          BY <2>0, <4>1, <4>2, PopStep
        <4> QED
          BY <4>3
      <3>3. CASE CommitInner(c) \/ LeaveInner(c)
        BY <2>0, <3>3 DEF CommitInner, LeaveInner, Release
      <3>4. CASE CommitRefused(c) \/ ReleaseRefused(c) \/ LeaveOuter(c) \/ LeaveLost(c)
        BY <3>4 DEF CommitRefused, ReleaseRefused, LeaveOuter, LeaveLost
      <3> QED
        BY <2>4, <3>1, <3>2, <3>3, <3>4 DEF Close
    <2> QED
      BY <2>1, <2>2, <2>3, <2>4
  <1> QED
    BY <1>1, <1>2, TransactionInvariant, PTL DEF Spec, NothingHalfway
=============================================================================
