------------------------- MODULE SyncedSignalProofs -------------------------
(***************************************************************************)
(* Theorems about SyncedSignal, for any replicas, atoms and bounds: what a *)
(* cell holds, what its effects have seen and what its replica broadcast,  *)
(* with calls nested in effects to any depth.                              *)
(***************************************************************************)
EXTENDS SyncedSignal, SequenceTheorems, TLAPS

-----------------------------------------------------------------------------
\* The stack of calls of a replica.
Stacks == calls \in [Replica -> Seq(Frame)]

\* What is left of r's stack when n frames of it are.
Left(r, n) ==
    /\ calls' \in [Replica -> Seq(Frame)]
    /\ \A q \in Replica : q # r => calls'[q] = calls[q]
    /\ Len(calls'[r]) = n
    /\ \A k \in 1 .. n : calls'[r][k] = calls[r][k]

LEMMA StackLength ==
    ASSUME Stacks, NEW r \in Replica
    PROVE  /\ Len(calls[r]) \in Nat
           /\ Idle(r) <=> Len(calls[r]) = 0
           /\ \A k \in 1 .. Len(calls[r]) : calls[r][k] \in Frame
           /\ ~Idle(r) => Len(calls[r]) \in 1 .. Len(calls[r]) /\ Top(r) \in Frame
<1>1. calls[r] \in Seq(Frame)
  BY DEF Stacks
<1>2. Len(calls[r]) \in Nat /\ (calls[r] = <<>> <=> Len(calls[r]) = 0)
  BY <1>1, EmptySeq
<1>3. \A k \in 1 .. Len(calls[r]) : calls[r][k] \in Frame
  BY <1>1
<1> QED
  BY <1>2, <1>3 DEF Idle, Top

LEMMA StackPushed ==
    ASSUME Stacks, NEW r \in Replica, NEW f \in Frame, Push(r, f)
    PROVE  /\ calls' \in [Replica -> Seq(Frame)]
           /\ \A q \in Replica : q # r => calls'[q] = calls[q]
           /\ Len(calls'[r]) = Len(calls[r]) + 1
           /\ \A k \in 1 .. Len(calls[r]) : calls'[r][k] = calls[r][k]
           /\ ~Idle(r)' /\ Top(r)' = f
<1>1. calls[r] \in Seq(Frame) /\ Len(calls[r]) \in Nat
  BY DEF Stacks
<1>2. /\ Append(calls[r], f) \in Seq(Frame) /\ Append(calls[r], f) # <<>>
      /\ Len(Append(calls[r], f)) = Len(calls[r]) + 1
      /\ \A k \in 1 .. Len(calls[r]) : Append(calls[r], f)[k] = calls[r][k]
      /\ Append(calls[r], f)[Len(calls[r]) + 1] = f
  BY <1>1, AppendProperties
<1>3. calls' = [calls EXCEPT ![r] = Append(calls[r], f)]
  BY DEF Push
<1>4. /\ calls'[r] = Append(calls[r], f)
      /\ \A q \in Replica : q # r => calls'[q] = calls[q]
      /\ calls' \in [Replica -> Seq(Frame)]
  BY <1>2, <1>3 DEF Stacks
<1> QED
  BY <1>2, <1>4 DEF Idle, Top

LEMMA StackTopSet ==
    ASSUME Stacks, NEW r \in Replica, ~Idle(r), NEW f \in Frame, SetTop(r, f)
    PROVE  /\ calls' \in [Replica -> Seq(Frame)]
           /\ \A q \in Replica : q # r => calls'[q] = calls[q]
           /\ Len(calls'[r]) = Len(calls[r])
           /\ \A k \in 1 .. Len(calls[r]) - 1 : calls'[r][k] = calls[r][k]
           /\ ~Idle(r)' /\ Top(r)' = f
<1> DEFINE N == Len(calls[r])
           s == [calls[r] EXCEPT ![N] = f]
<1>1. calls[r] \in Seq(Frame) /\ N \in Nat /\ N \in 1 .. N
  BY StackLength DEF Stacks
<1>2. /\ s \in Seq(Frame) /\ Len(s) = N
      /\ \A k \in 1 .. N : s[k] = IF k = N THEN f ELSE calls[r][k]
  BY <1>1, ExceptSeq
<1>3. calls' = [calls EXCEPT ![r] = s]
  BY DEF SetTop
<1> HIDE DEF s
<1>4. /\ calls'[r] = s
      /\ \A q \in Replica : q # r => calls'[q] = calls[q]
      /\ calls' \in [Replica -> Seq(Frame)]
  BY <1>2, <1>3 DEF Stacks
<1>5. s # <<>>
  BY <1>1, <1>2, EmptySeq
<1> QED
  BY <1>1, <1>2, <1>4, <1>5 DEF Idle, Top

\* A call that returns or fails leaves some frames below it as they were.
LEMMA StackCut ==
    ASSUME Stacks, NEW r \in Replica, NEW n \in 0 .. Len(calls[r]),
           calls' = [calls EXCEPT ![r] = SubSeq(@, 1, n)]
    PROVE  Left(r, n)
<1> DEFINE s == SubSeq(calls[r], 1, n)
<1>1. calls[r] \in Seq(Frame) /\ Len(calls[r]) \in Nat
  BY DEF Stacks
<1>2. \A k \in 1 .. n : calls[r][k] \in Frame
  BY <1>1
<1>3. /\ s \in Seq(Frame)
      /\ Len(s) = IF 1 <= n THEN n - 1 + 1 ELSE 0
      /\ \A k \in 1 .. n - 1 + 1 : s[k] = calls[r][1 + k - 1]
  BY <1>1, <1>2, SubSeqProperties
<1>4. Len(s) = n /\ \A k \in 1 .. n : s[k] = calls[r][k]
  <2>1. n \in Nat
    BY <1>1
  <2> HIDE DEF s
  <2> QED
    BY <1>3, <2>1
<1> HIDE DEF s
<1>5. calls' = [calls EXCEPT ![r] = s]
  BY DEF s
<1> QED
  BY <1>3, <1>4, <1>5 DEF Left, Stacks

LEMMA StackUnwound ==
    ASSUME Stacks, NEW r \in Replica, ~Idle(r), Unwind(r) \/ Pop(r)
    PROVE  /\ \E n \in 0 .. Len(calls[r]) - 1 : Left(r, n)
           /\ Pop(r) => Left(r, Len(calls[r]) - 1)
<1>1. Len(calls[r]) \in Nat \ {0}
  BY StackLength
<1>2. \A n \in 0 .. Len(calls[r]) - 1 : n \in 0 .. Len(calls[r])
  BY <1>1
<1>3. ASSUME Pop(r)
      PROVE  Left(r, Len(calls[r]) - 1)
  <2>1. Len(calls[r]) - 1 \in 0 .. Len(calls[r])
    BY <1>1
  <2> QED
    BY <1>3, <2>1, StackCut DEF Pop
<1>4. ASSUME Unwind(r)
      PROVE  \E n \in 0 .. Len(calls[r]) - 1 : Left(r, n)
  <2>1. PICK n \in 0 .. Len(calls[r]) - 1 :
               calls' = [calls EXCEPT ![r] = SubSeq(@, 1, n)]
    BY <1>4 DEF Unwind
  <2> QED
    BY <1>2, <2>1, StackCut
<1>5. Len(calls[r]) - 1 \in 0 .. Len(calls[r]) - 1
  BY <1>1
<1> QED
  BY <1>3, <1>4, <1>5

-----------------------------------------------------------------------------
\* Types, as an inductive invariant: TypeOK with the shapes of polled, pending
\* and own.
TypeInv ==
    /\ live \subseteq Replica
    /\ value \in [Replica -> State] /\ observed \in [Replica -> State]
    /\ own \in [Replica -> State]
    /\ calls \in [Replica -> Seq(Frame)]
    /\ \A r \in Replica : Len(calls[r]) <= MaxDepth \/ Len(calls[r]) = 1
    /\ wire \in [Replica -> Seq(Message)]
    /\ polled \in [Replica -> [Replica -> Nat]]
    /\ \A r, q \in Replica : polled[r][q] <= Len(wire[q])
    /\ welcomed \subseteq Replica
    /\ pending \in [Replica -> SUBSET State]
    /\ unseen \subseteq Replica
    /\ merges \in 0 .. MaxMerges /\ garbage \in 0 .. MaxGarbage
    /\ failures \in 0 .. MaxFailures

\* Messages are only added to what a replica published.
Extends(r, m) ==
    /\ wire' \in [Replica -> Seq(Message)]
    /\ \A q \in Replica : q # r => wire'[q] = wire[q]
    /\ Len(wire'[r]) = Len(wire[r]) + 1
    /\ \A k \in 1 .. Len(wire[r]) : wire'[r][k] = wire[r][k]
    /\ wire'[r][Len(wire[r]) + 1] = m

LEMMA WireAppended ==
    ASSUME TypeInv, NEW r \in Replica, NEW m \in Message,
           wire' = [wire EXCEPT ![r] = Append(@, m)]
    PROVE  Extends(r, m)
<1>1. wire[r] \in Seq(Message)
  BY DEF TypeInv
<1> DEFINE w == Append(wire[r], m)
<1>2. /\ w \in Seq(Message) /\ Len(w) = Len(wire[r]) + 1
      /\ \A k \in 1 .. Len(wire[r]) : w[k] = wire[r][k]
      /\ w[Len(wire[r]) + 1] = m
  BY <1>1, AppendProperties
<1>3. wire' = [wire EXCEPT ![r] = w]
  OBVIOUS
<1> HIDE DEF w
<1> QED
  BY <1>2, <1>3 DEF Extends, TypeInv

\* A state sent is on the wire, or is all that is buffered.
LEMMA Sent ==
    ASSUME TypeInv, NEW r \in Replica, NEW s \in State, Send(r, s)
    PROVE  IF r \in welcomed
           THEN Extends(r, [valid |-> TRUE, state |-> s]) /\ UNCHANGED pending
           ELSE /\ UNCHANGED wire
                /\ pending' \in [Replica -> SUBSET State]
                /\ pending'[r] = {s}
                /\ \A q \in Replica : q # r => pending'[q] = pending[q]
<1>1. CASE r \in welcomed
  <2>1. [valid |-> TRUE, state |-> s] \in Message
    BY DEF Message
  <2> QED
    BY <1>1, <2>1, WireAppended DEF Send
<1>2. CASE r \notin welcomed
  <2>1. pending' = [pending EXCEPT ![r] = {s}] /\ UNCHANGED wire
    BY <1>2 DEF Send
  <2>2. pending \in [Replica -> SUBSET State] /\ {s} \in SUBSET State
    BY DEF TypeInv
  <2> QED
    BY <1>2, <2>1, <2>2
<1> QED
  BY <1>1, <1>2

\* The welcome flushes what was buffered, if anything was.
LEMMA Flushed ==
    ASSUME TypeInv, NEW r \in Replica, PollWelcome(r)
    PROVE  /\ IF pending[r] = {} THEN UNCHANGED wire
              ELSE Extends(r, [valid |-> TRUE, state |-> UNION pending[r]])
           /\ pending' \in [Replica -> SUBSET State]
           /\ pending'[r] = {}
           /\ \A q \in Replica : q # r => pending'[q] = pending[q]
<1> DEFINE m == [valid |-> TRUE, state |-> UNION pending[r]]
<1>1. m \in Message
  BY DEF Message, State, TypeInv
<1>2. wire[r] \in Seq(Message)
  BY DEF TypeInv
<1>3. CASE pending[r] = {}
  <2>1. wire[r] \o <<>> = wire[r]
    BY <1>2
  <2>2. wire' = wire
    BY <1>3, <2>1 DEF PollWelcome, TypeInv
  <2> QED
    BY <1>3, <2>2 DEF PollWelcome, TypeInv
<1>4. CASE pending[r] # {}
  <2>1. wire[r] \o <<m>> = Append(wire[r], m)
    BY <1>1, <1>2, AppendIsConcat
  <2>2. wire' = [wire EXCEPT ![r] = Append(@, m)]
    BY <1>4, <2>1 DEF PollWelcome
  <2>3. Extends(r, m)
    BY <1>1, <2>2, WireAppended
  <2> QED
    BY <1>4, <2>3 DEF PollWelcome, TypeInv
<1> QED
  BY <1>3, <1>4

LEMMA ExtendedTypes ==
    ASSUME TypeInv, NEW r \in Replica, NEW m \in Message,
           Extends(r, m) \/ UNCHANGED wire, UNCHANGED polled
    PROVE  /\ wire' \in [Replica -> Seq(Message)]
           /\ \A p, q \in Replica : polled'[p][q] <= Len(wire'[q])
<1>1. ASSUME NEW p \in Replica, NEW q \in Replica
      PROVE  polled'[p][q] <= Len(wire'[q])
  <2>1. polled[p][q] \in Nat /\ Len(wire[q]) \in Nat /\ polled[p][q] <= Len(wire[q])
    BY DEF TypeInv
  <2>2. Len(wire'[q]) = Len(wire[q]) \/ Len(wire'[q]) = Len(wire[q]) + 1
    BY DEF Extends
  <2> QED
    BY <2>1, <2>2
<1>2. wire' \in [Replica -> Seq(Message)]
  BY DEF Extends, TypeInv
<1> QED
  BY <1>1, <1>2

\* No stack grows but by a call that MayCall allows.
LEMMA StackBounded ==
    ASSUME TypeInv, NEW r \in Replica,
           \A q \in Replica : q # r => calls'[q] = calls[q],
           \/ Len(calls'[r]) \in 0 .. Len(calls[r])
           \/ MayCall(r) /\ Len(calls'[r]) = Len(calls[r]) + 1
    PROVE  \A q \in Replica : Len(calls'[q]) <= MaxDepth \/ Len(calls'[q]) = 1
<1>1. \A q \in Replica : Len(calls[q]) \in Nat
  BY DEF TypeInv
<1>2. Len(calls[r]) <= MaxDepth \/ Len(calls[r]) = 1
  BY DEF TypeInv
<1>3. MayCall(r) => Len(calls[r]) = 0 \/ Len(calls[r]) < MaxDepth
  BY DEF MayCall, Idle
<1>4. Len(calls'[r]) <= MaxDepth \/ Len(calls'[r]) = 1
  <2> DEFINE n == Len(calls[r])
             n2 == Len(calls'[r])
  <2>1. n \in Nat /\ (n <= MaxDepth \/ n = 1) /\ MaxDepth \in Nat
        /\ \/ n2 \in 0 .. n
           \/ (n = 0 \/ n < MaxDepth) /\ n2 = n + 1
    BY <1>1, <1>2, <1>3, SignalAssumption
  <2> HIDE DEF n, n2
  <2>2. n2 <= MaxDepth \/ n2 = 1
    BY <2>1
  <2> QED
    BY <2>2 DEF n2
<1> QED
  BY <1>4 DEF TypeInv

LEMMA TypeInvStep == TypeInv /\ [Next]_vars => TypeInv'
<1> SUFFICES ASSUME TypeInv, [Next]_vars
             PROVE  TypeInv'
  OBVIOUS
<1> USE SignalAssumption
<1>0. Stacks
  BY DEF TypeInv, Stacks
<1>1. ASSUME NEW r \in Replica, CreateSignal(r)
      PROVE  TypeInv'
  <2>1. PICK initial \in {{}} \cup {{a} : a \in Atom} :
          /\ value' = [value EXCEPT ![r] = initial]
          /\ observed' = [observed EXCEPT ![r] = initial]
          /\ own' = [own EXCEPT ![r] = initial]
          /\ Send(r, initial)
    BY <1>1 DEF CreateSignal
  <2>2. initial \in State /\ [valid |-> TRUE, state |-> initial] \in Message
    BY DEF State, Message
  <2>3. /\ wire' \in [Replica -> Seq(Message)]
        /\ \A p, q \in Replica : polled'[p][q] <= Len(wire'[q])
        /\ pending' \in [Replica -> SUBSET State]
    BY <1>1, <2>1, <2>2, Sent, ExtendedTypes DEF CreateSignal, TypeInv
  <2> QED
    BY <1>1, <2>1, <2>2, <2>3 DEF CreateSignal, TypeInv
<1>2. ASSUME NEW r \in Replica, NEW a \in Atom, MergeCall(r, a)
      PROVE  TypeInv'
  <2>1. Merged(value[r], {a}) \in State /\ own[r] \cup {a} \in State
    BY DEF Merged, State, TypeInv
  <2>2. MergeFrame(Merged(value[r], {a})) \in Frame
    BY <2>1 DEF MergeFrame, Frame
  <2>3. /\ calls' \in [Replica -> Seq(Frame)]
        /\ \A q \in Replica : q # r => calls'[q] = calls[q]
        /\ Len(calls'[r]) = Len(calls[r]) + 1
    BY <1>0, <1>2, <2>2, StackPushed DEF MergeCall
  <2>4. \A q \in Replica : Len(calls'[q]) <= MaxDepth \/ Len(calls'[q]) = 1
    BY <1>2, <2>3, StackBounded DEF MergeCall
  <2>5. value' = [value EXCEPT ![r] = Merged(value[r], {a})]
        /\ own' = [own EXCEPT ![r] = own[r] \cup {a}]
    BY <1>2 DEF MergeCall
  <2>6. value' \in [Replica -> State] /\ own' \in [Replica -> State]
    BY <2>1, <2>5 DEF TypeInv
  <2>7. merges' \in 0 .. MaxMerges
    BY <1>2 DEF MergeCall, TypeInv
  <2> QED
    BY <1>2, <2>3, <2>4, <2>6, <2>7 DEF MergeCall, TypeInv
<1>3. ASSUME NEW r \in Replica, SyncCall(r)
      PROVE  TypeInv'
  <2>1. SyncFrame \in Frame
    BY DEF SyncFrame, Frame, State
  <2>2. /\ calls' \in [Replica -> Seq(Frame)]
        /\ \A q \in Replica : q # r => calls'[q] = calls[q]
        /\ Len(calls'[r]) = Len(calls[r]) + 1
    BY <1>0, <1>3, <2>1, StackPushed DEF SyncCall
  <2>3. \A q \in Replica : Len(calls'[q]) <= MaxDepth \/ Len(calls'[q]) = 1
    BY <1>3, <2>2, StackBounded DEF SyncCall
  <2> QED
    BY <1>3, <2>2, <2>3 DEF SyncCall, TypeInv
\* What the steps that only move the stack leave.
<1>4. ASSUME NEW r \in Replica,
             \/ calls' = calls
             \/ ~Idle(r) /\ (Unwind(r) \/ Pop(r))
             \/ ~Idle(r) /\ \E f \in Frame : SetTop(r, f)
      PROVE  /\ calls' \in [Replica -> Seq(Frame)]
             /\ \A q \in Replica : Len(calls'[q]) <= MaxDepth \/ Len(calls'[q]) = 1
  <2>1. CASE calls' = calls
    BY <2>1 DEF TypeInv
  <2>2. CASE ~Idle(r) /\ (Unwind(r) \/ Pop(r))
    <3>1. PICK n \in 0 .. Len(calls[r]) - 1 : Left(r, n)
      BY <1>0, <2>2, StackUnwound
    <3>2. Len(calls'[r]) \in 0 .. Len(calls[r])
      BY <1>0, <3>1, StackLength DEF Left
    <3> QED
      BY <3>1, <3>2, StackBounded DEF Left
  <2>3. CASE ~Idle(r) /\ \E f \in Frame : SetTop(r, f)
    <3>1. PICK f \in Frame : SetTop(r, f)
      BY <2>3
    <3>2. /\ calls' \in [Replica -> Seq(Frame)]
          /\ \A q \in Replica : q # r => calls'[q] = calls[q]
          /\ Len(calls'[r]) = Len(calls[r])
      BY <1>0, <2>3, <3>1, StackTopSet
    <3>3. Len(calls'[r]) \in 0 .. Len(calls[r])
      BY <1>0, <3>2, StackLength
    <3> QED
      BY <3>2, <3>3, StackBounded
  <2> QED
    BY <1>4, <2>1, <2>2, <2>3
<1>5. ASSUME NEW r \in Replica, NEW q \in Replica, Poll(r, q)
      PROVE  TypeInv'
  <2> DEFINE m == wire[q][polled[r][q] + 1]
             merged == Merged(value[r], m.state)
  <2>1. /\ ~Idle(r) /\ polled[r][q] < Len(wire[q])
        /\ polled' = [polled EXCEPT ![r][q] = @ + 1]
        /\ IF m.valid
           THEN /\ value' = [value EXCEPT ![r] = merged]
                /\ SetTop(r, Changed(Top(r), value[r], merged))
                /\ UNCHANGED unseen
           ELSE /\ UNCHANGED <<calls, unseen>> \/ (Encrypted /\ Fails(r))
                /\ UNCHANGED value
    BY <1>5 DEF Poll, InLoop, Taken
  <2>2. polled[r][q] \in Nat /\ Len(wire[q]) \in Nat /\ wire[q] \in Seq(Message)
    BY DEF TypeInv
  <2>3. m \in Message
    <3>1. polled[r][q] + 1 \in 1 .. Len(wire[q])
      BY <2>1, <2>2
    <3> QED
      BY <2>2, <3>1, ElementOfSeq
  <2>4. merged \in State
    <3>1. m.state \in State /\ value[r] \in State
      BY <2>3 DEF Message, TypeInv
    <3> HIDE DEF m
    <3> QED
      BY <3>1 DEF Merged, State
  <2>5. Changed(Top(r), value[r], merged) \in Frame
    <3>1. Top(r) \in Frame
      BY <1>0, <2>1, StackLength
    <3> HIDE DEF merged
    <3> QED
      BY <3>1 DEF Changed, Frame
  <2> HIDE DEF m, merged
  <2>6. /\ polled' \in [Replica -> [Replica -> Nat]]
        /\ \A p, s \in Replica : polled'[p][s] <= Len(wire[s])
    BY <2>1, <2>2 DEF TypeInv
  <2>7. value' \in [Replica -> State]
    BY <2>1, <2>4 DEF TypeInv
  <2>8. /\ calls' \in [Replica -> Seq(Frame)]
        /\ \A s \in Replica : Len(calls'[s]) <= MaxDepth \/ Len(calls'[s]) = 1
    BY <1>4, <2>1, <2>5 DEF Fails
  <2>9. unseen' \subseteq Replica
    BY <2>1 DEF Fails, TypeInv
  <2> QED
    BY <1>5, <2>6, <2>7, <2>8, <2>9 DEF Poll, TypeInv
<1>13. ASSUME NEW r \in Replica, NEW q \in Replica, PollFails(r, q)
       PROVE  TypeInv'
  <2>1. /\ calls' \in [Replica -> Seq(Frame)]
        /\ \A s \in Replica : Len(calls'[s]) <= MaxDepth \/ Len(calls'[s]) = 1
    BY <1>4, <1>13 DEF PollFails, InLoop, Fails
  <2>2. polled[r][q] \in Nat /\ Len(wire[q]) \in Nat /\ polled[r][q] < Len(wire[q])
    BY <1>13 DEF PollFails, TypeInv
  <2>3. polled' = [polled EXCEPT ![r][q] = @ + 1] /\ UNCHANGED wire
    BY <1>13 DEF PollFails
  <2>4. /\ polled' \in [Replica -> [Replica -> Nat]]
        /\ \A p, s \in Replica : polled'[p][s] <= Len(wire'[s])
    BY <2>2, <2>3 DEF TypeInv
  <2>5. failures' \in 0 .. MaxFailures /\ unseen' \subseteq Replica
    BY <1>13 DEF PollFails, Fails, TypeInv
  <2> QED
    BY <1>13, <2>1, <2>4, <2>5 DEF PollFails, TypeInv
<1>6. ASSUME NEW r \in Replica, PollWelcome(r)
      PROVE  TypeInv'
  <2>1. [valid |-> TRUE, state |-> UNION pending[r]] \in Message
    BY DEF Message, State, TypeInv
  <2>2. /\ wire' \in [Replica -> Seq(Message)]
        /\ \A p, q \in Replica : polled'[p][q] <= Len(wire'[q])
        /\ pending' \in [Replica -> SUBSET State]
    BY <1>6, <2>1, Flushed, ExtendedTypes DEF PollWelcome, TypeInv
  <2> QED
    BY <1>6, <2>2 DEF PollWelcome, TypeInv
<1>7. ASSUME NEW r \in Replica, Wake(r)
      PROVE  TypeInv'
  <2>1. [Top(r) EXCEPT !.woken = TRUE] \in Frame
    <3>1. Top(r) \in Frame
      BY <1>0, <1>7, StackLength DEF Wake
    <3> QED
      BY <3>1 DEF Frame
  <2>2. /\ calls' \in [Replica -> Seq(Frame)]
        /\ \A s \in Replica : Len(calls'[s]) <= MaxDepth \/ Len(calls'[s]) = 1
    BY <1>4, <1>7, <2>1 DEF Wake
  <2> QED
    BY <1>7, <2>2 DEF Wake, TypeInv
<1>8. ASSUME NEW r \in Replica, SyncReturn(r)
      PROVE  TypeInv'
  BY <1>4, <1>8 DEF SyncReturn, TypeInv
<1>9. ASSUME NEW r \in Replica, MergeReturn(r)
      PROVE  TypeInv'
  <2>1. Top(r).bytes \in State
    BY <1>0, <1>9, StackLength DEF MergeReturn, Frame
  <2>2. [valid |-> TRUE, state |-> Top(r).bytes] \in Message
    BY <2>1 DEF Message
  <2>3. /\ wire' \in [Replica -> Seq(Message)]
        /\ \A p, q \in Replica : polled'[p][q] <= Len(wire'[q])
        /\ pending' \in [Replica -> SUBSET State]
    BY <1>9, <2>1, <2>2, Sent, ExtendedTypes DEF MergeReturn, TypeInv
  <2> QED
    BY <1>4, <1>9, <2>3 DEF MergeReturn, TypeInv
<1>10. ASSUME NEW r \in Replica, CallFails(r)
       PROVE  TypeInv'
  BY <1>4, <1>10 DEF CallFails, Fails, TypeInv
<1>11. ASSUME NEW r \in Replica, SendGarbage(r)
       PROVE  TypeInv'
  <2>1. Garbage \in Message
    BY DEF Garbage, Message, State
  <2>2. /\ wire' \in [Replica -> Seq(Message)]
        /\ \A p, q \in Replica : polled'[p][q] <= Len(wire'[q])
    BY <1>11, <2>1, WireAppended, ExtendedTypes DEF SendGarbage
  <2> QED
    BY <1>11, <2>2 DEF SendGarbage, TypeInv
<1>12. CASE UNCHANGED vars
  BY <1>12 DEF vars, TypeInv
<1> QED
  BY <1>1, <1>2, <1>3, <1>5, <1>6, <1>7, <1>8, <1>9, <1>10, <1>11, <1>12, <1>13 DEF Next

LEMMA TypeInvInit == Init => TypeInv
<1> SUFFICES ASSUME Init
             PROVE  TypeInv
  OBVIOUS
<1>1. welcomed \subseteq Replica
  BY SignalAssumption DEF Init
<1>2. \A r \in Replica : calls[r] = <<>> /\ wire[r] = <<>>
  BY DEF Init
<1>3. Len(<<>>) = 0
  OBVIOUS
<1> QED
  BY <1>1, <1>2, <1>3, SignalAssumption DEF Init, TypeInv, State

\* The variables keep their types, however deep effects call back into their
\* own signal: no stack grows past its bound, no poll runs ahead of the wire.
THEOREM TypeCorrect == Spec => []TypeOK
<1>1. TypeInv => TypeOK
  BY DEF TypeInv, TypeOK
<1> QED
  BY <1>1, TypeInvInit, TypeInvStep, PTL DEF Spec

-----------------------------------------------------------------------------
\* What r does leaves the other replicas as they were.
Step(r) ==
    \/ CreateSignal(r)
    \/ \E a \in Atom : MergeCall(r, a)
    \/ SyncCall(r)
    \/ \E q \in Replica : Poll(r, q) \/ PollFails(r, q)
    \/ PollWelcome(r) \/ Wake(r) \/ SyncReturn(r) \/ MergeReturn(r)
    \/ CallFails(r) \/ SendGarbage(r)

Same(q) ==
    /\ value'[q] = value[q] /\ observed'[q] = observed[q] /\ own'[q] = own[q]
    /\ calls'[q] = calls[q] /\ wire'[q] = wire[q] /\ pending'[q] = pending[q]
    /\ q \in live' <=> q \in live
    /\ q \in welcomed' <=> q \in welcomed
    /\ q \in unseen' <=> q \in unseen

LEMMA Elsewhere ==
    ASSUME TypeInv, NEW r \in Replica, Step(r), NEW q \in Replica, q # r
    PROVE  Same(q)
<1>1. /\ value \in [Replica -> State] /\ observed \in [Replica -> State]
      /\ own \in [Replica -> State] /\ calls \in [Replica -> Seq(Frame)]
      /\ wire \in [Replica -> Seq(Message)]
      /\ pending \in [Replica -> SUBSET State]
  BY DEF TypeInv
<1>2. \A s : Send(r, s) => wire'[q] = wire[q] /\ pending'[q] = pending[q]
  BY <1>1 DEF Send
<1>3. \A f : Push(r, f) \/ SetTop(r, f) => calls'[q] = calls[q]
  BY <1>1 DEF Push, SetTop
<1>4. /\ Unwind(r) \/ Pop(r) => calls'[q] = calls[q]
      /\ Fails(r) => calls'[q] = calls[q] /\ (q \in unseen' <=> q \in unseen)
  BY <1>1 DEF Unwind, Pop, Fails
<1>5. CASE CreateSignal(r)
  BY <1>1, <1>2, <1>5 DEF CreateSignal, Same
<1>6. ASSUME NEW a \in Atom, MergeCall(r, a)
      PROVE  Same(q)
  BY <1>1, <1>3, <1>6 DEF MergeCall, Same
<1>7. CASE SyncCall(r)
  BY <1>1, <1>3, <1>7 DEF SyncCall, Same
<1>8. ASSUME NEW p \in Replica, Poll(r, p)
      PROVE  Same(q)
  <2>1. calls'[q] = calls[q]
    BY <1>3, <1>4, <1>8 DEF Poll
  <2>2. value'[q] = value[q]
    BY <1>1, <1>8 DEF Poll
  <2>3. q \in unseen' <=> q \in unseen
    BY <1>4, <1>8 DEF Poll
  <2> QED
    BY <1>8, <2>1, <2>2, <2>3 DEF Poll, Same
<1>15. ASSUME NEW p \in Replica, PollFails(r, p)
       PROVE  Same(q)
  BY <1>4, <1>15 DEF PollFails, Same
<1>9. CASE PollWelcome(r)
  BY <1>1, <1>9 DEF PollWelcome, Same
<1>10. CASE Wake(r)
  BY <1>1, <1>3, <1>10 DEF Wake, Same
<1>11. CASE SyncReturn(r)
  BY <1>4, <1>11 DEF SyncReturn, Same
<1>12. CASE MergeReturn(r)
  BY <1>2, <1>4, <1>12 DEF MergeReturn, Same
<1>13. CASE CallFails(r)
  BY <1>4, <1>13 DEF CallFails, Same
<1>14. CASE SendGarbage(r)
  BY <1>1, <1>14 DEF SendGarbage, Same
<1> QED
  BY <1>5, <1>6, <1>7, <1>8, <1>9, <1>10, <1>11, <1>12, <1>13, <1>14, <1>15 DEF Step

-----------------------------------------------------------------------------
\* What holds of every replica, whatever the bounds: one that is not created
\* has no calls, only the last call of a stack can be outside a wake, effects
\* and own merges are never ahead of the value, and a sync that will wake has
\* something new to show.
HeldAt(r) ==
    /\ r \notin live => Idle(r)
    /\ \A k \in 1 .. Len(calls[r]) - 1 : calls[r][k].woken
    /\ own[r] \subseteq value[r] /\ observed[r] \subseteq value[r]
    /\ ~Idle(r) /\ Top(r).op = "sync" /\ Top(r).changed /\ ~Top(r).woken
           => observed[r] # value[r]

SignalInv == TypeInv /\ \A r \in Replica : HeldAt(r)

\* A stack that lost its last calls is empty or inside a wake.
LEMMA LeftInWake ==
    ASSUME Stacks, NEW r \in Replica, HeldAt(r), ~Idle(r), Unwind(r) \/ Pop(r)
    PROVE  /\ Idle(r)' \/ (~Idle(r)' /\ Top(r)'.woken)
           /\ \A k \in 1 .. Len(calls'[r]) - 1 : calls'[r][k].woken
<1>1. PICK n \in 0 .. Len(calls[r]) - 1 : Left(r, n)
  BY StackUnwound
<1>2. Len(calls[r]) \in Nat /\ n \in Nat /\ n <= Len(calls[r]) - 1
  BY StackLength
<1>3. \A k \in 1 .. n : calls'[r][k].woken
  BY <1>1, <1>2 DEF Left, HeldAt
<1>4. calls'[r] \in Seq(Frame) /\ Len(calls'[r]) = n
  BY <1>1 DEF Left
<1>5. calls'[r] = <<>> <=> n = 0
  BY <1>4, EmptySeq
<1>6. n # 0 => n \in 1 .. n
  BY <1>2
<1> QED
  BY <1>2, <1>3, <1>4, <1>5, <1>6 DEF Idle, Top

LEMMA SignalInvStep == SignalInv /\ [Next]_vars => SignalInv'
<1> SUFFICES ASSUME SignalInv, [Next]_vars
             PROVE  SignalInv'
  OBVIOUS
<1>0. TypeInv /\ TypeInv' /\ Stacks
  BY TypeInvStep DEF SignalInv, TypeInv, Stacks
<1>1. ASSUME NEW r \in Replica, Step(r)
      PROVE  HeldAt(r)'
  <2>1. HeldAt(r)
    BY DEF SignalInv
  <2>2. /\ value \in [Replica -> State] /\ observed \in [Replica -> State]
        /\ own \in [Replica -> State]
    BY <1>0 DEF TypeInv
  <2>3. CASE CreateSignal(r)
    BY <2>1, <2>2, <2>3, EmptySeq DEF CreateSignal, HeldAt, Idle, Top
  <2>4. ASSUME NEW a \in Atom, MergeCall(r, a)
        PROVE  HeldAt(r)'
    <3> DEFINE f == MergeFrame(Merged(value[r], {a}))
    <3>1. f \in Frame /\ f.op = "merge"
      BY <2>2 DEF MergeFrame, Frame, Merged, State
    <3>2. MayCall(r) /\ Push(r, f)
      BY <2>4 DEF MergeCall
    <3> HIDE DEF f
    <3>3. /\ Len(calls'[r]) = Len(calls[r]) + 1 /\ Len(calls[r]) \in Nat
          /\ \A k \in 1 .. Len(calls[r]) : calls'[r][k] = calls[r][k]
          /\ ~Idle(r)' /\ Top(r)' = f
      BY <1>0, <3>1, <3>2, StackPushed, StackLength
    <3>4. \A k \in 1 .. Len(calls'[r]) - 1 : calls'[r][k].woken
      BY <1>0, <2>1, <3>2, <3>3, StackLength DEF HeldAt, MayCall, Top
    <3>5. r \in live' /\ own'[r] \subseteq value'[r] /\ observed'[r] \subseteq value'[r]
      BY <2>1, <2>2, <2>4 DEF MergeCall, MayCall, HeldAt, Merged
    <3> QED
      BY <3>1, <3>3, <3>4, <3>5 DEF HeldAt
  <2>5. CASE SyncCall(r)
    <3>1. SyncFrame \in Frame /\ ~SyncFrame.changed
      BY DEF SyncFrame, Frame, State
    <3>2. MayCall(r) /\ Push(r, SyncFrame)
      BY <2>5 DEF SyncCall
    <3>3. /\ Len(calls'[r]) = Len(calls[r]) + 1 /\ Len(calls[r]) \in Nat
          /\ \A k \in 1 .. Len(calls[r]) : calls'[r][k] = calls[r][k]
          /\ ~Idle(r)' /\ Top(r)' = SyncFrame
      BY <1>0, <3>1, <3>2, StackPushed, StackLength
    <3>4. \A k \in 1 .. Len(calls'[r]) - 1 : calls'[r][k].woken
      BY <1>0, <2>1, <3>2, <3>3, StackLength DEF HeldAt, MayCall, Top
    <3>5. r \in live' /\ own'[r] \subseteq value'[r] /\ observed'[r] \subseteq value'[r]
      BY <2>1, <2>5 DEF SyncCall, MayCall, HeldAt
    <3> QED
      BY <3>1, <3>3, <3>4, <3>5 DEF HeldAt
  <2>6. ASSUME NEW q \in Replica, Poll(r, q)
        PROVE  HeldAt(r)'
    <3> DEFINE m == wire[q][polled[r][q] + 1]
               merged == Merged(value[r], m.state)
               f == Changed(Top(r), value[r], merged)
    <3>1. /\ ~Idle(r) /\ Top(r).op = "sync" /\ ~Top(r).woken
          /\ UNCHANGED <<live, observed, own>>
          /\ IF m.valid THEN value' = [value EXCEPT ![r] = merged] /\ SetTop(r, f)
             ELSE /\ UNCHANGED calls \/ Unwind(r)
                  /\ UNCHANGED value
      BY <2>6 DEF Poll, InLoop, Fails
    <3>2. Top(r) \in Frame
      BY <1>0, <3>1, StackLength
    <3>3. /\ f \in Frame /\ f.woken = Top(r).woken
          /\ f.changed <=> Top(r).changed \/ value[r] # merged
      <4> HIDE DEF merged
      <4> QED
        BY <3>2 DEF Changed, Frame
    <3>4. value[r] \subseteq merged
      BY DEF Merged
    <3> HIDE DEF m, merged, f
    <3>5. CASE m.valid
      <4>1. value'[r] = merged /\ SetTop(r, f)
        BY <2>2, <3>1, <3>5
      <4>2. /\ Len(calls'[r]) = Len(calls[r])
            /\ \A k \in 1 .. Len(calls[r]) - 1 : calls'[r][k] = calls[r][k]
            /\ ~Idle(r)' /\ Top(r)' = f
        BY <1>0, <3>1, <3>3, <4>1, StackTopSet
      <4>3. f.changed => observed[r] # merged
        BY <2>1, <3>1, <3>3, <3>4 DEF HeldAt
      <4> QED
        BY <2>1, <3>1, <3>4, <4>1, <4>2, <4>3 DEF HeldAt
    <3>6. CASE ~m.valid /\ UNCHANGED calls
      BY <2>1, <3>1, <3>6 DEF HeldAt, Idle, Top
    <3>7. CASE ~m.valid /\ Unwind(r)
      <4>1. /\ Idle(r)' \/ (~Idle(r)' /\ Top(r)'.woken)
            /\ \A k \in 1 .. Len(calls'[r]) - 1 : calls'[r][k].woken
        BY <1>0, <2>1, <3>1, <3>7, LeftInWake
      <4>2. r \in live
        BY <2>1, <3>1 DEF HeldAt
      <4> QED
        BY <2>1, <3>1, <3>7, <4>1, <4>2 DEF HeldAt
    <3> QED
      BY <3>1, <3>5, <3>6, <3>7
  <2>7. CASE PollWelcome(r) \/ SendGarbage(r)
    BY <2>1, <2>7 DEF PollWelcome, SendGarbage, HeldAt, Idle, Top
  <2>8. CASE Wake(r)
    <3> DEFINE f == [Top(r) EXCEPT !.woken = TRUE]
    <3>1. ~Idle(r) /\ SetTop(r, f) /\ UNCHANGED <<live, value, own>>
      BY <2>8 DEF Wake
    <3>2. f \in Frame /\ f.woken
      <4>1. Top(r) \in Frame
        BY <1>0, <3>1, StackLength
      <4> QED
        BY <4>1 DEF Frame
    <3> HIDE DEF f
    <3>3. /\ Len(calls'[r]) = Len(calls[r])
          /\ \A k \in 1 .. Len(calls[r]) - 1 : calls'[r][k] = calls[r][k]
          /\ ~Idle(r)' /\ Top(r)' = f
      BY <1>0, <3>1, <3>2, StackTopSet
    <3>4. observed'[r] = value[r]
      BY <2>2, <2>8 DEF Wake
    <3> QED
      BY <2>1, <3>1, <3>2, <3>3, <3>4 DEF HeldAt
  <2>9. CASE \/ SyncReturn(r) \/ MergeReturn(r) \/ CallFails(r)
             \/ \E q \in Replica : PollFails(r, q)
    <3>1. ~Idle(r) /\ (Unwind(r) \/ Pop(r)) /\ UNCHANGED <<live, value, observed, own>>
      BY <2>9 DEF SyncReturn, MergeReturn, CallFails, PollFails, InLoop, Fails
    <3>2. /\ Idle(r)' \/ (~Idle(r)' /\ Top(r)'.woken)
          /\ \A k \in 1 .. Len(calls'[r]) - 1 : calls'[r][k].woken
      BY <1>0, <2>1, <3>1, LeftInWake
    <3> QED
      BY <2>1, <3>1, <3>2 DEF HeldAt
  <2> QED
    BY <1>1, <2>3, <2>4, <2>5, <2>6, <2>7, <2>8, <2>9 DEF Step
<1>2. ASSUME NEW r \in Replica, Step(r), NEW q \in Replica, q # r
      PROVE  HeldAt(q)'
  BY <1>0, <1>2, Elsewhere DEF SignalInv, HeldAt, Same, Idle, Top
<1>3. CASE UNCHANGED vars
  BY <1>0, <1>3 DEF SignalInv, HeldAt, vars, Idle, Top
<1>4. CASE Next
  <2>1. PICK r \in Replica : Step(r)
    BY <1>4 DEF Next, Step
  <2> QED
    BY <1>0, <1>1, <1>2, <2>1 DEF SignalInv
<1> QED
  BY <1>3, <1>4

\* HeldAt is invariant, for any program: see the theorems it is for, below.
THEOREM SignalInvariant == Spec => []SignalInv
<1>1. Init => SignalInv
  BY TypeInvInit DEF Init, SignalInv, HeldAt, Idle, Top
<1> QED
  BY <1>1, SignalInvStep, PTL DEF Spec

\* No call loses what its replica merged in, whatever peers send, calls nest or
\* fail half-way.
THEOREM OwnStateIsHeld == Spec => []OwnStateHeld
<1>1. SignalInv => OwnStateHeld
  BY DEF SignalInv, HeldAt, OwnStateHeld
<1> QED
  BY <1>1, SignalInvariant, PTL

\* sync reruns effects only for a value they have not seen.
THEOREM RerunsAreForChanges == Spec => []NoSpuriousRerun
<1>1. SignalInv => NoSpuriousRerun
  BY DEF SignalInv, HeldAt, NoSpuriousRerun
<1> QED
  BY <1>1, SignalInvariant, PTL

-----------------------------------------------------------------------------
\* The effects are behind the value only while a call that will wake them is on
\* top of the stack, or after a sync that failed before it could.
CurrentAt(r) ==
    \/ observed[r] = value[r]
    \/ r \in unseen
    \/ ~Idle(r) /\ ~Top(r).woken /\ Top(r).changed

CurrentInv == SignalInv /\ \A r \in Replica : CurrentAt(r)

\* A failure keeps the effects current, or is remembered.
LEMMA FailsKeepsCurrent ==
    ASSUME TypeInv, NEW r \in Replica, CurrentAt(r), Fails(r),
           UNCHANGED <<value, observed>>
    PROVE  CurrentAt(r)'
<1>1. observed[r] = value[r] \/ r \in unseen'
  BY DEF CurrentAt, Fails
<1> QED
  BY <1>1 DEF CurrentAt

LEMMA CurrentInvStep == CurrentInv /\ [Next]_vars => CurrentInv'
<1> SUFFICES ASSUME CurrentInv, [Next]_vars
             PROVE  CurrentInv'
  OBVIOUS
<1>0. SignalInv /\ SignalInv' /\ TypeInv /\ Stacks
  BY SignalInvStep DEF CurrentInv, SignalInv, TypeInv, Stacks
<1>1. ASSUME NEW r \in Replica, Step(r)
      PROVE  CurrentAt(r)'
  <2>1. CurrentAt(r)
    BY DEF CurrentInv
  <2>2. /\ value \in [Replica -> State] /\ observed \in [Replica -> State]
    BY <1>0 DEF TypeInv
  <2>3. CASE CreateSignal(r)
    BY <2>2, <2>3 DEF CreateSignal, CurrentAt
  <2>4. ASSUME NEW a \in Atom, MergeCall(r, a)
        PROVE  CurrentAt(r)'
    <3> DEFINE f == MergeFrame(Merged(value[r], {a}))
    <3>1. f \in Frame /\ f.changed /\ ~f.woken
      BY <2>2 DEF MergeFrame, Frame, Merged, State
    <3>2. Push(r, f)
      BY <2>4 DEF MergeCall
    <3> HIDE DEF f
    <3>3. ~Idle(r)' /\ Top(r)' = f
      BY <1>0, <3>1, <3>2, StackPushed
    <3> QED
      BY <3>1, <3>3 DEF CurrentAt
  <2>5. CASE SyncCall(r)
    <3>1. observed[r] = value[r] \/ r \in unseen
      BY <2>1, <2>5 DEF SyncCall, MayCall, CurrentAt
    <3> QED
      BY <2>5, <3>1 DEF SyncCall, CurrentAt
  <2>6. ASSUME NEW q \in Replica, Poll(r, q)
        PROVE  CurrentAt(r)'
    <3> DEFINE m == wire[q][polled[r][q] + 1]
               merged == Merged(value[r], m.state)
               f == Changed(Top(r), value[r], merged)
    <3>1. /\ ~Idle(r) /\ ~Top(r).woken /\ UNCHANGED observed
          /\ IF m.valid
             THEN value' = [value EXCEPT ![r] = merged] /\ SetTop(r, f) /\ UNCHANGED unseen
             ELSE /\ UNCHANGED <<calls, unseen>> \/ Fails(r)
                  /\ UNCHANGED value
      BY <2>6 DEF Poll, InLoop
    <3>2. Top(r) \in Frame
      BY <1>0, <3>1, StackLength
    <3>3. /\ f \in Frame /\ f.woken = Top(r).woken
          /\ f.changed <=> Top(r).changed \/ value[r] # merged
      <4> HIDE DEF merged
      <4> QED
        BY <3>2 DEF Changed, Frame
    <3> HIDE DEF m, merged, f
    <3>4. CASE m.valid
      <4>1. value'[r] = merged /\ SetTop(r, f) /\ UNCHANGED unseen
        BY <2>2, <3>1, <3>4
      <4>2. ~Idle(r)' /\ Top(r)' = f
        BY <1>0, <3>1, <3>3, <4>1, StackTopSet
      <4> QED
        BY <2>1, <3>1, <3>3, <4>1, <4>2 DEF CurrentAt
    <3>5. CASE ~m.valid /\ UNCHANGED <<calls, unseen>>
      BY <2>1, <3>1, <3>5 DEF CurrentAt, Idle, Top
    <3>6. CASE ~m.valid /\ Fails(r)
      BY <1>0, <2>1, <3>1, <3>6, FailsKeepsCurrent
    <3> QED
      BY <3>1, <3>4, <3>5, <3>6
  <2>7. CASE PollWelcome(r) \/ SendGarbage(r)
    BY <2>1, <2>7 DEF PollWelcome, SendGarbage, CurrentAt, Idle, Top
  <2>8. CASE Wake(r)
    BY <2>2, <2>8 DEF Wake, CurrentAt
  <2>9. CASE SyncReturn(r) \/ MergeReturn(r)
    <3>1. observed[r] = value[r] \/ r \in unseen
      BY <2>1, <2>9 DEF SyncReturn, MergeReturn, CurrentAt
    <3> QED
      BY <2>9, <3>1 DEF SyncReturn, MergeReturn, CurrentAt
  <2>10. CASE CallFails(r) \/ \E q \in Replica : PollFails(r, q)
    BY <1>0, <2>1, <2>10, FailsKeepsCurrent DEF CallFails, PollFails
  <2> QED
    BY <1>1, <2>3, <2>4, <2>5, <2>6, <2>7, <2>8, <2>9, <2>10 DEF Step
<1>2. ASSUME NEW r \in Replica, Step(r), NEW q \in Replica, q # r
      PROVE  CurrentAt(q)'
  BY <1>0, <1>2, Elsewhere DEF CurrentInv, CurrentAt, Same, Idle, Top
<1>3. CASE UNCHANGED vars
  BY <1>0, <1>3 DEF CurrentInv, CurrentAt, vars, Idle, Top
<1>4. CASE Next
  <2>1. PICK r \in Replica : Step(r)
    BY <1>4 DEF Next, Step
  <2> QED
    BY <1>0, <1>1, <1>2, <2>1 DEF CurrentInv
<1> QED
  BY <1>3, <1>4

\* Between calls the effects of every replica have seen its value, with calls
\* nested and failing in effects to any depth, but where a sync failed after it
\* had stored a change and no wake has come since.
THEOREM EffectsStayCurrent == Spec => []EffectsCurrent
<1>1. Init => CurrentInv
  BY TypeInvInit DEF Init, CurrentInv, CurrentAt, SignalInv, HeldAt, Idle, Top
<1>2. CurrentInv => EffectsCurrent
  BY DEF CurrentInv, CurrentAt, EffectsCurrent
<1> QED
  BY <1>1, <1>2, CurrentInvStep, PTL DEF Spec

-----------------------------------------------------------------------------
\* A merge on an encrypted signal that is not yet welcomed replaces what was
\* buffered, so an effect that merges must not run inside another merge there,
\* and no call may be lost half-way.
NothingLost == MaxFailures = 0 /\ (Encrypted => MaxDepth <= 1)

\* The atom is in what r has broadcast, or will when it is welcomed ...
InBroadcast(r, a) ==
    \/ \E k \in 1 .. Len(wire[r]) : a \in wire[r][k].state
    \/ \E s \in pending[r] : a \in s

\* ... or in the bytes of a merge that has not returned.
InCalls(r, a) ==
    \E k \in 1 .. Len(calls[r]) : calls[r][k].op = "merge" /\ a \in calls[r][k].bytes

BroadcastAt(r) ==
    /\ ~Encrypted => r \in welcomed
    /\ Encrypted => \A k \in 1 .. Len(calls[r]) :
                      calls[r][k].op = "merge" => own[r] \subseteq calls[r][k].bytes
    /\ r \in live => \A a \in own[r] : InBroadcast(r, a) \/ InCalls(r, a)

BroadcastInv == SignalInv /\ \A r \in Replica : BroadcastAt(r)

\* What is sent is broadcast; what was broadcast by a welcomed replica stays so.
LEMMA SentIsBroadcast ==
    ASSUME TypeInv, NEW r \in Replica, NEW s \in State, Send(r, s), NEW a
    PROVE  /\ a \in s => InBroadcast(r, a)'
           /\ r \in welcomed /\ InBroadcast(r, a) => InBroadcast(r, a)'
<1>1. Len(wire[r]) \in Nat
  BY DEF TypeInv
<1>2. CASE r \in welcomed
  <2> DEFINE m == [valid |-> TRUE, state |-> s]
  <2>1. Extends(r, m) /\ UNCHANGED pending /\ m.state = s
    BY <1>2, Sent
  <2> HIDE DEF m
  <2>2. Len(wire'[r]) \in Nat /\ Len(wire[r]) + 1 \in 1 .. Len(wire'[r])
        /\ \A k \in 1 .. Len(wire[r]) : k \in 1 .. Len(wire'[r])
    BY <1>1, <2>1 DEF Extends
  <2> QED
    BY <2>1, <2>2 DEF Extends, InBroadcast
<1>3. CASE r \notin welcomed
  <2>1. pending'[r] = {s}
    BY <1>3, Sent
  <2> QED
    BY <1>3, <2>1 DEF InBroadcast
<1> QED
  BY <1>2, <1>3

\* The welcome puts on the wire what was buffered.
LEMMA FlushedIsBroadcast ==
    ASSUME TypeInv, NEW r \in Replica, PollWelcome(r), NEW a, InBroadcast(r, a)
    PROVE  InBroadcast(r, a)'
<1>1. Len(wire[r]) \in Nat
  BY DEF TypeInv
<1>2. CASE pending[r] = {}
  BY <1>2, Flushed DEF InBroadcast
<1>3. CASE pending[r] # {}
  <2> DEFINE m == [valid |-> TRUE, state |-> UNION pending[r]]
  <2>1. Extends(r, m) /\ m.state = UNION pending[r]
    BY <1>3, Flushed
  <2> HIDE DEF m
  <2>2. Len(wire'[r]) \in Nat /\ Len(wire[r]) + 1 \in 1 .. Len(wire'[r])
        /\ \A k \in 1 .. Len(wire[r]) : k \in 1 .. Len(wire'[r])
    BY <1>1, <2>1 DEF Extends
  <2>3. (\E s \in pending[r] : a \in s) => a \in m.state
    BY <2>1
  <2> QED
    BY <2>1, <2>2, <2>3 DEF Extends, InBroadcast
<1> QED
  BY <1>2, <1>3

\* A stack that keeps its frames, and may have more, keeps what they will send.
LEMMA FramesKept ==
    ASSUME Stacks, NEW r \in Replica, calls' \in [Replica -> Seq(Frame)],
           Len(calls[r]) <= Len(calls'[r]),
           \A k \in 1 .. Len(calls[r]) :
               calls'[r][k].op = calls[r][k].op /\ calls'[r][k].bytes = calls[r][k].bytes,
           NEW a, InCalls(r, a)
    PROVE  InCalls(r, a)'
<1>1. Len(calls[r]) \in Nat /\ Len(calls'[r]) \in Nat
  BY DEF Stacks
<1>2. PICK k \in 1 .. Len(calls[r]) :
             calls[r][k].op = "merge" /\ a \in calls[r][k].bytes
  BY DEF InCalls
<1>3. k \in 1 .. Len(calls'[r])
  BY <1>1
<1> QED
  BY <1>2, <1>3 DEF InCalls

\* When the last call returns, only what it held is gone from the stack.
LEMMA FramesPopped ==
    ASSUME Stacks, NEW r \in Replica, ~Idle(r), Pop(r), NEW a, InCalls(r, a)
    PROVE  InCalls(r, a)' \/ (Top(r).op = "merge" /\ a \in Top(r).bytes)
<1> DEFINE n == Len(calls[r]) - 1
<1>1. Left(r, n)
  BY StackUnwound
<1>2. Len(calls[r]) \in Nat \ {0}
  BY StackLength
<1>3. PICK k \in 1 .. Len(calls[r]) :
             calls[r][k].op = "merge" /\ a \in calls[r][k].bytes
  BY DEF InCalls
<1>4. k \in 1 .. n \/ k = Len(calls[r])
  BY <1>2
<1> HIDE DEF n
<1> QED
  BY <1>1, <1>3, <1>4 DEF Left, InCalls, Top

LEMMA BroadcastInvStep == NothingLost /\ BroadcastInv /\ [Next]_vars => BroadcastInv'
<1> SUFFICES ASSUME NothingLost, BroadcastInv, [Next]_vars
             PROVE  BroadcastInv'
  OBVIOUS
<1>0. SignalInv /\ SignalInv' /\ TypeInv /\ Stacks
  BY SignalInvStep DEF BroadcastInv, SignalInv, TypeInv, Stacks
<1>1. ASSUME NEW r \in Replica, Step(r)
      PROVE  BroadcastAt(r)'
  <2> DEFINE Covered == \A k \in 1 .. Len(calls[r]) :
                 calls[r][k].op = "merge" => own[r] \subseteq calls[r][k].bytes
             Safe == \A a \in own[r] : InBroadcast(r, a) \/ InCalls(r, a)
  <2>1. /\ BroadcastAt(r) /\ HeldAt(r)
        /\ Encrypted => Covered
        /\ r \in live => Safe
    BY <1>0 DEF BroadcastInv, BroadcastAt, SignalInv
  <2>2. /\ value \in [Replica -> State] /\ own \in [Replica -> State]
        /\ Len(calls[r]) \in Nat /\ Len(wire[r]) \in Nat
    BY <1>0 DEF TypeInv
  <2>3. Encrypted => Len(calls[r]) \in {0, 1}
    <3> DEFINE n == Len(calls[r])
    <3>1. n \in Nat /\ (n <= MaxDepth \/ n = 1) /\ MaxDepth \in Nat
      BY <1>0, <2>2, SignalAssumption DEF TypeInv
    <3> HIDE DEF n
    <3>2. Encrypted => n \in {0, 1}
      BY <3>1 DEF NothingLost
    <3> QED
      BY <3>2 DEF n
  <2>4. r \in welcomed => r \in welcomed'
    BY <1>1 DEF Step, CreateSignal, MergeCall, SyncCall, Poll, PollWelcome, Wake,
                SyncReturn, MergeReturn, CallFails, PollFails, SendGarbage
  <2>5. SUFFICES /\ Encrypted => Covered'
                 /\ r \in live' => Safe'
    BY <2>1, <2>4 DEF BroadcastAt
  <2>6. ASSUME UNCHANGED <<wire, pending>>, NEW a
        PROVE  InBroadcast(r, a)' <=> InBroadcast(r, a)
    BY <2>6 DEF InBroadcast
  <2>7. CASE CreateSignal(r)
    <3>1. PICK initial \in {{}} \cup {{a} : a \in Atom} :
            own' = [own EXCEPT ![r] = initial] /\ Send(r, initial)
      BY <2>7 DEF CreateSignal
    <3>2. initial \in State /\ own'[r] = initial
      BY <2>2, <3>1 DEF State
    <3>3. Len(calls'[r]) = 0
      BY <1>0, <2>1, <2>7, StackLength DEF CreateSignal, HeldAt
    <3>4. Covered'
      BY <3>3
    <3> QED
      BY <1>0, <3>1, <3>2, <3>4, SentIsBroadcast
  <2>8. ASSUME NEW b \in Atom, MergeCall(r, b)
        PROVE  (Encrypted => Covered') /\ Safe'
    <3> DEFINE f == MergeFrame(Merged(value[r], {b}))
    <3>1. f \in Frame /\ f.op = "merge" /\ f.bytes = value[r] \cup {b}
      BY <2>2 DEF MergeFrame, Frame, Merged, State
    <3>2. /\ MayCall(r) /\ Push(r, f) /\ own'[r] = own[r] \cup {b}
          /\ UNCHANGED <<live, wire, pending>>
      BY <2>2, <2>8 DEF MergeCall
    <3> HIDE DEF f
    <3>3. /\ calls' \in [Replica -> Seq(Frame)] /\ Len(calls'[r]) = Len(calls[r]) + 1
          /\ \A k \in 1 .. Len(calls[r]) : calls'[r][k] = calls[r][k]
          /\ calls'[r][Len(calls[r]) + 1] = f
      <4>1. /\ calls' \in [Replica -> Seq(Frame)] /\ Len(calls'[r]) = Len(calls[r]) + 1
            /\ \A k \in 1 .. Len(calls[r]) : calls'[r][k] = calls[r][k]
            /\ Top(r)' = f
        BY <1>0, <3>1, <3>2, StackPushed
      <4> QED
        BY <4>1 DEF Top
    <3>4. Encrypted => Len(calls[r]) = 0
      BY <1>0, <2>2, <2>3, <3>2, StackLength, SignalAssumption DEF MayCall, NothingLost
    <3>5. own[r] \cup {b} \subseteq f.bytes
      BY <2>1, <3>1 DEF HeldAt
    <3>6. Encrypted => Covered'
      BY <3>2, <3>3, <3>4, <3>5
    <3>7. InCalls(r, b)'
      <4>1. Len(calls'[r]) \in 1 .. Len(calls'[r])
        BY <2>2, <3>3
      <4> QED
        BY <3>1, <3>3, <4>1 DEF InCalls
    <3>8. \A a : InCalls(r, a) => InCalls(r, a)'
      <4>1. Len(calls[r]) <= Len(calls'[r])
        BY <2>2, <3>3
      <4> QED
        BY <1>0, <3>3, <4>1, FramesKept
    <3>9. r \in live
      BY <3>2 DEF MayCall
    <3> QED
      BY <2>1, <2>6, <3>2, <3>6, <3>7, <3>8, <3>9
  <2>9. CASE SyncCall(r)
    <3>1. SyncFrame \in Frame /\ SyncFrame.op = "sync"
      BY DEF SyncFrame, Frame, State
    <3>2. MayCall(r) /\ Push(r, SyncFrame) /\ UNCHANGED <<live, own, wire, pending>>
      BY <2>9 DEF SyncCall
    <3>3. /\ calls' \in [Replica -> Seq(Frame)] /\ Len(calls'[r]) = Len(calls[r]) + 1
          /\ \A k \in 1 .. Len(calls[r]) : calls'[r][k] = calls[r][k]
          /\ calls'[r][Len(calls[r]) + 1].op = "sync"
      <4>1. /\ calls' \in [Replica -> Seq(Frame)] /\ Len(calls'[r]) = Len(calls[r]) + 1
            /\ \A k \in 1 .. Len(calls[r]) : calls'[r][k] = calls[r][k]
            /\ Top(r)' = SyncFrame
        BY <1>0, <3>1, <3>2, StackPushed
      <4> QED
        BY <3>1, <4>1 DEF Top
    <3>4. Encrypted => Covered'
      <4>1. \A k \in 1 .. Len(calls'[r]) : k \in 1 .. Len(calls[r]) \/ k = Len(calls[r]) + 1
        BY <2>2, <3>3
      <4>2. ASSUME Covered, NEW k \in 1 .. Len(calls'[r]), calls'[r][k].op = "merge"
            PROVE  own'[r] \subseteq calls'[r][k].bytes
        <5>1. k \in 1 .. Len(calls[r])
          BY <3>3, <4>1, <4>2
        <5> QED
          BY <3>2, <3>3, <4>2, <5>1
      <4> QED
        BY <2>1, <4>2
    <3>5. \A a : InCalls(r, a) => InCalls(r, a)'
      <4>1. Len(calls[r]) <= Len(calls'[r])
        BY <2>2, <3>3
      <4> QED
        BY <1>0, <3>3, <4>1, FramesKept
    <3>6. r \in live
      BY <3>2 DEF MayCall
    <3> QED
      BY <2>1, <2>6, <3>2, <3>4, <3>5, <3>6
  \* A change of the last frame that keeps its bytes.
  <2>10. ASSUME ~Idle(r), UNCHANGED <<live, own, wire, pending>>, NEW f \in Frame,
                f.op = Top(r).op, f.bytes = Top(r).bytes, SetTop(r, f)
         PROVE  (Encrypted => Covered') /\ (r \in live' => Safe')
    <3>1. /\ calls' \in [Replica -> Seq(Frame)] /\ Len(calls'[r]) = Len(calls[r])
          /\ \A k \in 1 .. Len(calls[r]) - 1 : calls'[r][k] = calls[r][k]
          /\ Top(r)' = f
      BY <1>0, <2>10, StackTopSet
    <3>2. \A k \in 1 .. Len(calls[r]) :
            calls'[r][k].op = calls[r][k].op /\ calls'[r][k].bytes = calls[r][k].bytes
      <4>1. \A k \in 1 .. Len(calls[r]) : k \in 1 .. Len(calls[r]) - 1 \/ k = Len(calls[r])
        BY <2>2
      <4> QED
        BY <2>10, <3>1, <4>1 DEF Top
    <3>3. Encrypted => Covered'
      BY <2>1, <2>10, <3>1, <3>2
    <3>4. \A a : InCalls(r, a) => InCalls(r, a)'
      <4>1. Len(calls[r]) <= Len(calls'[r])
        BY <2>2, <3>1
      <4> QED
        BY <1>0, <3>1, <3>2, <4>1, FramesKept
    <3> QED
      BY <2>1, <2>6, <2>10, <3>3, <3>4
  <2>11. ASSUME NEW q \in Replica, Poll(r, q)
         PROVE  (Encrypted => Covered') /\ (r \in live' => Safe')
    <3> DEFINE m == wire[q][polled[r][q] + 1]
               merged == Merged(value[r], m.state)
               f == Changed(Top(r), value[r], merged)
    <3>1. /\ ~Idle(r) /\ Top(r).op = "sync" /\ UNCHANGED <<live, own, wire, pending>>
          /\ SetTop(r, f) \/ UNCHANGED calls \/ (Encrypted /\ Unwind(r))
      BY <2>11 DEF Poll, InLoop, Fails
    <3>2. f \in Frame /\ f.op = Top(r).op /\ f.bytes = Top(r).bytes
      <4>1. Top(r) \in Frame
        BY <1>0, <3>1, StackLength
      <4> HIDE DEF merged
      <4> QED
        BY <4>1 DEF Changed, Frame
    <3> HIDE DEF m, merged, f
    <3>3. CASE SetTop(r, f)
      BY <2>10, <3>1, <3>2, <3>3
    <3>4. CASE UNCHANGED calls
      BY <2>1, <2>6, <3>1, <3>4 DEF InCalls
    <3>5. CASE Encrypted /\ Unwind(r)
      <4>1. Len(calls[r]) = 1
        BY <1>0, <2>3, <3>1, <3>5, StackLength
      <4>2. Len(calls'[r]) = 0
        <5>1. PICK n \in 0 .. Len(calls[r]) - 1 : Left(r, n)
          BY <1>0, <3>1, <3>5, StackUnwound
        <5> QED
          BY <4>1, <5>1 DEF Left
      <4>3. \A a : ~InCalls(r, a)
        BY <3>1, <4>1 DEF InCalls, Top
      <4> QED
        BY <2>1, <2>6, <3>1, <4>2, <4>3
    <3> QED
      BY <3>1, <3>3, <3>4, <3>5
  <2>12. CASE PollWelcome(r)
    BY <1>0, <2>1, <2>12, FlushedIsBroadcast DEF PollWelcome, InCalls
  <2>13. CASE Wake(r)
    <3> DEFINE f == [Top(r) EXCEPT !.woken = TRUE]
    <3>1. ~Idle(r) /\ SetTop(r, f) /\ UNCHANGED <<live, own, wire, pending>>
      BY <2>13 DEF Wake
    <3>2. f \in Frame /\ f.op = Top(r).op /\ f.bytes = Top(r).bytes
      <4>1. Top(r) \in Frame
        BY <1>0, <3>1, StackLength
      <4> QED
        BY <4>1 DEF Frame
    <3> HIDE DEF f
    <3> QED
      BY <2>10, <3>1, <3>2
  <2>14. CASE SyncReturn(r) \/ MergeReturn(r)
    <3>1. ~Idle(r) /\ Pop(r) /\ UNCHANGED <<live, own, welcomed>>
      BY <2>14 DEF SyncReturn, MergeReturn
    <3>2. Left(r, Len(calls[r]) - 1)
      BY <1>0, <3>1, StackUnwound
    <3>3. Encrypted => Covered'
      BY <2>1, <2>2, <3>1, <3>2 DEF Left
    <3>4. r \in live
      BY <2>1, <3>1 DEF HeldAt
    <3>5. ASSUME NEW a \in own[r], SyncReturn(r)
          PROVE  InBroadcast(r, a)' \/ InCalls(r, a)'
      BY <1>0, <2>1, <2>6, <3>1, <3>4, <3>5, FramesPopped DEF SyncReturn
    <3>6. ASSUME NEW a \in own[r], MergeReturn(r)
          PROVE  InBroadcast(r, a)' \/ InCalls(r, a)'
      <4>1. Top(r).bytes \in State /\ Send(r, Top(r).bytes)
        BY <1>0, <3>1, <3>6, StackLength DEF MergeReturn, Frame
      <4>2. CASE a \in Top(r).bytes
        BY <1>0, <4>1, <4>2, SentIsBroadcast
      <4>3. CASE a \notin Top(r).bytes
        <5>1. ~Encrypted
          BY <1>0, <2>1, <3>1, <3>6, <4>3, StackLength DEF MergeReturn, Top
        <5>2. InBroadcast(r, a) => InBroadcast(r, a)'
          BY <1>0, <2>1, <4>1, <5>1, SentIsBroadcast DEF BroadcastAt
        <5> QED
          BY <1>0, <2>1, <3>1, <3>4, <4>3, <5>2, FramesPopped
      <4> QED
        BY <4>2, <4>3
    <3> QED
      BY <2>14, <3>1, <3>3, <3>5, <3>6
  <2>15. ~CallFails(r) /\ ~\E q \in Replica : PollFails(r, q)
    BY <1>0, SignalAssumption DEF CallFails, PollFails, NothingLost, TypeInv
  <2>16. CASE SendGarbage(r)
    <3>1. Garbage \in Message
      BY DEF Garbage, Message, State
    <3>2. Extends(r, Garbage) /\ UNCHANGED <<live, own, calls, pending>>
      BY <1>0, <2>16, <3>1, WireAppended DEF SendGarbage
    <3>3. \A k \in 1 .. Len(wire[r]) : k \in 1 .. Len(wire'[r])
      BY <2>2, <3>2 DEF Extends
    <3>4. \A a : InBroadcast(r, a) => InBroadcast(r, a)'
      BY <3>2, <3>3 DEF InBroadcast, Extends
    <3> QED
      BY <2>1, <3>2, <3>4 DEF InCalls
  <2> QED
    BY <1>1, <2>7, <2>8, <2>9, <2>11, <2>12, <2>13, <2>14, <2>15, <2>16 DEF Step
<1>2. ASSUME NEW r \in Replica, Step(r), NEW q \in Replica, q # r
      PROVE  BroadcastAt(q)'
  <2>1. Same(q)
    BY <1>0, <1>2, Elsewhere
  <2>2. \A a : /\ InBroadcast(q, a)' <=> InBroadcast(q, a)
               /\ InCalls(q, a)' <=> InCalls(q, a)
    BY <2>1 DEF Same, InBroadcast, InCalls
  <2> QED
    BY <2>1, <2>2 DEF BroadcastInv, BroadcastAt, Same
<1>3. CASE UNCHANGED vars
  BY <1>0, <1>3 DEF BroadcastInv, BroadcastAt, InBroadcast, InCalls, vars
<1>4. CASE Next
  <2>1. PICK r \in Replica : Step(r)
    BY <1>4 DEF Next, Step
  <2> QED
    BY <1>0, <1>1, <1>2, <2>1 DEF BroadcastInv
<1> QED
  BY <1>3, <1>4

\* Between calls all that a replica merged in has been broadcast, or is in the
\* one state buffered until its welcome: on a plaintext signal for calls nested
\* to any depth, on an encrypted one when effects do not merge into it.
THEOREM MergesAreBroadcast ==
    ASSUME NothingLost
    PROVE  Spec => []OwnStateBroadcast
<1>1. Init => BroadcastInv
  <2>1. Init => SignalInv
    BY TypeInvInit DEF Init, SignalInv, HeldAt, Idle, Top
  <2>2. ASSUME Init, NEW r \in Replica
        PROVE  BroadcastAt(r)
    <3>1. Len(calls[r]) = 0 /\ live = {}
      BY <2>2 DEF Init
    <3> QED
      BY <2>2, <3>1 DEF Init, BroadcastAt
  <2> QED
    BY <2>1, <2>2 DEF BroadcastInv
<1>2. ASSUME BroadcastInv
      PROVE  OwnStateBroadcast
  <2>1. ASSUME NEW r \in live, Idle(r), NEW a \in own[r]
        PROVE  a \in Broadcast(r)
    <3>1. r \in Replica /\ Len(calls[r]) = 0
      BY <1>2, <2>1 DEF BroadcastInv, SignalInv, TypeInv, Idle
    <3>2. InBroadcast(r, a)
      BY <1>2, <2>1, <3>1 DEF BroadcastInv, BroadcastAt, InCalls
    <3> QED
      BY <3>2 DEF InBroadcast, Broadcast
  <2> QED
    BY <2>1 DEF OwnStateBroadcast
<1>3. BroadcastInv /\ [Next]_vars => BroadcastInv'
  BY BroadcastInvStep
<1> QED
  BY <1>1, <1>2, <1>3, PTL DEF Spec
=============================================================================
