--------------------------- MODULE LdapPoolProofs ---------------------------
(***************************************************************************)
(* Proofs about LdapPool, for every pool size and every set of borrowers   *)
(* and connections, finite or not.                                         *)
(***************************************************************************)
EXTENDS LdapPool, FiniteSetTheorems, TLAPS

-----------------------------------------------------------------------------
(* Queue facts: what taking and handing back a slot does to the channel. *)

LEMMA TailFacts ==
    ASSUME NEW S, NEW q \in Seq(S), q # <<>>
    PROVE  /\ Len(q) \in Nat \ {0}
           /\ Head(q) = q[1] /\ Head(q) \in S
           /\ Tail(q) \in Seq(S)
           /\ Len(Tail(q)) = Len(q) - 1
           /\ \A s \in 1..(Len(q) - 1) : Tail(q)[s] = q[s + 1]
OBVIOUS

(* Handing a slot back adds it at the end and moves no other. *)
LEMMA AppendFacts ==
    ASSUME NEW S, NEW q \in Seq(S), NEW x \in S
    PROVE  /\ Len(q) \in Nat
           /\ Append(q, x) \in Seq(S)
           /\ Len(Append(q, x)) = Len(q) + 1
           /\ \A s \in 1..Len(q) : Append(q, x)[s] = q[s]
           /\ Append(q, x)[Len(q) + 1] = x
OBVIOUS

(* Checking a slot out and handing it back move the number of holders by one. *)
LEMMA HolderJoins ==
    ASSUME PoolTypeOK, SlotsConserved, NEW b \in Borrowers, at[b] \notin HoldsSlot,
           NEW l \in HoldsSlot, Goto(b, l)
    PROVE  IsFiniteSet(Holders)' /\ Cardinality(Holders') = Cardinality(Holders) + 1
<1>1. Holders' = Holders \cup {b} BY DEF Holders, Goto, PoolTypeOK
<1>2. b \notin Holders BY DEF Holders
<1>. QED BY <1>1, <1>2, FS_AddElement DEF SlotsConserved

(* Handing the slot back takes its borrower out of the holders. *)
LEMMA HolderLeaves ==
    ASSUME PoolTypeOK, SlotsConserved, NEW b \in Borrowers, at[b] \in HoldsSlot,
           NEW l, l \notin HoldsSlot, Goto(b, l)
    PROVE  IsFiniteSet(Holders)' /\ Cardinality(Holders') = Cardinality(Holders) - 1
<1>1. Holders' = Holders \ {b} BY DEF Holders, Goto, PoolTypeOK
<1>2. b \in Holders BY DEF Holders
<1>. QED BY <1>1, <1>2, FS_RemoveElement DEF SlotsConserved

(* A borrower that moves among the places that hold a slot, or among those
   that do not, changes no count. *)
LEMMA HolderStays ==
    ASSUME PoolTypeOK, SlotsConserved, NEW b \in Borrowers, NEW l,
           at[b] \in HoldsSlot <=> l \in HoldsSlot, Goto(b, l)
    PROVE  Holders' = Holders
BY DEF Holders, Goto, PoolTypeOK

(* The count of holders is a natural number, so the channel has room whenever
   somebody holds a slot. *)
LEMMA RoomToPut == PoolTypeOK /\ SlotsConserved => PutNeverBlocks
<1>. SUFFICES ASSUME PoolTypeOK, SlotsConserved,
                     NEW b \in Borrowers, at[b] \in {"refund", "put"}
              PROVE  Len(slots) < Size
  BY DEF PutNeverBlocks
<1>1. b \in Holders BY DEF Holders, HoldsSlot
<1>2. Cardinality(Holders) \in Nat /\ Cardinality(Holders) # 0
  BY <1>1, FS_CardinalityType, FS_EmptySet DEF SlotsConserved
<1>. QED BY <1>2, SizeAssumption DEF SlotsConserved, PoolTypeOK

-----------------------------------------------------------------------------
(* The inductive invariant. *)

LEMMA PoolInitInductive == PoolInit => PoolIndInv
<1>. SUFFICES ASSUME PoolInit PROVE PoolIndInv OBVIOUS
<1>1. /\ slots \in Seq(Conns \cup {Nil})
      /\ Len(slots) = Size
      /\ \A s \in 1..Len(slots) : slots[s] = Nil
  BY SizeAssumption DEF PoolInit
<1>2. PoolTypeOK BY <1>1, SizeAssumption DEF PoolInit, PoolTypeOK, Locations, Verdicts
<1>3. Holders = {} BY DEF PoolInit, Holders, HoldsSlot
<1>4. SlotsConserved BY <1>1, <1>3, FS_EmptySet, SizeAssumption DEF SlotsConserved
<1>5. OwnershipInv BY <1>1 DEF PoolInit, OwnershipInv, HoldsConn
<1>6. ExclusiveConn BY <1>1 DEF PoolInit, ExclusiveConn
<1>7. NoConnLeaked BY DEF PoolInit, NoConnLeaked
<1>. QED BY <1>2, <1>4, <1>5, <1>6, <1>7 DEF PoolIndInv

(* The connection moves from the first slot to the borrower. *)
LEMMA TakeUsableInductive ==
    ASSUME PoolIndInv, NEW b \in Borrowers, TakeUsable(b)
    PROVE  PoolIndInv'
<1>. USE DEF PoolIndInv, Locations, HoldsSlot, HoldsConn, Goto, TakeUsable, Usable
<1>0. /\ Len(slots) \in Nat \ {0}
      /\ Head(slots) = slots[1] /\ Head(slots) \in Conns \cup {Nil}
      /\ slots' = Tail(slots)
      /\ slots' \in Seq(Conns \cup {Nil})
      /\ Len(slots') = Len(slots) - 1
      /\ \A s \in 1..(Len(slots) - 1) : slots'[s] = slots[s + 1]
  BY TailFacts DEF PoolTypeOK
<1>1. PoolTypeOK' BY <1>0, SizeAssumption DEF PoolTypeOK
<1>2. SlotsConserved'
  <2>1. IsFiniteSet(Holders)' /\ Cardinality(Holders') = Cardinality(Holders) + 1
    BY HolderJoins DEF PoolTypeOK
  <2>2. Cardinality(Holders) \in Nat BY FS_CardinalityType DEF SlotsConserved
  <2>. QED BY <1>0, <2>1, <2>2, SizeAssumption DEF SlotsConserved
<1>3. OwnershipInv' BY <1>0, PoolNilAssumption DEF PoolTypeOK, OwnershipInv, ExclusiveConn, InSlot
<1>4. ExclusiveConn' BY <1>0, PoolNilAssumption DEF PoolTypeOK, OwnershipInv, ExclusiveConn, InSlot
<1>5. NoConnLeaked'
  <2>1. ASSUME NEW k \in Conns, InSlot(k), k # Head(slots) PROVE InSlot(k)'
    <3>1. PICK s \in 1..Len(slots) : slots[s] = k BY <2>1 DEF InSlot
    <3>2. s - 1 \in 1..(Len(slots) - 1) /\ slots'[s - 1] = k BY <1>0, <2>1, <3>1
    <3>. QED BY <1>0, <3>2 DEF InSlot
  <2>2. ASSUME NEW k \in Conns, status'[k] # "none"
        PROVE  InSlot(k)' \/ \E c \in Borrowers : conn'[c] = k
    <3>1. InSlot(k) \/ \E c \in Borrowers : conn[c] = k
      BY <2>2 DEF PoolTypeOK, NoConnLeaked
    <3>2. CASE InSlot(k) /\ k # Head(slots) BY <2>1, <3>2
    <3>3. CASE k = Head(slots)
      BY <2>2, <3>3, PoolNilAssumption DEF PoolTypeOK, OwnershipInv
    <3>4. CASE \E c \in Borrowers : conn[c] = k
      BY <3>4, PoolNilAssumption DEF PoolTypeOK, OwnershipInv
    <3>. QED BY <3>1, <3>2, <3>3, <3>4
  <2>. QED BY <2>2 DEF NoConnLeaked
<1>. QED BY <1>1, <1>2, <1>3, <1>4, <1>5

(* A closing connection is closed as its slot is taken, so it is not
   forgotten. *)
LEMMA TakeSlotInductive ==
    ASSUME PoolIndInv, NEW b \in Borrowers, TakeSlot(b)
    PROVE  PoolIndInv'
<1>. USE DEF PoolIndInv, Locations, HoldsSlot, HoldsConn, Goto, TakeSlot, Usable, Close
<1>0. /\ Len(slots) \in Nat \ {0}
      /\ Head(slots) = slots[1] /\ Head(slots) \in Conns \cup {Nil}
      /\ slots' = Tail(slots)
      /\ slots' \in Seq(Conns \cup {Nil})
      /\ Len(slots') = Len(slots) - 1
      /\ \A s \in 1..(Len(slots) - 1) : slots'[s] = slots[s + 1]
  BY TailFacts DEF PoolTypeOK
<1>1. PoolTypeOK' BY <1>0, SizeAssumption DEF PoolTypeOK
<1>2. SlotsConserved'
  <2>1. IsFiniteSet(Holders)' /\ Cardinality(Holders') = Cardinality(Holders) + 1
    BY HolderJoins DEF PoolTypeOK
  <2>2. Cardinality(Holders) \in Nat BY FS_CardinalityType DEF SlotsConserved
  <2>. QED BY <1>0, <2>1, <2>2, SizeAssumption DEF SlotsConserved
<1>3. OwnershipInv' BY <1>0, PoolNilAssumption DEF PoolTypeOK, OwnershipInv, ExclusiveConn, InSlot
<1>4. ExclusiveConn' BY <1>0, PoolNilAssumption DEF PoolTypeOK, OwnershipInv, ExclusiveConn, InSlot
<1>5. NoConnLeaked'
  <2>1. ASSUME NEW k \in Conns, InSlot(k), k # Head(slots) PROVE InSlot(k)'
    <3>1. PICK s \in 1..Len(slots) : slots[s] = k BY <2>1 DEF InSlot
    <3>2. s - 1 \in 1..(Len(slots) - 1) /\ slots'[s - 1] = k BY <1>0, <2>1, <3>1
    <3>. QED BY <1>0, <3>2 DEF InSlot
  <2>2. ASSUME NEW k \in Conns, status'[k] # "none"
        PROVE  InSlot(k)' \/ \E c \in Borrowers : conn'[c] = k
    <3>1. InSlot(k) \/ \E c \in Borrowers : conn[c] = k
      BY <2>2 DEF PoolTypeOK, NoConnLeaked
    <3>2. CASE InSlot(k) /\ k # Head(slots) BY <2>1, <3>2
    <3>3. CASE k = Head(slots)
      BY <2>2, <3>3, PoolNilAssumption DEF PoolTypeOK, OwnershipInv
    <3>4. CASE \E c \in Borrowers : conn[c] = k
      BY <3>4, PoolNilAssumption DEF PoolTypeOK, OwnershipInv
    <3>. QED BY <3>1, <3>2, <3>3, <3>4
  <2>. QED BY <2>2 DEF NoConnLeaked
<1>. QED BY <1>1, <1>2, <1>3, <1>4, <1>5

(* Giving up touches no slot and no connection. *)
LEMMA GiveUpInductive ==
    ASSUME PoolIndInv, NEW b \in Borrowers, GiveUp(b)
    PROVE  PoolIndInv'
<1>. USE DEF PoolIndInv, Locations, HoldsSlot, HoldsConn, Goto, GiveUp
<1>1. PoolTypeOK' BY SizeAssumption DEF PoolTypeOK
<1>2. SlotsConserved'
  <2>1. Holders' = Holders BY DEF Holders, PoolTypeOK
  <2>. QED BY <2>1 DEF SlotsConserved
<1>3. OwnershipInv' BY PoolNilAssumption DEF PoolTypeOK, OwnershipInv, ExclusiveConn, InSlot
<1>4. ExclusiveConn' BY PoolNilAssumption DEF PoolTypeOK, OwnershipInv, ExclusiveConn, InSlot
<1>5. NoConnLeaked' BY PoolNilAssumption DEF PoolTypeOK, OwnershipInv, ExclusiveConn, NoConnLeaked, InSlot
<1>. QED BY <1>1, <1>2, <1>3, <1>4, <1>5

(* The new connection was in no slot and with no borrower. *)
LEMMA DialConnectsInductive ==
    ASSUME PoolIndInv, NEW b \in Borrowers, NEW k \in Conns, DialConnects(b, k)
    PROVE  PoolIndInv'
<1>. USE DEF PoolIndInv, Locations, HoldsSlot, HoldsConn, Goto, DialConnects
<1>1. PoolTypeOK' BY SizeAssumption DEF PoolTypeOK
<1>2. SlotsConserved'
  <2>1. Holders' = Holders BY DEF Holders, PoolTypeOK
  <2>. QED BY <2>1 DEF SlotsConserved
<1>3. OwnershipInv' BY PoolNilAssumption DEF PoolTypeOK, OwnershipInv, ExclusiveConn, InSlot
<1>4. ExclusiveConn' BY PoolNilAssumption DEF PoolTypeOK, OwnershipInv, ExclusiveConn, InSlot
<1>5. NoConnLeaked' BY PoolNilAssumption DEF PoolTypeOK, OwnershipInv, ExclusiveConn, NoConnLeaked, InSlot
<1>. QED BY <1>1, <1>2, <1>3, <1>4, <1>5

(* The borrower keeps its slot until it hands it back. *)
LEMMA DialFailsInductive ==
    ASSUME PoolIndInv, NEW b \in Borrowers, DialFails(b)
    PROVE  PoolIndInv'
<1>. USE DEF PoolIndInv, Locations, HoldsSlot, HoldsConn, Goto, DialFails
<1>1. PoolTypeOK' BY SizeAssumption DEF PoolTypeOK
<1>2. SlotsConserved'
  <2>1. Holders' = Holders BY DEF Holders, PoolTypeOK
  <2>. QED BY <2>1 DEF SlotsConserved
<1>3. OwnershipInv' BY PoolNilAssumption DEF PoolTypeOK, OwnershipInv, ExclusiveConn, InSlot
<1>4. ExclusiveConn' BY PoolNilAssumption DEF PoolTypeOK, OwnershipInv, ExclusiveConn, InSlot
<1>5. NoConnLeaked' BY PoolNilAssumption DEF PoolTypeOK, OwnershipInv, ExclusiveConn, NoConnLeaked, InSlot
<1>. QED BY <1>1, <1>2, <1>3, <1>4, <1>5

(* The borrower keeps its slot and its connection. *)
LEMMA BindAcceptedInductive ==
    ASSUME PoolIndInv, NEW b \in Borrowers, BindAccepted(b)
    PROVE  PoolIndInv'
<1>. USE DEF PoolIndInv, Locations, HoldsSlot, HoldsConn, Goto, BindAccepted
<1>1. PoolTypeOK' BY SizeAssumption DEF PoolTypeOK
<1>2. SlotsConserved'
  <2>1. Holders' = Holders BY DEF Holders, PoolTypeOK
  <2>. QED BY <2>1 DEF SlotsConserved
<1>3. OwnershipInv' BY PoolNilAssumption DEF PoolTypeOK, OwnershipInv, ExclusiveConn, InSlot
<1>4. ExclusiveConn' BY PoolNilAssumption DEF PoolTypeOK, OwnershipInv, ExclusiveConn, InSlot
<1>5. NoConnLeaked' BY PoolNilAssumption DEF PoolTypeOK, OwnershipInv, ExclusiveConn, NoConnLeaked, InSlot
<1>. QED BY <1>1, <1>2, <1>3, <1>4, <1>5

(* The connection is closed as the borrower lets go of it. *)
LEMMA BindFailsInductive ==
    ASSUME PoolIndInv, NEW b \in Borrowers, BindFails(b)
    PROVE  PoolIndInv'
<1>. USE DEF PoolIndInv, Locations, HoldsSlot, HoldsConn, Goto, BindFails, Close
<1>1. PoolTypeOK' BY SizeAssumption DEF PoolTypeOK
<1>2. SlotsConserved'
  <2>1. Holders' = Holders BY DEF Holders, PoolTypeOK
  <2>. QED BY <2>1 DEF SlotsConserved
<1>3. OwnershipInv' BY PoolNilAssumption DEF PoolTypeOK, OwnershipInv, ExclusiveConn, InSlot
<1>4. ExclusiveConn' BY PoolNilAssumption DEF PoolTypeOK, OwnershipInv, ExclusiveConn, InSlot
<1>5. NoConnLeaked' BY PoolNilAssumption DEF PoolTypeOK, OwnershipInv, ExclusiveConn, NoConnLeaked, InSlot
<1>. QED BY <1>1, <1>2, <1>3, <1>4, <1>5

(* There is room for the empty slot, and an empty slot shares no connection. *)
LEMMA RefundInductive ==
    ASSUME PoolIndInv, NEW b \in Borrowers, Refund(b)
    PROVE  PoolIndInv'
<1>. USE DEF PoolIndInv, Locations, HoldsSlot, HoldsConn, Goto, Refund
<1>0. /\ Len(slots) \in Nat
      /\ slots' \in Seq(Conns \cup {Nil})
      /\ Len(slots') = Len(slots) + 1
      /\ \A s \in 1..Len(slots) : slots'[s] = slots[s]
      /\ slots'[Len(slots) + 1] = Nil
  BY AppendFacts DEF PoolTypeOK
<1>1. PoolTypeOK' BY <1>0, SizeAssumption DEF PoolTypeOK
<1>2. SlotsConserved'
  <2>1. IsFiniteSet(Holders)' /\ Cardinality(Holders') = Cardinality(Holders) - 1
    BY HolderLeaves DEF PoolTypeOK
  <2>2. Cardinality(Holders) \in Nat BY FS_CardinalityType DEF SlotsConserved
  <2>. QED BY <1>0, <2>1, <2>2, SizeAssumption DEF SlotsConserved
<1>3. OwnershipInv' BY <1>0, PoolNilAssumption DEF PoolTypeOK, OwnershipInv, ExclusiveConn, InSlot
<1>4. ExclusiveConn' BY <1>0, PoolNilAssumption DEF PoolTypeOK, OwnershipInv, ExclusiveConn, InSlot
<1>5. NoConnLeaked' BY <1>0, PoolNilAssumption DEF PoolTypeOK, OwnershipInv, ExclusiveConn, NoConnLeaked, InSlot
<1>. QED BY <1>1, <1>2, <1>3, <1>4, <1>5

(* The verdict of a search moves no slot and no connection. *)
LEMMA SearchEndsInductive ==
    ASSUME PoolIndInv, NEW b \in Borrowers, NEW how \in Verdicts, SearchEnds(b, how)
    PROVE  PoolIndInv'
<1>. USE DEF PoolIndInv, Locations, HoldsSlot, HoldsConn, Goto, SearchEnds
<1>1. PoolTypeOK' BY SizeAssumption DEF PoolTypeOK
<1>2. SlotsConserved'
  <2>1. Holders' = Holders BY DEF Holders, PoolTypeOK
  <2>. QED BY <2>1 DEF SlotsConserved
<1>3. OwnershipInv' BY PoolNilAssumption DEF PoolTypeOK, OwnershipInv, ExclusiveConn, InSlot
<1>4. ExclusiveConn' BY PoolNilAssumption DEF PoolTypeOK, OwnershipInv, ExclusiveConn, InSlot
<1>5. NoConnLeaked' BY PoolNilAssumption DEF PoolTypeOK, OwnershipInv, ExclusiveConn, NoConnLeaked, InSlot
<1>. QED BY <1>1, <1>2, <1>3, <1>4, <1>5

(* The connection moves from the borrower to the last slot, or is closed. *)
LEMMA PutInductive ==
    ASSUME PoolIndInv, NEW b \in Borrowers, Put(b)
    PROVE  PoolIndInv'
<1>. DEFINE k == conn[b]
<1>1. k \in Conns /\ k # Nil /\ status[k] # "none" /\ ~InSlot(k)
  BY PoolNilAssumption
  DEF PoolIndInv, PoolTypeOK, OwnershipInv, ExclusiveConn, Put, HoldsConn
<1>2. PICK x \in Conns \cup {Nil} :
         /\ slots' = Append(slots, x)
         /\ \/ x = k /\ status' = status
            \/ x = Nil /\ status' = [status EXCEPT ![k] = "none"]
  BY <1>1 DEF Put, Close
<1>3. /\ Len(slots) \in Nat
      /\ slots' \in Seq(Conns \cup {Nil})
      /\ Len(slots') = Len(slots) + 1
      /\ \A s \in 1..Len(slots) : slots'[s] = slots[s]
      /\ slots'[Len(slots) + 1] = x
  BY <1>2, AppendFacts DEF PoolIndInv, PoolTypeOK
<1>4. /\ conn' = [conn EXCEPT ![b] = Nil]
      /\ at' = [at EXCEPT ![b] = "returned"]
      /\ Len(slots) < Size
      /\ UNCHANGED <<verdict, expired>>
  BY DEF Put, Goto
<1>5. PoolTypeOK'
  BY <1>2, <1>3, <1>4, SizeAssumption DEF PoolIndInv, PoolTypeOK, Locations
<1>6. SlotsConserved'
  <2>1. IsFiniteSet(Holders)' /\ Cardinality(Holders') = Cardinality(Holders) - 1
    BY HolderLeaves DEF PoolIndInv, Put, HoldsSlot
  <2>2. Cardinality(Holders) \in Nat
    BY FS_CardinalityType DEF PoolIndInv, SlotsConserved
  <2>. QED
    BY <1>3, <2>1, <2>2, SizeAssumption DEF PoolIndInv, SlotsConserved
<1>7. OwnershipInv'
  <2>1. \A c \in Borrowers : at'[c] \in HoldsConn <=> conn'[c] # Nil
    BY <1>4 DEF PoolIndInv, PoolTypeOK, OwnershipInv, HoldsConn
  <2>2. \A c \in Borrowers : conn'[c] # Nil => status'[conn'[c]] # "none"
    BY <1>1, <1>2, <1>4 DEF PoolIndInv, PoolTypeOK, OwnershipInv, ExclusiveConn
  <2>3. \A s \in 1..Len(slots') : slots'[s] # Nil => status'[slots'[s]] # "none"
    BY <1>1, <1>2, <1>3 DEF PoolIndInv, PoolTypeOK, OwnershipInv, InSlot
  <2>. QED BY <2>1, <2>2, <2>3 DEF OwnershipInv
<1>8. ExclusiveConn'
  <2>1. \A s, t \in 1..Len(slots') : slots'[s] = slots'[t] /\ slots'[s] # Nil => s = t
    BY <1>1, <1>2, <1>3 DEF PoolIndInv, ExclusiveConn, InSlot
  <2>2. \A c, d \in Borrowers : conn'[c] = conn'[d] /\ conn'[c] # Nil => c = d
    BY <1>4 DEF PoolIndInv, PoolTypeOK, ExclusiveConn
  <2>3. ASSUME NEW c \in Borrowers, conn'[c] # Nil, NEW s \in 1..Len(slots')
        PROVE  slots'[s] # conn'[c]
    <3>1. conn'[c] = conn[c] /\ conn[c] # k
      BY <1>1, <1>4, <2>3 DEF PoolIndInv, PoolTypeOK, ExclusiveConn
    <3>2. CASE s \in 1..Len(slots)
      BY <1>3, <2>3, <3>1, <3>2 DEF PoolIndInv, ExclusiveConn, InSlot
    <3>3. CASE s = Len(slots) + 1 BY <1>2, <1>3, <2>3, <3>1, <3>3
    <3>. QED BY <1>3, <3>2, <3>3
  <2>. QED BY <2>1, <2>2, <2>3 DEF ExclusiveConn, InSlot
<1>9. NoConnLeaked'
  <2>1. ASSUME NEW j \in Conns, status'[j] # "none"
        PROVE  InSlot(j)' \/ \E c \in Borrowers : conn'[c] = j
    <3>1. CASE j = k
      <4>1. x = k BY <1>1, <1>2, <2>1, <3>1 DEF PoolIndInv, PoolTypeOK
      <4>. QED BY <1>3, <3>1, <4>1 DEF InSlot
    <3>2. CASE j # k
      <4>1. status[j] # "none"
        BY <1>1, <1>2, <2>1, <3>2 DEF PoolIndInv, PoolTypeOK
      <4>2. CASE InSlot(j) BY <1>3, <4>2 DEF InSlot
      <4>3. CASE \E c \in Borrowers : conn[c] = j
        BY <1>4, <3>2, <4>3 DEF PoolIndInv, PoolTypeOK
      <4>. QED BY <4>1, <4>2, <4>3 DEF PoolIndInv, NoConnLeaked
    <3>. QED BY <3>1, <3>2
  <2>. QED BY <2>1 DEF NoConnLeaked
<1>. QED BY <1>5, <1>6, <1>7, <1>8, <1>9 DEF PoolIndInv

(* Asking takes no slot. *)
LEMMA AskInductive ==
    ASSUME PoolIndInv, NEW b \in Borrowers, Ask(b)
    PROVE  PoolIndInv'
<1>. USE DEF PoolIndInv, Locations, HoldsSlot, HoldsConn, Goto, Ask
<1>1. PoolTypeOK' BY SizeAssumption DEF PoolTypeOK
<1>2. SlotsConserved'
  <2>1. Holders' = Holders BY DEF Holders, PoolTypeOK
  <2>. QED BY <2>1 DEF SlotsConserved
<1>3. OwnershipInv' BY PoolNilAssumption DEF PoolTypeOK, OwnershipInv, ExclusiveConn, InSlot
<1>4. ExclusiveConn' BY PoolNilAssumption DEF PoolTypeOK, OwnershipInv, ExclusiveConn, InSlot
<1>5. NoConnLeaked' BY PoolNilAssumption DEF PoolTypeOK, OwnershipInv, ExclusiveConn, NoConnLeaked, InSlot
<1>. QED BY <1>1, <1>2, <1>3, <1>4, <1>5

(* A borrower that is done holds no slot. *)
LEMMA LeaveInductive ==
    ASSUME PoolIndInv, NEW b \in Borrowers, Leave(b)
    PROVE  PoolIndInv'
<1>. USE DEF PoolIndInv, Locations, HoldsSlot, HoldsConn, Goto, Leave, Verdicts
<1>1. PoolTypeOK' BY SizeAssumption DEF PoolTypeOK
<1>2. SlotsConserved'
  <2>1. Holders' = Holders BY DEF Holders, PoolTypeOK
  <2>. QED BY <2>1 DEF SlotsConserved
<1>3. OwnershipInv' BY PoolNilAssumption DEF PoolTypeOK, OwnershipInv, ExclusiveConn, InSlot
<1>4. ExclusiveConn' BY PoolNilAssumption DEF PoolTypeOK, OwnershipInv, ExclusiveConn, InSlot
<1>5. NoConnLeaked' BY PoolNilAssumption DEF PoolTypeOK, OwnershipInv, ExclusiveConn, NoConnLeaked, InSlot
<1>. QED BY <1>1, <1>2, <1>3, <1>4, <1>5

(* A deadline that passes moves nothing. *)
LEMMA ExpireInductive ==
    ASSUME PoolIndInv, NEW b \in Borrowers, Expire(b)
    PROVE  PoolIndInv'
<1>. USE DEF PoolIndInv, Locations, HoldsSlot, HoldsConn, Goto, Expire
<1>1. PoolTypeOK' BY SizeAssumption DEF PoolTypeOK
<1>2. SlotsConserved'
  <2>1. Holders' = Holders BY DEF Holders, PoolTypeOK
  <2>. QED BY <2>1 DEF SlotsConserved
<1>3. OwnershipInv' BY PoolNilAssumption DEF PoolTypeOK, OwnershipInv, ExclusiveConn, InSlot
<1>4. ExclusiveConn' BY PoolNilAssumption DEF PoolTypeOK, OwnershipInv, ExclusiveConn, InSlot
<1>5. NoConnLeaked' BY PoolNilAssumption DEF PoolTypeOK, OwnershipInv, ExclusiveConn, NoConnLeaked, InSlot
<1>. QED BY <1>1, <1>2, <1>3, <1>4, <1>5

(* A dropped connection stays where it is. *)
LEMMA ConnDropsInductive ==
    ASSUME PoolIndInv, NEW k \in Conns, ConnDrops(k)
    PROVE  PoolIndInv'
<1>. USE DEF PoolIndInv, ConnDrops
<1>1. PoolTypeOK' BY DEF PoolTypeOK
<1>2. SlotsConserved' BY DEF SlotsConserved, Holders
<1>3. OwnershipInv' BY DEF OwnershipInv, PoolTypeOK
<1>4. ExclusiveConn' BY DEF ExclusiveConn, InSlot
<1>5. NoConnLeaked' BY DEF NoConnLeaked, InSlot, PoolTypeOK
<1>. QED BY <1>1, <1>2, <1>3, <1>4, <1>5

(* Every step of the pool preserves the invariant. *)
LEMMA PoolNextInductive == PoolIndInv /\ [PoolNext]_poolVars => PoolIndInv'
<1>. SUFFICES ASSUME PoolIndInv, [PoolNext]_poolVars PROVE PoolIndInv' OBVIOUS
<1>1. ASSUME NEW b \in Borrowers, Ask(b) \/ Expire(b) \/ Leave(b) PROVE PoolIndInv'
  BY <1>1, AskInductive, ExpireInductive, LeaveInductive
<1>2. ASSUME NEW b \in Borrowers, PoolStep(b) PROVE PoolIndInv'
  BY <1>2, TakeUsableInductive, TakeSlotInductive, GiveUpInductive, RefundInductive,
     PutInductive DEF PoolStep
<1>3. ASSUME NEW b \in Borrowers, Connecting(b) \/ Binding(b) PROVE PoolIndInv'
  BY <1>3, DialConnectsInductive, DialFailsInductive, BindAcceptedInductive,
     BindFailsInductive DEF Connecting, Binding
<1>4. ASSUME NEW b \in Borrowers, Searching(b) PROVE PoolIndInv'
  BY <1>4, SearchEndsInductive DEF Searching
<1>5. ASSUME NEW k \in Conns, ConnDrops(k) PROVE PoolIndInv'
  BY <1>5, ConnDropsInductive
<1>6. CASE UNCHANGED poolVars
  BY <1>6 DEF PoolIndInv, PoolTypeOK, SlotsConserved, Holders, OwnershipInv,
              ExclusiveConn, NoConnLeaked, InSlot, poolVars
<1>. QED BY <1>1, <1>2, <1>3, <1>4, <1>5, <1>6 DEF PoolNext

(* The pool's bookkeeping holds in every reachable state. *)
THEOREM PoolInductive == PoolSpec => []PoolIndInv
BY PoolInitInductive, PoolNextInductive, PTL DEF PoolSpec

-----------------------------------------------------------------------------
(* What the bookkeeping gives *)

(* Occupancy plus slots checked out is the pool size, always. *)
THEOREM PoolConserves == PoolSpec => []SlotsConserved
<1>1. PoolIndInv => SlotsConserved BY DEF PoolIndInv
<1>. QED BY <1>1, PoolInductive, PTL

(* No send to the channel ever blocks: neither put, nor the refund of a slot
   whose dial failed, can deadlock a goroutine. *)
THEOREM PoolNeverBlocks == PoolSpec => []PutNeverBlocks
<1>1. PoolIndInv => PutNeverBlocks BY RoomToPut DEF PoolIndInv
<1>. QED BY <1>1, PoolInductive, PTL

(* No two goroutines, and no goroutine and the pool, share a connection. *)
THEOREM PoolExclusive == PoolSpec => []ExclusiveConn
<1>1. PoolIndInv => ExclusiveConn BY DEF PoolIndInv
<1>. QED BY <1>1, PoolInductive, PTL

(* Every open connection can still be used or closed by somebody. *)
THEOREM PoolLeaksNothing == PoolSpec => []NoConnLeaked
<1>1. PoolIndInv => NoConnLeaked BY DEF PoolIndInv
<1>. QED BY <1>1, PoolInductive, PTL

(* At most Size connections are open: those in slots are at most as many as
   the channel holds, those in use at most as many as the slots checked out. *)
LEMMA CountConns == PoolIndInv => ConnsBounded
<1>. SUFFICES ASSUME PoolIndInv PROVE Cardinality(OpenConns) <= Size
  BY DEF ConnsBounded
<1>. DEFINE Slotted == {k \in Conns : InSlot(k)}
            Held == {k \in Conns : \E b \in Borrowers : conn[b] = k}
            f == [k \in Slotted |-> CHOOSE s \in 1..Len(slots) : slots[s] = k]
            g == [k \in Held |-> CHOOSE b \in Borrowers : conn[b] = k]
<1>1. Len(slots) \in Nat BY DEF PoolIndInv, PoolTypeOK
<1>2. IsFiniteSet(1..Len(slots)) /\ Cardinality(1..Len(slots)) = Len(slots)
  <2>1. 1 \in Int /\ Len(slots) \in Int
    BY <1>1
  <2>2. IsFiniteSet(1..Len(slots))
        /\ Cardinality(1..Len(slots)) = IF 1 > Len(slots) THEN 0 ELSE Len(slots) - 1 + 1
    BY <2>1, FS_Interval, Zenon
  <2>. QED BY <1>1, <2>2
<1>3. f \in Injection(Slotted, 1..Len(slots))
  <2>1. \A k \in Slotted : f[k] \in 1..Len(slots) /\ slots[f[k]] = k BY DEF InSlot
  <2>. QED BY <2>1 DEF Injection, IsInjective
<1>4. IsFiniteSet(Slotted) /\ Cardinality(Slotted) <= Len(slots)
  BY <1>2, <1>3, FS_Injection
<1>5. g \in Injection(Held, Holders)
  <2>1. \A k \in Held : g[k] \in Borrowers /\ conn[g[k]] = k OBVIOUS
  <2>2. \A k \in Held : g[k] \in Holders
    BY <2>1, PoolNilAssumption
    DEF PoolIndInv, OwnershipInv, Holders, HoldsConn, HoldsSlot
  <2>. QED BY <2>1, <2>2 DEF Injection, IsInjective
<1>6. IsFiniteSet(Held) /\ Cardinality(Held) <= Cardinality(Holders)
  BY <1>5, FS_Injection DEF PoolIndInv, SlotsConserved
<1>7. IsFiniteSet(Slotted \cup Held)
      /\ Cardinality(Slotted \cup Held) <= Cardinality(Slotted) + Cardinality(Held)
  <2>1. IsFiniteSet(Slotted \cap Held)
    BY <1>4, Slotted \cap Held \in SUBSET Slotted, FS_Subset
  <2>2. Cardinality(Slotted \cap Held) \in Nat BY <2>1, FS_CardinalityType
  <2>. HIDE DEF Slotted, Held
  <2>3. Cardinality(Slotted) \in Nat /\ Cardinality(Held) \in Nat
    BY <1>4, <1>6, FS_CardinalityType
  <2>4. IsFiniteSet(Slotted \cup Held)
        /\ Cardinality(Slotted \cup Held) =
              Cardinality(Slotted) + Cardinality(Held) - Cardinality(Slotted \cap Held)
    BY <1>4, <1>6, FS_Union
  <2>. QED BY <2>2, <2>3, <2>4
<1>8. OpenConns \subseteq Slotted \cup Held
  BY DEF PoolIndInv, NoConnLeaked, OpenConns
<1>9. IsFiniteSet(OpenConns) /\ Cardinality(OpenConns) <= Cardinality(Slotted \cup Held)
  BY <1>7, <1>8, FS_Subset
<1>. QED
  BY <1>1, <1>4, <1>6, <1>7, <1>9, FS_CardinalityType, SizeAssumption
  DEF PoolIndInv, SlotsConserved

(* The pool never dials beyond pool_size (the comment on get, lines 48-50). *)
THEOREM PoolBounded == PoolSpec => []ConnsBounded
BY CountConns, PoolInductive, PTL
=============================================================================
