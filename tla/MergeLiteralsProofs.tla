------------------------- MODULE MergeLiteralsProofs -------------------------
(***************************************************************************)
(* Proofs that the concurrent map stays sound and that literals and the    *)
(* pointers to them are merged right, for any number of members, contents  *)
(* and priorities, any table and every schedule of the tasks.              *)
(***************************************************************************)
EXTENDS MergeLiterals, NatFacts

Steps == {"probe", "fill", "publish", "load", "cas", "align", "done", "full"}

(* The k-th bucket that the insertion of contents with home bucket h       *)
(* visits: all insertions of equal contents visit the same ones.           *)
Visited(h, k) == (h \div ShardSize) * ShardSize + ((h + k) % ShardSize)
HomeOf(r) == inp.home[Content(r)]

TableTypes ==
  /\ pc \in [Lits -> Steps]
  /\ idx \in [Lits -> Buckets]
  /\ retry \in [Lits -> 0 .. MaxRetry]
  /\ keys \in [Buckets -> {Empty, Marker} \cup {Content(r) : r \in Lits}]
  /\ owner \in [Buckets -> 0 .. Len(inp.content)]
  /\ maxAlign \in [Buckets -> Nat]
  /\ seen \in [Lits -> 0 .. Len(inp.content)]

RestTypes ==
  /\ inp \in Inputs
  /\ phase \in {"literals", "pointers", "rewrite", "done"}
  /\ rep \in [Lits -> 0 .. Len(inp.content)]
  /\ ptrOwner \in [Lits -> 0 .. Len(inp.pointers)]
  /\ inserted \subseteq Ptrs
  /\ ptrRep \in [Ptrs -> 0 .. Len(inp.pointers)]
  /\ refs \in [Lits -> Lits]

(* The buckets an insertion has passed by hold other contents for good. *)
OnItsPath ==
  \A r \in Lits :
    /\ idx[r] = Visited(HomeOf(r), retry[r])
    /\ pc[r] = "probe" => retry[r] < MaxRetry
    /\ \A k \in 0 .. retry[r] - 1 :
         keys[Visited(HomeOf(r), k)] \notin {Empty, Marker, Content(r)}

(* A marker belongs to the one member that fills the bucket. *)
MarkersAreOwned ==
  /\ \A r \in Lits : pc[r] \in {"fill", "publish"} => keys[idx[r]] = Marker
  /\ \A r, s \in Lits :
       (pc[r] \in {"fill", "publish"} /\ pc[s] \in {"fill", "publish"} /\ idx[r] = idx[s])
         => r = s
  /\ \A r \in Lits : pc[r] = "publish" => owner[idx[r]] = r

(* A published bucket has an owner with its contents, and the members past *)
(* the insertion are at a published bucket.                                *)
EntriesAreOwned ==
  /\ \A b \in Buckets : keys[b] \notin {Empty, Marker} =>
       owner[b] \in Lits /\ Content(owner[b]) = keys[b]
  /\ \A r \in Lits : pc[r] \in {"load", "cas", "align", "done"} =>
       keys[idx[r]] = Content(r)

(* The owner never loses priority: not below what a member has seen, and   *)
(* not below a member that is through. The alignment does not shrink.      *)
OwnersOutrank ==
  \A r \in Lits :
    /\ pc[r] = "cas" => /\ seen[r] \in Lits
                        /\ inp.priority[seen[r]] <= inp.priority[owner[idx[r]]]
    /\ pc[r] \in {"align", "done"} => inp.priority[r] <= inp.priority[owner[idx[r]]]
    /\ pc[r] = "done" => inp.align[r] <= maxAlign[idx[r]]

(* The member that stands for r. *)
Final(r) == owner[idx[r]]

(* What each phase leaves to the next. *)
LiteralsDecided ==
  IF phase = "literals"
  THEN members = [r \in Lits |-> r]
  ELSE /\ \A r \in Lits : pc[r] = "done"
       /\ rep = [r \in Lits |-> IF Final(r) = r THEN 0 ELSE Final(r)]
       /\ members = EraseReplaced([r \in Lits |-> r], rep)

RefsRewritten ==
  refs = [r \in Lits |-> IF phase = "done" /\ rep[r] # 0 THEN rep[r] ELSE r]

(* The entry of a target is the first pointer to it that was inserted. *)
PointersInserted ==
  /\ phase = "literals" => ptrOwner = [t \in Lits |-> 0] /\ inserted = {}
  /\ phase # "literals" =>
       /\ \A t \in Lits : ptrOwner[t] # 0 =>
            ptrOwner[t] \in inserted /\ GetTarget(ptrOwner[t]) = t
       /\ \A p \in inserted : GetTarget(p) # 0 => ptrOwner[GetTarget(p)] # 0
  /\ phase \in {"rewrite", "done"} =>
       /\ inserted = Ptrs
       /\ ptrRep = [p \in Ptrs |->
                      IF GetTarget(p) = 0 \/ ptrOwner[GetTarget(p)] = p THEN 0
                      ELSE ptrOwner[GetTarget(p)]]

IInv ==
  /\ TableTypes
  /\ RestTypes
  /\ OnItsPath
  /\ MarkersAreOwned
  /\ EntriesAreOwned
  /\ OneEntryPerContent
  /\ OwnersOutrank
  /\ LiteralsDecided
  /\ RefsRewritten
  /\ PointersInserted

-----------------------------------------------------------------------------
(* The probe sequence. *)

(* The first bucket is the home bucket, the others follow one another. *)
LEMMA VisitedNext ==
  ASSUME NEW h \in Buckets
  PROVE  /\ Visited(h, 0) = h
         /\ \A k \in Nat : Visited(h, k) \in Buckets
         /\ \A k \in Nat : NextBucket(Visited(h, k)) = Visited(h, k + 1)
<1> DEFINE S == ShardSize
           q == h \div S
<1>0. S \in Nat \ {0} /\ NumBuckets \in Nat \ {0} /\ h \in Nat /\ NumBuckets % S = 0
  BY TableAssumption DEF Buckets
<1>1. q \in Nat /\ h % S \in 0 .. S - 1 /\ h = q * S + (h % S)
  BY <1>0, DivMod
<1>2. q * S + S <= NumBuckets
  <2> DEFINE n == NumBuckets \div S
  <2>1. n \in Nat
    BY <1>0, DivMod
  <2>2. NumBuckets = n * S
    BY <1>0, Multiple
  <2> HIDE DEF n, q, S
  <2>3. ~(n <= q)
    BY <2>1, <2>2, <1>0, <1>1, MulMono DEF Buckets
  <2>4. (q + 1) * S <= n * S
    BY <2>1, <2>3, <1>0, <1>1, MulMono
  <2> QED
    BY <2>2, <2>4, <1>0, <1>1
<1>3. Visited(h, 0) = h
  BY <1>0, <1>1 DEF Visited
<1>4. ASSUME NEW k \in Nat
      PROVE  Visited(h, k) \in Buckets /\ NextBucket(Visited(h, k)) = Visited(h, k + 1)
  <2> DEFINE m == (h + k) % S
  <2>1. m \in 0 .. S - 1 /\ h + k \in Nat
    BY <1>0, DivMod
  <2>2. Visited(h, k) = q * S + m /\ q * S \in Nat
    BY <1>0, <1>1 DEF Visited
  <2>3. Visited(h, k) \in Buckets
    BY <2>1, <2>2, <1>2, <1>0 DEF Buckets
  <2>4. Visited(h, k) \div S = q /\ Visited(h, k) % S = m
    <3> HIDE DEF q, m, S
    <3> QED
      BY ZenonT(30), <2>1, <2>2, <1>0, <1>1, DivModUnique
  <2>5. (Visited(h, k) + 1) % S = (m + 1) % S
    BY <2>3, <2>4, <1>0, SuccMod DEF Buckets
  <2>6. ((h + k) + 1) % S = (m + 1) % S
    BY <2>1, <1>0, SuccMod
  <2>7. h + (k + 1) = (h + k) + 1
    BY <1>0
  <2> QED
    BY <2>3, <2>4, <2>5, <2>6, <2>7 DEF NextBucket, Visited
<1> QED
  BY <1>3, <1>4

-----------------------------------------------------------------------------
(* What the assumptions say of the input of a state. *)
LEMMA InputFacts ==
  ASSUME inp \in Inputs
  PROVE  /\ Len(inp.content) \in Nat
         /\ Lits = 1 .. Len(inp.content)
         /\ inp.priority \in [Lits -> Nat] /\ inp.align \in [Lits -> Nat]
         /\ \A r \in Lits : Content(r) \notin {Empty, Marker} /\ HomeOf(r) \in Buckets
         /\ inp.pointers \in Seq(0 .. Len(inp.content))
         /\ Ptrs = 1 .. Len(inp.pointers) /\ Len(inp.pointers) \in Nat
         /\ \A p \in Ptrs : inp.pointers[p] \in 0 .. Len(inp.content)
         /\ Empty # Marker
<1>1. IsInput(inp)
  BY InputsAssumption
<1>2. /\ Len(inp.content) \in Nat
      /\ inp.priority \in [Lits -> Nat] /\ inp.align \in [Lits -> Nat]
      /\ \A r \in Lits : Content(r) \notin {Empty, Marker} /\ HomeOf(r) \in Buckets
      /\ inp.pointers \in Seq(0 .. Len(inp.content))
  BY <1>1, TableAssumption DEF IsInput, Lits, Content, HomeOf, Buckets
<1>3. Len(inp.pointers) \in Nat /\ \A p \in Ptrs : inp.pointers[p] \in 0 .. Len(inp.content)
  BY <1>2 DEF Ptrs
<1> QED
  BY <1>2, <1>3, TableAssumption DEF Lits, Ptrs

LEMMA InitIInv == Init => IInv
<1> SUFFICES ASSUME Init PROVE IInv
  OBVIOUS
<1> USE DEF Init
<1>0. inp \in Inputs
  OBVIOUS
<1>1. TableTypes /\ RestTypes
  <2>1. \A r \in Lits : HomeOf(r) \in Buckets
    BY <1>0, InputFacts
  <2> QED
    BY <1>0, <2>1, InputFacts, TableAssumption DEF TableTypes, RestTypes, Steps, HomeOf, Buckets
<1>2. OnItsPath
  <2>1. \A r \in Lits : Visited(HomeOf(r), 0) = HomeOf(r)
    BY <1>0, InputFacts, VisitedNext
  <2> QED
    BY <2>1, TableAssumption DEF OnItsPath, HomeOf
<1>3. MarkersAreOwned /\ EntriesAreOwned /\ OneEntryPerContent /\ OwnersOutrank
  BY DEF MarkersAreOwned, EntriesAreOwned, OneEntryPerContent, HasEntry, OwnersOutrank
<1>4. LiteralsDecided /\ RefsRewritten /\ PointersInserted
  BY DEF LiteralsDecided, RefsRewritten, PointersInserted
<1> QED
  BY <1>1, <1>2, <1>3, <1>4 DEF IInv

(* Insertions leave what comes later, and the input, alone. *)
LEMMA RestIsKept ==
  ASSUME IInv, phase = "literals", Rest
  PROVE  /\ RestTypes' /\ LiteralsDecided' /\ RefsRewritten' /\ PointersInserted'
         /\ inp' = inp /\ Lits' = Lits /\ Ptrs' = Ptrs
         /\ inp \in Inputs
<1> USE DEF IInv, Rest, ptrs
<1>1. inp' = inp /\ Lits' = Lits /\ Ptrs' = Ptrs /\ inp \in Inputs /\ phase' = phase
  BY DEF Lits, Ptrs, RestTypes
<1>2. RestTypes'
  BY <1>1 DEF RestTypes
<1>3. LiteralsDecided' /\ RefsRewritten' /\ PointersInserted'
  BY <1>1 DEF LiteralsDecided, RefsRewritten, PointersInserted
<1> QED
  BY <1>1, <1>2, <1>3

(* One member moves. *)
LEMMA GoFacts ==
  ASSUME pc \in [Lits -> Steps], NEW r \in Lits, NEW w \in Steps, Go(r, w)
  PROVE  /\ pc' \in [Lits -> Steps] /\ pc'[r] = w
         /\ \A s \in Lits : s # r => pc'[s] = pc[s]
BY DEF Go

(* A member at a bucket that is empty or has its contents is at the bucket *)
(* where the members with these contents are: the one that visited fewer   *)
(* buckets would have been passed by.                                      *)
LEMMA SameBucket ==
  ASSUME IInv, NEW r \in Lits, NEW s \in Lits, Content(r) = Content(s), HasEntry(s),
         keys[idx[r]] \in {Empty, Content(r)}
  PROVE  idx[r] = idx[s]
<1> USE DEF IInv
<1>1. keys[idx[s]] \in {Marker, Content(r)}
  BY DEF MarkersAreOwned, EntriesAreOwned, HasEntry, TableTypes, Steps
<1>2. HomeOf(r) = HomeOf(s)
  BY DEF HomeOf
<1>3. /\ idx[r] = Visited(HomeOf(r), retry[r]) /\ idx[s] = Visited(HomeOf(r), retry[s])
      /\ \A k \in 0 .. retry[r] - 1 : keys[Visited(HomeOf(r), k)] \notin {Empty, Marker, Content(r)}
      /\ \A k \in 0 .. retry[s] - 1 : keys[Visited(HomeOf(r), k)] \notin {Empty, Marker, Content(r)}
  BY <1>2 DEF OnItsPath
<1>4. retry[r] \in Nat /\ retry[s] \in Nat
  BY TableAssumption DEF TableTypes
<1>5. CASE retry[r] = retry[s]
  BY <1>3, <1>5
<1>6. CASE retry[s] < retry[r]
  BY <1>1, <1>3, <1>4, <1>6
<1>7. CASE retry[r] < retry[s]
  BY <1>3, <1>4, <1>7
<1> QED
  BY <1>4, <1>5, <1>6, <1>7

(* The members that have an entry stay at it. *)
LEMMA SameEntries ==
  ASSUME IInv, inp' = inp, Lits' = Lits, idx' = idx, NEW r \in Lits,
         \A s \in Lits : HasEntry(s)' => HasEntry(s) \/ s = r,
         HasEntry(r) \/ keys[idx[r]] \in {Empty, Content(r)}
  PROVE  OneEntryPerContent'
<1>1. \A s \in Lits : Content(s) = Content(r) /\ HasEntry(s) => idx[s] = idx[r]
  BY SameBucket DEF IInv, OneEntryPerContent
<1>2. \A s \in Lits : Content(s)' = Content(s)
  BY DEF Content
<1> QED
  BY <1>1, <1>2 DEF OneEntryPerContent, IInv

LEMMA ClaimStep ==
  ASSUME IInv, NEW r \in Lits, Claim(r)
  PROVE  IInv'
<1> USE DEF IInv, Claim, At
<1>0. /\ RestTypes' /\ LiteralsDecided' /\ RefsRewritten' /\ PointersInserted'
      /\ inp' = inp /\ Lits' = Lits /\ inp \in Inputs
      /\ \A s \in Lits : Content(s)' = Content(s) /\ HomeOf(s)' = HomeOf(s)
  BY RestIsKept DEF Content, HomeOf
<1>p. /\ pc' \in [Lits -> Steps] /\ pc[r] = "probe" /\ pc'[r] = "fill"
      /\ \A s \in Lits : s # r => pc'[s] = pc[s]
  BY GoFacts DEF TableTypes, Steps
<1>i. idx \in [Lits -> Buckets] /\ idx[r] \in Buckets
  BY DEF TableTypes
<1>k. \A b \in Buckets : keys'[b] = IF b = idx[r] THEN Marker ELSE keys[b]
  BY DEF TableTypes
<1>n. \A s \in Lits : HasEntry(s) => idx[s] # idx[r]
  <2>1. keys[idx[r]] = Empty
    OBVIOUS
  <2>2. ASSUME NEW s \in Lits, HasEntry(s) PROVE keys[idx[s]] # Empty
    <3>1. pc[s] \in {"fill", "publish"} \/ pc[s] \in {"load", "cas", "align", "done"}
      BY <2>2 DEF HasEntry, TableTypes, Steps
    <3>2. Empty # Marker /\ Content(s) # Empty
      BY <1>0, InputFacts
    <3> QED
      BY <3>1, <3>2 DEF MarkersAreOwned, EntriesAreOwned
  <2> QED
    BY <2>1, <2>2
<1>1. TableTypes'
  BY <1>0, <1>p, <1>i DEF TableTypes
<1>2. OnItsPath'
  <2> SUFFICES ASSUME NEW s \in Lits, NEW k \in 0 .. retry[s] - 1
               PROVE  keys'[Visited(HomeOf(s), k)] = keys[Visited(HomeOf(s), k)]
    BY <1>0, <1>p DEF OnItsPath
  <2>1. Visited(HomeOf(s), k) \in Buckets
    BY <1>0, InputFacts, VisitedNext, TableAssumption DEF TableTypes
  <2>2. Visited(HomeOf(s), k) # idx[r]
    BY DEF OnItsPath
  <2> QED
    BY <2>1, <2>2, <1>k
<1>3. MarkersAreOwned'
  <2>1. \A s \in Lits : s # r /\ pc'[s] \in {"fill", "publish"} => idx[s] # idx[r]
    BY <1>p, <1>n DEF HasEntry
  <2> QED
    BY <1>0, <1>p, <1>i, <1>k, <2>1 DEF MarkersAreOwned
<1>4. EntriesAreOwned'
  <2>1. \A s \in Lits : pc'[s] \in {"load", "cas", "align", "done"} =>
          s # r /\ pc[s] \in {"load", "cas", "align", "done"} /\ idx[s] # idx[r]
    BY <1>p, <1>n DEF HasEntry
  <2> QED
    BY <2>1, <1>0, <1>i, <1>k DEF EntriesAreOwned, Content
<1>5. OneEntryPerContent'
  BY <1>0, <1>p, SameEntries DEF HasEntry
<1>6. OwnersOutrank'
  BY <1>0, <1>p DEF OwnersOutrank
<1> QED
  BY <1>0, <1>1, <1>2, <1>3, <1>4, <1>5, <1>6

LEMMA FillStep ==
  ASSUME IInv, NEW r \in Lits, Fill(r)
  PROVE  IInv'
<1> USE DEF IInv, Fill, At
<1>0. /\ RestTypes' /\ LiteralsDecided' /\ RefsRewritten' /\ PointersInserted'
      /\ inp' = inp /\ Lits' = Lits /\ inp \in Inputs
      /\ \A s \in Lits : Content(s)' = Content(s) /\ HomeOf(s)' = HomeOf(s)
  BY RestIsKept DEF Content, HomeOf
<1>p. /\ pc' \in [Lits -> Steps] /\ pc[r] = "fill" /\ pc'[r] = "publish"
      /\ \A s \in Lits : s # r => pc'[s] = pc[s]
  BY GoFacts DEF TableTypes, Steps
<1>i. idx \in [Lits -> Buckets] /\ idx[r] \in Buckets
  BY DEF TableTypes
<1>a. \A s \in Lits : pc[s] \in {"load", "cas", "align", "done"} => idx[s] # idx[r]
  BY <1>0, <1>p, InputFacts DEF EntriesAreOwned, MarkersAreOwned
<1>b. \A b \in Buckets : b # idx[r] => owner'[b] = owner[b] /\ maxAlign'[b] = maxAlign[b]
  BY DEF TableTypes
<1>c. owner'[idx[r]] = r
  BY <1>i DEF TableTypes
<1>1. TableTypes'
  <2>1. r \in 0 .. Len(inp.content) /\ 0 \in Nat
    BY <1>0, InputFacts
  <2>2. owner' \in [Buckets -> 0 .. Len(inp.content)] /\ maxAlign' \in [Buckets -> Nat]
    BY <2>1 DEF TableTypes
  <2> QED
    BY <1>0, <1>p, <2>2 DEF TableTypes
<1>2. OnItsPath'
  BY <1>0, <1>p DEF OnItsPath
<1>3. MarkersAreOwned'
  <2>1. \A s \in Lits : s # r /\ pc[s] \in {"fill", "publish"} => idx[s] # idx[r]
    BY <1>p DEF MarkersAreOwned
  <2> QED
    BY <1>0, <1>p, <1>i, <1>b, <1>c, <2>1 DEF MarkersAreOwned
<1>4. EntriesAreOwned'
  <2>1. keys[idx[r]] = Marker
    BY <1>p DEF MarkersAreOwned
  <2>2. \A b \in Buckets : keys[b] \notin {Empty, Marker} =>
          owner'[b] \in Lits /\ Content(owner'[b]) = keys[b]
    BY <2>1, <1>b DEF EntriesAreOwned
  <2> QED
    BY <1>0, <1>p, <2>2 DEF EntriesAreOwned, Content
<1>5. OneEntryPerContent'
  BY <1>0, <1>p, SameEntries DEF HasEntry
<1>6. OwnersOutrank'
  BY <1>0, <1>p, <1>i, <1>a, <1>b DEF OwnersOutrank
<1> QED
  BY <1>0, <1>1, <1>2, <1>3, <1>4, <1>5, <1>6

LEMMA PublishStep ==
  ASSUME IInv, NEW r \in Lits, Publish(r)
  PROVE  IInv'
<1> USE DEF IInv, Publish, At
<1>0. /\ RestTypes' /\ LiteralsDecided' /\ RefsRewritten' /\ PointersInserted'
      /\ inp' = inp /\ Lits' = Lits /\ inp \in Inputs
      /\ \A s \in Lits : Content(s)' = Content(s) /\ HomeOf(s)' = HomeOf(s)
  BY RestIsKept DEF Content, HomeOf
<1>p. /\ pc' \in [Lits -> Steps] /\ pc[r] = "publish" /\ pc'[r] = "load"
      /\ \A s \in Lits : s # r => pc'[s] = pc[s]
  BY GoFacts DEF TableTypes, Steps
<1>i. idx \in [Lits -> Buckets] /\ idx[r] \in Buckets
  BY DEF TableTypes
<1>a. /\ keys[idx[r]] = Marker /\ owner[idx[r]] = r
      /\ \A b \in Buckets : keys'[b] = IF b = idx[r] THEN Content(r) ELSE keys[b]
  BY <1>p DEF MarkersAreOwned, TableTypes
<1>1. TableTypes'
  BY <1>0, <1>p, <1>i DEF TableTypes
<1>2. OnItsPath'
  <2> SUFFICES ASSUME NEW s \in Lits, NEW k \in 0 .. retry[s] - 1
               PROVE  keys'[Visited(HomeOf(s), k)] = keys[Visited(HomeOf(s), k)]
    BY <1>0, <1>p DEF OnItsPath
  <2>1. Visited(HomeOf(s), k) \in Buckets
    <3>1. HomeOf(s) \in Buckets /\ k \in Nat
      BY <1>0, InputFacts, TableAssumption DEF TableTypes
    <3> QED
      BY <3>1, VisitedNext
  <2>2. Visited(HomeOf(s), k) # idx[r]
    BY <1>a DEF OnItsPath
  <2> QED
    BY <2>1, <2>2, <1>a
<1>3. MarkersAreOwned'
  <2>1. \A s \in Lits : s # r /\ pc[s] \in {"fill", "publish"} => idx[s] # idx[r]
    BY <1>p DEF MarkersAreOwned
  <2> QED
    BY <1>0, <1>p, <1>i, <1>a, <2>1 DEF MarkersAreOwned
<1>4. EntriesAreOwned'
  <2>1. \A s \in Lits : pc[s] \in {"load", "cas", "align", "done"} => idx[s] # idx[r]
    BY <1>0, <1>a, InputFacts DEF EntriesAreOwned
  <2>2. \A b \in Buckets : keys'[b] \notin {Empty, Marker} =>
          owner[b] \in Lits /\ Content(owner[b])' = keys'[b]
    BY <1>0, <1>a DEF EntriesAreOwned
  <2>3. \A s \in Lits : pc'[s] \in {"load", "cas", "align", "done"} => keys'[idx[s]] = Content(s)'
    BY <1>0, <1>p, <1>i, <1>a, <2>1 DEF EntriesAreOwned
  <2> QED
    BY <1>0, <2>2, <2>3 DEF EntriesAreOwned
<1>5. OneEntryPerContent'
  BY <1>0, <1>p, SameEntries DEF HasEntry
<1>6. OwnersOutrank'
  BY <1>0, <1>p DEF OwnersOutrank
<1> QED
  BY <1>0, <1>1, <1>2, <1>3, <1>4, <1>5, <1>6

LEMMA HitStep ==
  ASSUME IInv, NEW r \in Lits, Hit(r)
  PROVE  IInv'
<1> USE DEF IInv, Hit, At
<1>0. /\ RestTypes' /\ LiteralsDecided' /\ RefsRewritten' /\ PointersInserted'
      /\ inp' = inp /\ Lits' = Lits /\ inp \in Inputs
      /\ \A s \in Lits : Content(s)' = Content(s) /\ HomeOf(s)' = HomeOf(s)
  BY RestIsKept DEF Content, HomeOf
<1>p. /\ pc' \in [Lits -> Steps] /\ pc[r] = "probe" /\ pc'[r] = "load"
      /\ \A s \in Lits : s # r => pc'[s] = pc[s]
  BY GoFacts DEF TableTypes, Steps
<1>i. idx \in [Lits -> Buckets] /\ idx[r] \in Buckets
  BY DEF TableTypes
<1>1. TableTypes'
  BY <1>0, <1>p DEF TableTypes
<1>2. OnItsPath'
  BY <1>0, <1>p DEF OnItsPath
<1>3. MarkersAreOwned'
  BY <1>0, <1>p DEF MarkersAreOwned
<1>4. EntriesAreOwned'
  BY <1>0, <1>p DEF EntriesAreOwned, Content
<1>5. OneEntryPerContent'
  BY <1>0, <1>p, SameEntries DEF HasEntry
<1>6. OwnersOutrank'
  BY <1>0, <1>p DEF OwnersOutrank
<1> QED
  BY <1>0, <1>1, <1>2, <1>3, <1>4, <1>5, <1>6
LEMMA MissStep ==
  ASSUME IInv, NEW r \in Lits, Miss(r)
  PROVE  IInv'
<1> USE DEF IInv, Miss, At
<1>0. /\ RestTypes' /\ LiteralsDecided' /\ RefsRewritten' /\ PointersInserted'
      /\ inp' = inp /\ Lits' = Lits /\ inp \in Inputs
      /\ \A s \in Lits : Content(s)' = Content(s) /\ HomeOf(s)' = HomeOf(s)
  BY RestIsKept DEF Content, HomeOf
<1>p. /\ pc' \in [Lits -> Steps] /\ pc[r] = "probe" /\ pc'[r] \in {"probe", "full"}
      /\ pc'[r] = "probe" => retry[r] + 1 < MaxRetry
      /\ \A s \in Lits : s # r => pc'[s] = pc[s]
  BY GoFacts DEF TableTypes, Steps
<1>i. idx \in [Lits -> Buckets] /\ idx[r] \in Buckets
  BY DEF TableTypes
<1>a. /\ retry[r] \in Nat /\ retry[r] + 1 \in 0 .. MaxRetry
      /\ \A s \in Lits : retry'[s] = IF s = r THEN retry[r] + 1 ELSE retry[s]
      /\ retry' \in [Lits -> 0 .. MaxRetry]
  <2>1. retry \in [Lits -> 0 .. MaxRetry] /\ MaxRetry \in Nat
    BY TableAssumption DEF TableTypes
  <2>2. retry[r] \in Nat /\ retry[r] + 1 \in 0 .. MaxRetry
    <3>1. retry[r] \in 0 .. MaxRetry /\ retry[r] < MaxRetry
      BY <1>p, <2>1 DEF OnItsPath
    <3> QED
      BY <2>1, <3>1
  <2>3. retry' = [retry EXCEPT ![r] = retry[r] + 1]
    OBVIOUS
  <2> QED
    BY <2>1, <2>2, <2>3
<1>b. NextBucket(idx[r]) = Visited(HomeOf(r), retry[r] + 1) /\ NextBucket(idx[r]) \in Buckets
  <2>1. idx[r] = Visited(HomeOf(r), retry[r]) /\ HomeOf(r) \in Buckets
    BY <1>0, InputFacts DEF OnItsPath
  <2> QED
    BY <2>1, <1>a, VisitedNext
<1>c. /\ idx' \in [Lits -> Buckets]
      /\ \A s \in Lits : idx'[s] = IF s = r THEN NextBucket(idx[r]) ELSE idx[s]
  BY <1>b, <1>i
<1>1. TableTypes'
  BY <1>0, <1>p, <1>a, <1>c DEF TableTypes
<1>2. OnItsPath'
  <2>1. /\ idx'[r] = Visited(HomeOf(r), retry'[r])
        /\ pc'[r] = "probe" => retry'[r] < MaxRetry
        /\ \A k \in 0 .. retry'[r] - 1 :
             keys[Visited(HomeOf(r), k)] \notin {Empty, Marker, Content(r)}
    <3>1. \A k \in 0 .. retry'[r] - 1 : k \in 0 .. retry[r] - 1 \/ k = retry[r]
      BY <1>a
    <3> QED
      BY <1>a, <1>b, <1>c, <1>p, <3>1 DEF OnItsPath
  <2>2. \A s \in Lits : s # r =>
          /\ idx'[s] = Visited(HomeOf(s), retry'[s])
          /\ pc'[s] = "probe" => retry'[s] < MaxRetry
          /\ \A k \in 0 .. retry'[s] - 1 :
               keys[Visited(HomeOf(s), k)] \notin {Empty, Marker, Content(s)}
    BY <1>a, <1>c, <1>p DEF OnItsPath
  <2> QED
    BY <1>0, <2>1, <2>2 DEF OnItsPath
<1>3. MarkersAreOwned'
  BY <1>0, <1>p, <1>c DEF MarkersAreOwned
<1>4. EntriesAreOwned'
  BY <1>0, <1>p, <1>c DEF EntriesAreOwned, Content
<1>5. OneEntryPerContent'
  <2>1. \A s \in Lits : HasEntry(s)' => HasEntry(s) /\ idx'[s] = idx[s]
    BY <1>p, <1>c DEF HasEntry
  <2> QED
    BY <1>0, <2>1 DEF OneEntryPerContent
<1>6. OwnersOutrank'
  BY <1>0, <1>p, <1>c DEF OwnersOutrank
<1> QED
  BY <1>0, <1>1, <1>2, <1>3, <1>4, <1>5, <1>6

LEMMA LoadOwnerStep ==
  ASSUME IInv, NEW r \in Lits, LoadOwner(r)
  PROVE  IInv'
<1> USE DEF IInv, LoadOwner, At
<1>0. /\ RestTypes' /\ LiteralsDecided' /\ RefsRewritten' /\ PointersInserted'
      /\ inp' = inp /\ Lits' = Lits /\ inp \in Inputs
      /\ \A s \in Lits : Content(s)' = Content(s) /\ HomeOf(s)' = HomeOf(s)
  BY RestIsKept DEF Content, HomeOf
<1>p. /\ pc' \in [Lits -> Steps] /\ pc[r] = "load" /\ pc'[r] = "cas"
      /\ \A s \in Lits : s # r => pc'[s] = pc[s]
  BY GoFacts DEF TableTypes, Steps
<1>i. idx \in [Lits -> Buckets] /\ idx[r] \in Buckets
  BY DEF TableTypes
<1>a. keys[idx[r]] = Content(r) /\ owner[idx[r]] \in Lits /\ Content(r) \notin {Empty, Marker}
  BY <1>0, <1>p, <1>i, InputFacts DEF EntriesAreOwned
<1>b. \A s \in Lits : seen'[s] = IF s = r THEN owner[idx[r]] ELSE seen[s]
  BY DEF TableTypes
<1>1. TableTypes'
  <2>1. seen' \in [Lits -> 0 .. Len(inp.content)]
    BY <1>i DEF TableTypes
  <2> QED
    BY <1>0, <1>p, <2>1 DEF TableTypes
<1>2. OnItsPath'
  BY <1>0, <1>p DEF OnItsPath
<1>3. MarkersAreOwned'
  BY <1>0, <1>p DEF MarkersAreOwned
<1>4. EntriesAreOwned'
  BY <1>0, <1>p DEF EntriesAreOwned, Content
<1>5. OneEntryPerContent'
  BY <1>0, <1>p, SameEntries DEF HasEntry
<1>6. OwnersOutrank'
  <2>1. inp.priority[owner[idx[r]]] \in Nat
    BY <1>0, <1>a, InputFacts
  <2> QED
    BY <1>0, <1>p, <1>a, <1>b, <2>1 DEF OwnersOutrank
<1> QED
  BY <1>0, <1>1, <1>2, <1>3, <1>4, <1>5, <1>6

LEMMA SetOwnerStep ==
  ASSUME IInv, NEW r \in Lits, SetOwner(r)
  PROVE  IInv'
<1> USE DEF IInv, SetOwner, At
<1>0. /\ RestTypes' /\ LiteralsDecided' /\ RefsRewritten' /\ PointersInserted'
      /\ inp' = inp /\ Lits' = Lits /\ inp \in Inputs
      /\ \A s \in Lits : Content(s)' = Content(s) /\ HomeOf(s)' = HomeOf(s)
  BY RestIsKept DEF Content, HomeOf
<1>p. /\ pc' \in [Lits -> Steps] /\ pc[r] = "cas" /\ pc'[r] = "align"
      /\ \A s \in Lits : s # r => pc'[s] = pc[s]
  BY GoFacts DEF TableTypes, Steps
<1>i. idx \in [Lits -> Buckets] /\ idx[r] \in Buckets
  BY DEF TableTypes
<1>a. /\ keys[idx[r]] = Content(r) /\ Content(r) \notin {Empty, Marker}
      /\ seen[r] \in Lits /\ owner[idx[r]] = seen[r]
      /\ inp.priority[owner[idx[r]]] < inp.priority[r]
      /\ \A s \in Lits : inp.priority[s] \in Nat
  BY <1>0, <1>p, <1>i, InputFacts DEF EntriesAreOwned, OwnersOutrank, Outranks
<1>b. /\ owner' \in [Buckets -> 0 .. Len(inp.content)]
      /\ \A b \in Buckets : owner'[b] = IF b = idx[r] THEN r ELSE owner[b]
  BY <1>0, InputFacts DEF TableTypes
<1>c. \A s \in Lits : pc[s] \in {"cas", "align", "done"} =>
        /\ owner[idx[s]] \in Lits
        /\ inp.priority[owner[idx[s]]] <= inp.priority[owner'[idx[s]]]
  <2>1. \A s \in Lits : pc[s] \in {"cas", "align", "done"} => owner[idx[s]] \in Lits
    BY <1>0, <1>i, InputFacts DEF EntriesAreOwned
  <2> QED
    BY <2>1, <1>a, <1>b, <1>i
<1>1. TableTypes'
  BY <1>0, <1>p, <1>b DEF TableTypes
<1>2. OnItsPath'
  BY <1>0, <1>p DEF OnItsPath
<1>3. MarkersAreOwned'
  <2>1. \A s \in Lits : pc[s] = "publish" => idx[s] # idx[r]
    BY <1>a DEF MarkersAreOwned
  <2> QED
    BY <1>0, <1>p, <1>i, <1>b, <2>1 DEF MarkersAreOwned
<1>4. EntriesAreOwned'
  <2>1. \A b \in Buckets : keys[b] \notin {Empty, Marker} =>
          owner'[b] \in Lits /\ Content(owner'[b]) = keys[b]
    BY <1>a, <1>b DEF EntriesAreOwned
  <2> QED
    BY <1>0, <1>p, <2>1 DEF EntriesAreOwned, Content
<1>5. OneEntryPerContent'
  BY <1>0, <1>p, SameEntries DEF HasEntry
<1>6. OwnersOutrank'
  <2> SUFFICES ASSUME NEW s \in Lits PROVE
        /\ pc'[s] = "cas" => /\ seen[s] \in Lits
                             /\ inp.priority[seen[s]] <= inp.priority[owner'[idx[s]]]
        /\ pc'[s] \in {"align", "done"} => inp.priority[s] <= inp.priority[owner'[idx[s]]]
        /\ pc'[s] = "done" => inp.align[s] <= maxAlign[idx[s]]
    BY <1>0 DEF OwnersOutrank
  <2>1. CASE s = r
    BY <2>1, <1>a, <1>b, <1>i, <1>p
  <2>2. CASE s # r
    <3>1. pc[s] \in {"cas", "align", "done"} => owner'[idx[s]] \in Lits
      BY <1>b, <1>c, <1>i
    <3> QED
      BY <2>2, <3>1, <1>a, <1>c, <1>p DEF OwnersOutrank
  <2> QED
    BY <2>1, <2>2
<1> QED
  BY <1>0, <1>1, <1>2, <1>3, <1>4, <1>5, <1>6

LEMMA RetryOwnerStep ==
  ASSUME IInv, NEW r \in Lits, RetryOwner(r)
  PROVE  IInv'
<1> USE DEF IInv, RetryOwner, At
<1>0. /\ RestTypes' /\ LiteralsDecided' /\ RefsRewritten' /\ PointersInserted'
      /\ inp' = inp /\ Lits' = Lits /\ inp \in Inputs
      /\ \A s \in Lits : Content(s)' = Content(s) /\ HomeOf(s)' = HomeOf(s)
  BY RestIsKept DEF Content, HomeOf
<1>p. /\ pc' = pc /\ pc[r] = "cas"
  BY DEF TableTypes
<1>i. idx \in [Lits -> Buckets] /\ idx[r] \in Buckets
  BY DEF TableTypes
<1>a. owner[idx[r]] \in Lits /\ inp.priority[owner[idx[r]]] \in Nat
  BY <1>0, <1>p, <1>i, InputFacts DEF EntriesAreOwned
<1>b. /\ seen' \in [Lits -> 0 .. Len(inp.content)]
      /\ \A s \in Lits : seen'[s] = IF s = r THEN owner[idx[r]] ELSE seen[s]
  BY <1>i DEF TableTypes
<1>1. TableTypes'
  BY <1>0, <1>p, <1>b DEF TableTypes
<1>2. OnItsPath'
  BY <1>0, <1>p DEF OnItsPath
<1>3. MarkersAreOwned'
  BY <1>0, <1>p DEF MarkersAreOwned
<1>4. EntriesAreOwned'
  BY <1>0, <1>p DEF EntriesAreOwned, Content
<1>5. OneEntryPerContent'
  BY <1>0, <1>p, SameEntries DEF HasEntry
<1>6. OwnersOutrank'
  BY <1>0, <1>p, <1>a, <1>b DEF OwnersOutrank
<1> QED
  BY <1>0, <1>1, <1>2, <1>3, <1>4, <1>5, <1>6

LEMMA KeepOwnerStep ==
  ASSUME IInv, NEW r \in Lits, KeepOwner(r)
  PROVE  IInv'
<1> USE DEF IInv, KeepOwner, At
<1>0. /\ RestTypes' /\ LiteralsDecided' /\ RefsRewritten' /\ PointersInserted'
      /\ inp' = inp /\ Lits' = Lits /\ inp \in Inputs
      /\ \A s \in Lits : Content(s)' = Content(s) /\ HomeOf(s)' = HomeOf(s)
  BY RestIsKept DEF Content, HomeOf
<1>p. /\ pc' \in [Lits -> Steps] /\ pc[r] = "cas" /\ pc'[r] = "align"
      /\ \A s \in Lits : s # r => pc'[s] = pc[s]
  BY GoFacts DEF TableTypes, Steps
<1>i. idx \in [Lits -> Buckets] /\ idx[r] \in Buckets
  BY DEF TableTypes
<1>1. TableTypes'
  BY <1>0, <1>p DEF TableTypes
<1>2. OnItsPath'
  BY <1>0, <1>p DEF OnItsPath
<1>3. MarkersAreOwned'
  BY <1>0, <1>p DEF MarkersAreOwned
<1>4. EntriesAreOwned'
  BY <1>0, <1>p DEF EntriesAreOwned, Content
<1>5. OneEntryPerContent'
  BY <1>0, <1>p, SameEntries DEF HasEntry
<1>6. OwnersOutrank'
  <2>1. /\ seen[r] \in Lits /\ owner[idx[r]] \in Lits /\ inp.priority \in [Lits -> Nat]
        /\ inp.priority[seen[r]] <= inp.priority[owner[idx[r]]]
        /\ ~(inp.priority[seen[r]] < inp.priority[r])
    <3>1. inp.priority \in [Lits -> Nat] /\ Content(r) \notin {Empty, Marker}
      BY <1>0, InputFacts
    <3>2. seen[r] \in Lits /\ inp.priority[seen[r]] <= inp.priority[owner[idx[r]]]
      BY <1>p DEF OwnersOutrank
    <3>3. keys[idx[r]] = Content(r)
      BY <1>p DEF EntriesAreOwned
    <3>4. owner[idx[r]] \in Lits
      BY <1>i, <3>1, <3>3 DEF EntriesAreOwned
    <3>5. ~(inp.priority[seen[r]] < inp.priority[r])
      BY DEF Outranks
    <3> QED
      BY <3>1, <3>2, <3>4, <3>5
  <2>2. inp.priority[r] <= inp.priority[owner[idx[r]]]
    BY <2>1
  <2> QED
    BY <1>0, <1>p, <2>2 DEF OwnersOutrank
<1> QED
  BY <1>0, <1>1, <1>2, <1>3, <1>4, <1>5, <1>6

LEMMA UpdateAlignStep ==
  ASSUME IInv, NEW r \in Lits, UpdateAlign(r)
  PROVE  IInv'
<1> USE DEF IInv, UpdateAlign, At
<1>0. /\ RestTypes' /\ LiteralsDecided' /\ RefsRewritten' /\ PointersInserted'
      /\ inp' = inp /\ Lits' = Lits /\ inp \in Inputs
      /\ \A s \in Lits : Content(s)' = Content(s) /\ HomeOf(s)' = HomeOf(s)
  BY RestIsKept DEF Content, HomeOf
<1>p. /\ pc' \in [Lits -> Steps] /\ pc[r] = "align" /\ pc'[r] = "done"
      /\ \A s \in Lits : s # r => pc'[s] = pc[s]
  BY GoFacts DEF TableTypes, Steps
<1>i. idx \in [Lits -> Buckets] /\ idx[r] \in Buckets
  BY DEF TableTypes
<1>a. /\ inp.align \in [Lits -> Nat]
      /\ maxAlign' \in [Buckets -> Nat]
      /\ \A b \in Buckets : maxAlign[b] <= maxAlign'[b]
      /\ inp.align[r] <= maxAlign'[idx[r]]
  BY SMTT(30), <1>0, <1>i, InputFacts DEF TableTypes
<1>1. TableTypes'
  BY <1>0, <1>p, <1>a DEF TableTypes
<1>2. OnItsPath'
  BY <1>0, <1>p DEF OnItsPath
<1>3. MarkersAreOwned'
  BY <1>0, <1>p DEF MarkersAreOwned
<1>4. EntriesAreOwned'
  BY <1>0, <1>p DEF EntriesAreOwned, Content
<1>5. OneEntryPerContent'
  BY <1>0, <1>p, SameEntries DEF HasEntry
<1>6. OwnersOutrank'
  <2>1. \A s \in Lits : pc'[s] = "done" => inp.align[s] <= maxAlign'[idx[s]]
    <3> SUFFICES ASSUME NEW s \in Lits, s # r, pc[s] = "done"
                 PROVE  inp.align[s] <= maxAlign'[idx[s]]
      BY <1>a, <1>p
    <3>1. inp.align[s] <= maxAlign[idx[s]] /\ maxAlign[idx[s]] <= maxAlign'[idx[s]]
      BY <1>a, <1>i DEF OwnersOutrank
    <3>2. inp.align[s] \in Nat /\ maxAlign[idx[s]] \in Nat /\ maxAlign'[idx[s]] \in Nat
      BY <1>a, <1>i DEF TableTypes
    <3> QED
      BY <3>1, <3>2
  <2> QED
    BY <1>0, <1>p, <2>1 DEF OwnersOutrank
<1> QED
  BY <1>0, <1>1, <1>2, <1>3, <1>4, <1>5, <1>6

-----------------------------------------------------------------------------
(* parallel_erase_if, cut into blocks or not, keeps what is to be kept, in *)
(* its order: position k of the result comes from position at[k].          *)
LEMMA EraseKeepsOrder ==
  ASSUME NEW vec, NEW new, Len(vec) \in Nat
  PROVE  LET K == Kept(vec, new, 1, Len(vec))
             c == Cardinality(K)
         IN  /\ c \in Nat
             /\ \E at \in [1 .. c -> K] :
                  /\ EraseReplaced(vec, new) = [k \in 1 .. c |-> vec[at[k]]]
                  /\ \A j, k \in 1 .. c : j < k => at[j] < at[k]
                  /\ \A j \in K : \E k \in 1 .. c : at[k] = j
<1> DEFINE n == Len(vec)
           K == Kept(vec, new, 1, n)
           c == Cardinality(K)
           block(j) == (j - 1) \div Grain
           before(j) == Cardinality(Kept(vec, new, 1, block(j) * Grain))
           place(j) == before(j) + Cardinality(Kept(vec, new, block(j) * Grain + 1, j))
           Upto(j) == Kept(vec, new, 1, j)
<1>1. \A a \in Int, b \in Int : IsFiniteSet(Kept(vec, new, a, b))
  <2> SUFFICES ASSUME NEW a \in Int, NEW b \in Int PROVE IsFiniteSet(Kept(vec, new, a, b))
    OBVIOUS
  <2>1. IsFiniteSet(a .. b) /\ Kept(vec, new, a, b) \in SUBSET (a .. b)
    BY FS_Interval DEF Kept
  <2> QED
    BY <2>1, FS_Subset
<1>2. IsFiniteSet(K) /\ c \in Nat
  BY <1>1, FS_CardinalityType
<1>3. ASSUME NEW j \in K
      PROVE  place(j) = Cardinality(Upto(j))
  <2> DEFINE m == block(j) * Grain
             L == Kept(vec, new, 1, m)
             R == Kept(vec, new, m + 1, j)
  <2>1. j \in 1 .. n
    BY DEF Kept
  <2>2. m \in 0 .. j - 1
    <3>1. j - 1 \in Nat /\ Grain \in Nat \ {0}
      BY <2>1, TableAssumption
    <3> DEFINE x == j - 1
    <3>2. x \div Grain \in Nat /\ x % Grain \in 0 .. Grain - 1
            /\ x = (x \div Grain) * Grain + (x % Grain)
      BY <3>1, DivMod
    <3>3. (x \div Grain) * Grain \in Nat
      BY <3>1, <3>2, MulNat
    <3> QED
      BY <3>1, <3>2, <3>3
  <2> HIDE DEF m
  <2>3. L \cup R = Upto(j) /\ L \cap R = {}
    BY <2>1, <2>2 DEF Kept
  <2>4. IsFiniteSet(L) /\ IsFiniteSet(R) /\ Cardinality(L) \in Nat /\ Cardinality(R) \in Nat
    <3>1. 1 \in Int /\ m \in Int /\ m + 1 \in Int /\ j \in Int
      BY <2>1, <2>2
    <3>2. IsFiniteSet(L) /\ IsFiniteSet(R)
      BY <1>1, <3>1
    <3> QED
      BY <3>2, FS_CardinalityType
  <2>5. Cardinality(L \cup R) = Cardinality(L) + Cardinality(R) - Cardinality({})
    BY <2>3, <2>4, FS_Union
  <2>6. Cardinality(Upto(j)) = Cardinality(L) + Cardinality(R)
    <3>1. Cardinality({}) = 0
      BY FS_EmptySet
    <3>2. Cardinality(Upto(j)) = Cardinality(L \cup R)
      BY <2>3
    <3> HIDE DEF L, R, Upto
    <3> QED
      BY <2>4, <2>5, <3>1, <3>2
  <2> QED
    BY <2>6 DEF m
<1> HIDE DEF place
<1>4. \A j \in K : j \in 1 .. n /\ j \in Upto(j) /\ Upto(j) \subseteq K /\ IsFiniteSet(Upto(j))
  BY <1>1 DEF Kept
<1>5. ASSUME NEW j \in K
      PROVE  place(j) \in 1 .. c
  <2>1. Cardinality(Upto(j)) \in Nat /\ Cardinality(Upto(j)) <= c
    BY <1>2, <1>4, FS_Subset, FS_CardinalityType
  <2>2. Cardinality(Upto(j)) # 0
    BY <1>4, FS_EmptySet
  <2> QED
    BY <1>2, <1>3, <2>1, <2>2
<1>6. ASSUME NEW i \in K, NEW j \in K, i < j
      PROVE  place(i) < place(j)
  <2>1. Upto(i) \in SUBSET Upto(j) /\ j \notin Upto(i)
    BY <1>4, <1>6 DEF Kept
  <2>2. Cardinality(Upto(i)) <= Cardinality(Upto(j)) /\ Cardinality(Upto(i)) # Cardinality(Upto(j))
    BY <2>1, <1>4, FS_Subset
  <2>3. Cardinality(Upto(i)) \in Nat /\ Cardinality(Upto(j)) \in Nat
    BY <1>4, FS_CardinalityType
  <2> QED
    BY <1>3, <2>2, <2>3
<1> DEFINE p == [j \in K |-> place(j)]
<1>7. p \in Surjection(K, 1 .. c)
  <2>1. p \in [K -> 1 .. c]
    BY <1>5
  <2>2. p \in Injection(K, 1 .. c)
    <3>1. \A i, j \in K : p[i] = p[j] => i = j
      <4> SUFFICES ASSUME NEW i \in K, NEW j \in K, i # j PROVE place(i) # place(j)
        OBVIOUS
      <4>1. i < j \/ j < i
        BY <1>4
      <4>2. place(i) \in Nat /\ place(j) \in Nat
        BY <1>5
      <4> QED
        BY <1>6, <4>1, <4>2
    <3> QED
      BY <2>1, <3>1 DEF Injection, IsInjective
  <2>3. IsFiniteSet(1 .. c) /\ Cardinality(1 .. c) = c
    BY <1>2, FS_Interval
  <2> QED
    BY <2>2, <2>3, FS_Injection
<1> DEFINE at == [k \in 1 .. c |-> CHOOSE j \in K : place(j) = k]
<1>8. \A k \in 1 .. c : at[k] \in K /\ place(at[k]) = k
  <2>1. \A k \in 1 .. c : \E j \in K : place(j) = k
    BY <1>7 DEF Surjection
  <2> QED
    BY <2>1
<1>9. at \in [1 .. c -> K]
  BY <1>8
<1>10. EraseReplaced(vec, new) = [k \in 1 .. c |-> vec[at[k]]]
  BY DEF EraseReplaced, place
<1>11. ASSUME NEW j \in 1 .. c, NEW k \in 1 .. c, j < k
       PROVE  at[j] < at[k]
  <2>1. at[j] \in K /\ at[k] \in K /\ place(at[j]) = j /\ place(at[k]) = k
    BY <1>8
  <2> HIDE DEF at
  <2>2. at[j] \in Nat /\ at[k] \in Nat
    BY <1>4, <2>1
  <2>3. at[k] # at[j]
    BY <2>1, <1>11
  <2>4. ~(at[k] < at[j])
    BY <2>1, <1>6, <1>11, <1>2
  <2> QED
    BY <2>2, <2>3, <2>4
<1>12. ASSUME NEW j \in K
       PROVE  \E k \in 1 .. c : at[k] = j
  <2>1. place(j) \in 1 .. c
    BY <1>5
  <2>2. at[place(j)] \in K /\ place(at[place(j)]) = place(j)
    BY <1>8, <2>1
  <2> HIDE DEF at
  <2>3. at[place(j)] \in Nat /\ j \in Nat /\ place(j) \in Nat
    BY <1>4, <1>5, <2>2
  <2>4. ~(at[place(j)] < j) /\ ~(j < at[place(j)])
    BY <1>6, <2>2, <2>3
  <2> QED
    BY <2>1, <2>3, <2>4
<1> HIDE DEF K, c, at
<1>13. /\ at \in [1 .. c -> K]
       /\ EraseReplaced(vec, new) = [k \in 1 .. c |-> vec[at[k]]]
       /\ \A j, k \in 1 .. c : j < k => at[j] < at[k]
       /\ \A j \in K : \E k \in 1 .. c : at[k] = j
  BY <1>9, <1>10, <1>11, <1>12
<1> QED
  BY <1>2, <1>13 DEF K, c

-----------------------------------------------------------------------------
(* The main thread leaves the table alone. *)
LEMMA TableIsKept ==
  ASSUME IInv, inp' = inp, UNCHANGED lits
  PROVE  /\ TableTypes' /\ OnItsPath' /\ MarkersAreOwned' /\ EntriesAreOwned'
         /\ OneEntryPerContent' /\ OwnersOutrank'
         /\ Lits' = Lits /\ Ptrs' = Ptrs /\ inp \in Inputs
<1> USE DEF lits, IInv
<1>1. Lits' = Lits /\ Ptrs' = Ptrs /\ inp \in Inputs
  BY DEF Lits, Ptrs, RestTypes
<1>2. TableTypes' /\ OnItsPath' /\ MarkersAreOwned'
  BY <1>1 DEF TableTypes, OnItsPath, MarkersAreOwned, HomeOf, Content
<1>3. EntriesAreOwned' /\ OneEntryPerContent' /\ OwnersOutrank'
  BY <1>1 DEF EntriesAreOwned, OneEntryPerContent, OwnersOutrank, HasEntry, Content
<1> QED
  BY <1>1, <1>2, <1>3

LEMMA DecideOwnersStep ==
  ASSUME IInv, DecideOwners
  PROVE  IInv'
<1> USE DEF IInv, DecideOwners
<1>0. /\ TableTypes' /\ OnItsPath' /\ MarkersAreOwned' /\ EntriesAreOwned'
      /\ OneEntryPerContent' /\ OwnersOutrank'
      /\ Lits' = Lits /\ Ptrs' = Ptrs /\ inp \in Inputs
  BY TableIsKept
<1>1. RestTypes'
  <2>1. rep' \in [Lits -> 0 .. Len(inp.content)]
    <3>1. \A r \in Lits : owner[idx[r]] \in 0 .. Len(inp.content)
      BY DEF TableTypes
    <3>2. 0 \in 0 .. Len(inp.content)
      BY <1>0, InputFacts
    <3> QED
      BY <3>1, <3>2
  <2> QED
    BY <1>0, <2>1 DEF RestTypes, ptrs
<1>2. LiteralsDecided'
  BY <1>0 DEF LiteralsDecided, Final, lits
<1>3. RefsRewritten'
  BY <1>0 DEF RefsRewritten
<1>4. PointersInserted'
  BY <1>0 DEF PointersInserted, ptrs, RestTypes
<1> QED
  BY <1>0, <1>1, <1>2, <1>3, <1>4

(* The target of a pointer is a member, or there is none. *)
LEMMA TargetType ==
  ASSUME IInv, NEW p \in Ptrs
  PROVE  GetTarget(p) \in Lits \/ GetTarget(p) = 0
<1>1. inp.pointers[p] \in Lits \/ inp.pointers[p] = 0
  BY InputFacts DEF IInv, RestTypes
<1>2. inp.pointers[p] \in Lits => rep[inp.pointers[p]] = 0 \/ rep[inp.pointers[p]] \in Lits
  BY SMTT(30), InputFacts DEF IInv, RestTypes
<1> QED
  BY <1>1, <1>2 DEF GetTarget

LEMMA InsertPointerStep ==
  ASSUME IInv, NEW p \in Ptrs, InsertPointer(p)
  PROVE  IInv'
<1> USE DEF IInv, InsertPointer
<1>0. /\ TableTypes' /\ OnItsPath' /\ MarkersAreOwned' /\ EntriesAreOwned'
      /\ OneEntryPerContent' /\ OwnersOutrank'
      /\ Lits' = Lits /\ Ptrs' = Ptrs /\ inp \in Inputs
  BY TableIsKept
<1>a. \A q \in Ptrs : GetTarget(q)' = GetTarget(q)
  BY DEF GetTarget
<1>b. GetTarget(p) \in Lits \/ GetTarget(p) = 0
  BY TargetType
<1>c. /\ ptrOwner \in [Lits -> 0 .. Len(inp.pointers)]
      /\ Len(inp.pointers) \in Nat /\ Ptrs = 1 .. Len(inp.pointers) /\ 0 \notin Lits
  BY <1>0, InputFacts DEF RestTypes
<1>d. \A t \in Lits :
        \/ ptrOwner'[t] = ptrOwner[t] /\ (t = GetTarget(p) => ptrOwner[t] # 0)
        \/ ptrOwner'[t] = p /\ t = GetTarget(p)
  BY <1>b, <1>c
<1>1. RestTypes'
  <2>1. ptrOwner' \in [Lits -> 0 .. Len(inp.pointers)]
    BY <1>b, <1>c
  <2> QED
    BY <1>0, <2>1 DEF RestTypes
<1>2. LiteralsDecided'
  BY <1>0 DEF LiteralsDecided, Final, lits
<1>3. RefsRewritten'
  BY <1>0 DEF RefsRewritten
<1>4. PointersInserted'
  <2>1. \A t \in Lits : ptrOwner'[t] # 0 =>
          ptrOwner'[t] \in inserted' /\ GetTarget(ptrOwner'[t]) = t
    BY <1>d DEF PointersInserted
  <2>2. \A q \in inserted' : GetTarget(q) # 0 => ptrOwner'[GetTarget(q)] # 0
    <3> SUFFICES ASSUME NEW q \in inserted', GetTarget(q) # 0
                 PROVE  ptrOwner'[GetTarget(q)] # 0
      OBVIOUS
    <3>1. q \in Ptrs /\ p # 0
      BY <1>c DEF RestTypes
    <3>2. GetTarget(q) \in Lits
      BY <3>1, TargetType
    <3> QED
      BY <3>1, <3>2, <1>d DEF PointersInserted
  <2>3. inserted' \subseteq Ptrs
    BY DEF RestTypes
  <2>4. \A t \in Lits : ptrOwner'[t] # 0 =>
          ptrOwner'[t] \in inserted' /\ (GetTarget(ptrOwner[t]))' = t
    BY <2>1, <2>3 DEF GetTarget
  <2>5. \A q \in inserted' : GetTarget(q)' # 0 => (ptrOwner[GetTarget(q)])' # 0
    BY <2>2, <2>3 DEF GetTarget
  <2> QED
    BY <1>0, <2>4, <2>5 DEF PointersInserted
<1> QED
  BY <1>0, <1>1, <1>2, <1>3, <1>4

LEMMA DecidePointersStep ==
  ASSUME IInv, DecidePointers
  PROVE  IInv'
<1> USE DEF IInv, DecidePointers
<1>0. /\ TableTypes' /\ OnItsPath' /\ MarkersAreOwned' /\ EntriesAreOwned'
      /\ OneEntryPerContent' /\ OwnersOutrank'
      /\ Lits' = Lits /\ Ptrs' = Ptrs /\ inp \in Inputs
  BY TableIsKept
<1>1. RestTypes'
  <2>1. ptrRep' \in [Ptrs -> 0 .. Len(inp.pointers)]
    <3>1. ptrOwner \in [Lits -> 0 .. Len(inp.pointers)] /\ Len(inp.pointers) \in Nat
      BY <1>0, InputFacts DEF RestTypes
    <3>2. ASSUME NEW p \in Ptrs
          PROVE  (IF GetTarget(p) = 0 \/ ptrOwner[GetTarget(p)] = p THEN 0
                  ELSE ptrOwner[GetTarget(p)]) \in 0 .. Len(inp.pointers)
      <4>1. GetTarget(p) \in Lits \/ GetTarget(p) = 0
        BY TargetType
      <4> QED
        BY <3>1, <4>1
    <3> QED
      BY <3>2
  <2> QED
    BY <1>0, <2>1 DEF RestTypes
<1>2. LiteralsDecided'
  BY <1>0 DEF LiteralsDecided, Final, lits
<1>3. RefsRewritten'
  BY <1>0 DEF RefsRewritten
<1>4. PointersInserted'
  <2>1. \A q \in Ptrs : GetTarget(q)' = GetTarget(q)
    BY DEF GetTarget
  <2> QED
    BY <1>0, <2>1 DEF PointersInserted, GetTarget
<1> QED
  BY <1>0, <1>1, <1>2, <1>3, <1>4

LEMMA RewriteStep ==
  ASSUME IInv, Rewrite
  PROVE  IInv'
<1> USE DEF IInv, Rewrite
<1>0. /\ TableTypes' /\ OnItsPath' /\ MarkersAreOwned' /\ EntriesAreOwned'
      /\ OneEntryPerContent' /\ OwnersOutrank'
      /\ Lits' = Lits /\ Ptrs' = Ptrs /\ inp \in Inputs
  BY TableIsKept
<1>1. RestTypes'
  <2>1. refs' \in [Lits -> Lits]
    BY <1>0, InputFacts DEF RestTypes
  <2> QED
    BY <1>0, <2>1 DEF RestTypes, ptrs
<1>2. LiteralsDecided'
  BY <1>0 DEF LiteralsDecided, Final, lits
<1>3. RefsRewritten'
  BY <1>0 DEF RefsRewritten
<1>4. PointersInserted'
  BY <1>0 DEF PointersInserted, GetTarget, ptrs
<1> QED
  BY <1>0, <1>1, <1>2, <1>3, <1>4

LEMMA StutterStep ==
  ASSUME IInv, UNCHANGED vars
  PROVE  IInv'
<1> USE DEF IInv, vars, ptrs
<1>0. /\ TableTypes' /\ OnItsPath' /\ MarkersAreOwned' /\ EntriesAreOwned'
      /\ OneEntryPerContent' /\ OwnersOutrank'
      /\ Lits' = Lits /\ Ptrs' = Ptrs /\ inp \in Inputs
  BY TableIsKept
<1>1. RestTypes' /\ LiteralsDecided' /\ RefsRewritten' /\ PointersInserted'
  BY <1>0 DEF RestTypes, LiteralsDecided, RefsRewritten, PointersInserted, Final,
              GetTarget, lits
<1> QED
  BY <1>0, <1>1

(* Every step keeps the inductive invariant. *)
LEMMA StepIInv == IInv /\ [Next]_vars => IInv'
<1> SUFFICES ASSUME IInv, [Next]_vars PROVE IInv'
  OBVIOUS
<1>1. ASSUME NEW r \in Lits, Insert(r) PROVE IInv'
  BY <1>1, ClaimStep, FillStep, PublishStep, HitStep, MissStep, LoadOwnerStep,
     SetOwnerStep, RetryOwnerStep, KeepOwnerStep, UpdateAlignStep DEF Insert
<1>2. CASE Main
  BY <1>2, DecideOwnersStep, InsertPointerStep, DecidePointersStep, RewriteStep DEF Main
<1>3. CASE Finished \/ UNCHANGED vars
  BY <1>3, StutterStep DEF Finished
<1> QED
  BY <1>1, <1>2, <1>3 DEF Next

(* The inductive invariant holds always. *)
THEOREM Inductive == Spec => []IInv
BY InitIInv, StepIInv, PTL DEF Spec

(* The table is sound: whatever the threads do, equal contents have one    *)
(* entry, and a member that holds an entry sees it published and owned by  *)
(* a member with its contents (ConcurrentMap::insert).                     *)
THEOREM TableCorrect == Spec => []TableIsSound
<1>1. IInv => TableIsSound
  <2> SUFFICES ASSUME IInv PROVE TypeOK /\ OneEntryPerContent /\ EntryIsFilled
    BY DEF TableIsSound
  <2> USE DEF IInv
  <2>1. TypeOK
    BY TableAssumption DEF TypeOK, TableTypes, RestTypes, Steps
  <2>2. EntryIsFilled
    <3> SUFFICES ASSUME NEW r \in Lits, pc[r] \in {"load", "cas", "align", "done"}
                 PROVE  keys[idx[r]] = Content(r) /\ owner[idx[r]] \in Same(r)
      BY DEF EntryIsFilled
    <3>1. Content(r) \notin {Empty, Marker} /\ idx[r] \in Buckets
      BY InputFacts DEF RestTypes, TableTypes
    <3> QED
      BY <3>1 DEF EntriesAreOwned, Same
  <2> QED
    BY <2>1, <2>2
<1> QED
  BY <1>1, Inductive, PTL

-----------------------------------------------------------------------------
(* What has been decided: one member stands for all with its contents. *)
LEMMA FinalFacts ==
  ASSUME IInv, phase # "literals"
  PROVE  /\ \A r \in Lits : /\ Final(r) \in Lits /\ Content(Final(r)) = Content(r)
                            /\ Final(Final(r)) = Final(r)
                            /\ rep[r] = IF Final(r) = r THEN 0 ELSE Final(r)
         /\ \A r, s \in Lits : Content(r) = Content(s) => idx[r] = idx[s] /\ Final(r) = Final(s)
<1> USE DEF IInv
<1>1. \A r \in Lits : pc[r] = "done"
  BY DEF LiteralsDecided
<1>2. \A r \in Lits : Final(r) \in Lits /\ Content(Final(r)) = Content(r)
  <2> SUFFICES ASSUME NEW r \in Lits PROVE Final(r) \in Lits /\ Content(Final(r)) = Content(r)
    OBVIOUS
  <2>1. Content(r) \notin {Empty, Marker} /\ idx[r] \in Buckets
    BY InputFacts DEF RestTypes, TableTypes
  <2> QED
    BY <1>1, <2>1 DEF EntriesAreOwned, Final
<1>3. \A r, s \in Lits : Content(r) = Content(s) => idx[r] = idx[s] /\ Final(r) = Final(s)
  BY <1>1 DEF OneEntryPerContent, HasEntry, Final
<1>4. \A r \in Lits : rep[r] = IF Final(r) = r THEN 0 ELSE Final(r)
  BY DEF LiteralsDecided
<1> QED
  BY <1>2, <1>3, <1>4

LEMMA PrioritiesHold == IInv => HighestPriorityOwns
<1> SUFFICES ASSUME IInv, phase # "literals", NEW r \in Lits, NEW s \in Same(r)
             PROVE  ~Outranks(s, owner[idx[r]]) /\ inp.align[s] <= maxAlign[idx[r]]
  BY DEF HighestPriorityOwns
<1>1. s \in Lits /\ idx[s] = idx[r] /\ pc[s] = "done" /\ owner[idx[r]] \in Lits
  BY FinalFacts DEF Same, IInv, LiteralsDecided, Final
<1>2. inp.priority[s] \in Nat /\ inp.priority[owner[idx[r]]] \in Nat
  BY <1>1, InputFacts DEF IInv, RestTypes
<1> QED
  BY <1>1, <1>2 DEF IInv, OwnersOutrank, Outranks

LEMMA RefsHold == IInv => RefsReachMembers
<1> SUFFICES ASSUME IInv, phase = "done" PROVE RefsReachMembers
  BY DEF RefsReachMembers
<1> DEFINE n == Len(inp.content)
           vec == [r \in Lits |-> r]
           K == Kept(vec, rep, 1, Len(vec))
           c == Cardinality(K)
<1>1. n \in Nat /\ Lits = 1 .. n /\ Len(vec) = n
  BY InputFacts DEF IInv, RestTypes
<1>2. K = {j \in Lits : Final(j) = j}
  <2>1. \A j \in Lits : rep[j] = 0 <=> Final(j) = j
    BY FinalFacts, <1>1
  <2> QED
    BY <1>1, <2>1 DEF Kept
<1>3. PICK at \in [1 .. c -> K] :
        /\ EraseReplaced(vec, rep) = [k \in 1 .. c |-> vec[at[k]]]
        /\ \A j, k \in 1 .. c : j < k => at[j] < at[k]
        /\ \A j \in K : \E k \in 1 .. c : at[k] = j
  <2> HIDE DEF vec
  <2>1. Len(vec) \in Nat
    BY <1>1
  <2> QED
    BY <2>1, EraseKeepsOrder
<1>4. c \in Nat
  BY <1>1, EraseKeepsOrder
<1> HIDE DEF K, c
<1>5. members = [k \in 1 .. c |-> at[k]]
  BY <1>2, <1>3 DEF IInv, LiteralsDecided
<1>6. ASSUME NEW i \in DOMAIN members, NEW j \in DOMAIN members, i < j
      PROVE  members[i] < members[j] /\ Content(members[i]) # Content(members[j])
  <2>1. i \in 1 .. c /\ j \in 1 .. c /\ members[i] = at[i] /\ members[j] = at[j]
    BY <1>5
  <2>2. members[i] < members[j]
    BY <2>1, <1>3, <1>6
  <2>3. members[i] \in K /\ members[j] \in K
    BY <2>1
  <2>4. Final(members[i]) = members[i] /\ Final(members[j]) = members[j]
          /\ members[i] \in Lits /\ members[j] \in Lits
    BY <1>2, <2>3
  <2>5. members[i] # members[j]
    BY <2>2, <2>4, <1>1
  <2> QED
    BY <2>2, <2>4, <2>5, FinalFacts
<1>7. ASSUME NEW r \in Lits
      PROVE  Content(refs[r]) = Content(r) /\ \E i \in DOMAIN members : members[i] = refs[r]
  <2>1. refs[r] = Final(r)
    BY FinalFacts, <1>1 DEF IInv, RefsRewritten
  <2>2. Final(r) \in K /\ Content(Final(r)) = Content(r)
    BY FinalFacts, <1>2
  <2>3. PICK k \in 1 .. c : at[k] = Final(r)
    BY <1>3, <2>2
  <2> QED
    BY <1>5, <2>1, <2>2, <2>3
<1> QED
  BY <1>6, <1>7 DEF RefsReachMembers

LEMMA PointersHold == IInv => PointersMerged
<1> SUFFICES ASSUME IInv, phase \in {"rewrite", "done"}, NEW p \in Ptrs, NEW q \in Ptrs
             PROVE  LET final(x) == IF ptrRep[x] = 0 THEN x ELSE ptrRep[x]
                    IN  /\ (inp.pointers[p] # 0 /\ inp.pointers[q] # 0)
                             => (final(p) = final(q)
                                   <=> Content(inp.pointers[p]) = Content(inp.pointers[q]))
                        /\ ptrRep[p] # 0 => ptrRep[ptrRep[p]] = 0
  BY DEF PointersMerged
<1> DEFINE final(x) == IF ptrRep[x] = 0 THEN x ELSE ptrRep[x]
<1>1. \A x \in Ptrs : x # 0 /\ inp.pointers[x] \in 0 .. Len(inp.content) /\ 0 \notin Lits
  BY InputFacts DEF IInv, RestTypes
<1>2. \A x \in Ptrs : inp.pointers[x] # 0 => inp.pointers[x] \in Lits
  BY SMTT(30), InputFacts DEF IInv, RestTypes
<1>3. \A x \in Ptrs : GetTarget(x) = IF inp.pointers[x] = 0 THEN 0 ELSE Final(inp.pointers[x])
  BY <1>1, <1>2, FinalFacts DEF GetTarget
<1>4. \A x \in Ptrs : inp.pointers[x] # 0 => GetTarget(x) \in Lits
  BY <1>2, <1>3, FinalFacts
<1>5. ASSUME NEW x \in Ptrs, inp.pointers[x] # 0
      PROVE  /\ final(x) = ptrOwner[GetTarget(x)] /\ final(x) \in Ptrs
             /\ GetTarget(final(x)) = GetTarget(x)
  <2>1. GetTarget(x) \in Lits /\ GetTarget(x) # 0
    BY <1>1, <1>4, <1>5
  <2>2. ptrOwner[GetTarget(x)] # 0 /\ ptrOwner[GetTarget(x)] \in Ptrs
          /\ GetTarget(ptrOwner[GetTarget(x)]) = GetTarget(x)
    BY <2>1 DEF IInv, PointersInserted
  <2>3. ptrRep[x] = IF ptrOwner[GetTarget(x)] = x THEN 0 ELSE ptrOwner[GetTarget(x)]
    BY <2>1 DEF IInv, PointersInserted
  <2> QED
    BY <2>2, <2>3
<1>6. ASSUME inp.pointers[p] # 0, inp.pointers[q] # 0
      PROVE  final(p) = final(q) <=> Content(inp.pointers[p]) = Content(inp.pointers[q])
  <2>1. final(p) = final(q) <=> GetTarget(p) = GetTarget(q)
    BY <1>5, <1>6
  <2>2. GetTarget(p) = GetTarget(q) <=> Content(inp.pointers[p]) = Content(inp.pointers[q])
    BY <1>2, <1>3, <1>6, FinalFacts
  <2> QED
    BY <2>1, <2>2
<1>7. ASSUME ptrRep[p] # 0
      PROVE  ptrRep[ptrRep[p]] = 0
  <2>1. GetTarget(p) # 0
    BY <1>7 DEF IInv, PointersInserted
  <2>2. inp.pointers[p] # 0
    BY <2>1, <1>3
  <2>3. ptrRep[p] \in Ptrs /\ GetTarget(ptrRep[p]) = GetTarget(p) /\ ptrRep[p] = ptrOwner[GetTarget(p)]
    BY <1>5, <1>7, <2>2
  <2> QED
    BY <2>3 DEF IInv, PointersInserted
<1> QED
  BY <1>6, <1>7

(* Literals are merged right: the member of highest priority stands for    *)
(* all with its contents and its entry has the largest alignment           *)
(* (uniquify_literals), the section keeps exactly the members that stand   *)
(* for others, in order (parallel_erase_if), relocations are rewritten to  *)
(* them, and pointers are merged exactly when they point to equal contents *)
(* (uniquify_literal_pointers).                                            *)
THEOREM MergeCorrect == Spec => []LiteralsAreMerged
<1>1. IInv => LiteralsAreMerged
  BY PrioritiesHold, RefsHold, PointersHold DEF LiteralsAreMerged
<1> QED
  BY <1>1, Inductive, PTL
=============================================================================
