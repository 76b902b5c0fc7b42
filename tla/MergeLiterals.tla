--------------------------- MODULE MergeLiterals ---------------------------
(***************************************************************************)
(* merge_mergeable_sections: literals with equal contents are merged in    *)
(* parallel through a ConcurrentMap, a hash table without locks; then the  *)
(* pointers to literals are merged by target, and relocations are          *)
(* rewritten.                                                              *)
(*                                                                         *)
(* The members of an output section are 1 .. n in their order.  Each is a  *)
(* process of its own: tbb::parallel_for_each takes them in any order.     *)
(* compare_exchange_weak may fail for no reason; that is a stuttering step *)
(* here.                                                                   *)
(***************************************************************************)
EXTENDS Integers, Sequences, FiniteSets

CONSTANTS MaxLits,     \* bound on the members of a section
          NumBuckets,  \* a power of two
          ShardSize,   \* nbuckets / NUM_SHARDS
          MaxRetry,    \* MAX_RETRY
          Grain,       \* GRAIN_SIZE
          Empty,       \* a bucket never used: nullptr
          Marker,      \* a bucket being filled
          Inputs

ASSUME TableAssumption ==
  /\ MaxLits \in Nat
  /\ NumBuckets \in Nat \ {0} /\ ShardSize \in Nat \ {0}
  /\ NumBuckets % ShardSize = 0
  /\ MaxRetry \in Nat \ {0} /\ Grain \in Nat \ {0}
  /\ Empty # Marker

(* What the pass is given: for each member its contents, the priority of   *)
(* its file and its alignment; for each contents the first bucket to try;  *)
(* for each literal pointer its target, 0 if it has no single relocation.  *)
IsInput(i) ==
  LET n == Len(i.content)
  IN  /\ n \in 0 .. MaxLits
      /\ i.priority \in [1 .. n -> Nat] /\ i.align \in [1 .. n -> Nat]
      /\ \A r \in 1 .. n : /\ i.content[r] \notin {Empty, Marker}
                           /\ i.home[i.content[r]] \in 0 .. NumBuckets - 1
      /\ i.pointers \in Seq(0 .. n)

ASSUME InputsAssumption == \A i \in Inputs : IsInput(i)

VARIABLES
  inp,
  phase,
  pc,        \* per member: where its insertion is
  idx,       \* per member: the bucket it looks at, then its entry
  retry,     \* per member: buckets tried
  keys,      \* per bucket: the contents stored, Empty or Marker
  owner,     \* per bucket: Entry::owner
  maxAlign,  \* per bucket: Entry::p2align
  seen,      \* per member: `existing`
  rep,       \* per member: its replacer, 0 if it is not replaced
  members,   \* osec.members
  ptrOwner,  \* per target: Entry::owner_idx, 0 if there is no entry
  inserted,  \* literal pointers already inserted
  ptrRep,    \* per literal pointer: its replacer, 0 if it is not replaced
  refs       \* per member: what a relocation that names it refers to

lits == <<pc, idx, retry, keys, owner, maxAlign, seen>>
ptrs == <<ptrOwner, inserted, ptrRep>>
vars == <<inp, phase, lits, rep, members, ptrs, refs>>

Lits == 1 .. Len(inp.content)
Ptrs == 1 .. Len(inp.pointers)
Buckets == 0 .. NumBuckets - 1
Content(r) == inp.content[r]

Init ==
  /\ inp \in Inputs
  /\ phase = "literals"
  /\ pc = [r \in Lits |-> "probe"]
  /\ idx = [r \in Lits |-> inp.home[Content(r)]]
  /\ retry = [r \in Lits |-> 0]
  /\ keys = [b \in Buckets |-> Empty]
  /\ owner = [b \in Buckets |-> 0]
  /\ maxAlign = [b \in Buckets |-> 0]
  /\ seen = [r \in Lits |-> 0]
  /\ rep = [r \in Lits |-> 0]
  /\ members = [r \in Lits |-> r]
  /\ ptrOwner = [r \in Lits |-> 0]
  /\ inserted = {}
  /\ ptrRep = [p \in Ptrs |-> 0]
  /\ refs = [r \in Lits |-> r]

At(r, where) == phase = "literals" /\ pc[r] = where
Go(r, where) == pc' = [pc EXCEPT ![r] = where]
Rest == UNCHANGED <<inp, phase, rep, members, ptrs, refs>>

(***************************************************************************)
(* ConcurrentMap::insert.  An empty bucket is claimed with the marker,     *)
(* filled, and published by storing its key; meanwhile the others spin.    *)
(***************************************************************************)
(* Mutant: the key is stored before the entry is filled. *)
Claim_PublishFirst(r) ==
  /\ At(r, "probe") /\ keys[idx[r]] = Empty
  /\ keys' = [keys EXCEPT ![idx[r]] = Content(r)]
  /\ Go(r, "fill")
  /\ UNCHANGED <<idx, retry, owner, maxAlign, seen>>
  /\ Rest

Claim(r) ==
  /\ At(r, "probe") /\ keys[idx[r]] = Empty
  /\ keys' = [keys EXCEPT ![idx[r]] = Marker]
  /\ Go(r, "fill")
  /\ UNCHANGED <<idx, retry, owner, maxAlign, seen>>
  /\ Rest

Fill(r) ==
  /\ At(r, "fill")
  /\ owner' = [owner EXCEPT ![idx[r]] = r]
  /\ maxAlign' = [maxAlign EXCEPT ![idx[r]] = 0]
  /\ Go(r, "publish")
  /\ UNCHANGED <<idx, retry, keys, seen>>
  /\ Rest

Publish(r) ==
  /\ At(r, "publish")
  /\ keys' = [keys EXCEPT ![idx[r]] = Content(r)]
  /\ Go(r, "load")
  /\ UNCHANGED <<idx, retry, owner, maxAlign, seen>>
  /\ Rest

Hit(r) ==
  /\ At(r, "probe") /\ keys[idx[r]] = Content(r)
  /\ Go(r, "load")
  /\ UNCHANGED <<idx, retry, keys, owner, maxAlign, seen>>
  /\ Rest

(* The next bucket of the same shard. *)
NextBucket(b) == (b \div ShardSize) * ShardSize + ((b + 1) % ShardSize)

(* Mutant: a bucket being filled is skipped, not waited for. *)
Miss_OnMarker(r) ==
  /\ At(r, "probe") /\ keys[idx[r]] \notin {Empty, Content(r)}
  /\ idx' = [idx EXCEPT ![r] = NextBucket(idx[r])]
  /\ retry' = [retry EXCEPT ![r] = @ + 1]
  /\ Go(r, IF retry[r] + 1 < MaxRetry THEN "probe" ELSE "full")
  /\ UNCHANGED <<keys, owner, maxAlign, seen>>
  /\ Rest

Miss(r) ==
  /\ At(r, "probe") /\ keys[idx[r]] \notin {Empty, Marker, Content(r)}
  /\ idx' = [idx EXCEPT ![r] = NextBucket(idx[r])]
  /\ retry' = [retry EXCEPT ![r] = @ + 1]
  /\ Go(r, IF retry[r] + 1 < MaxRetry THEN "probe" ELSE "full")
  /\ UNCHANGED <<keys, owner, maxAlign, seen>>
  /\ Rest

(***************************************************************************)
(* The rest of the loop body in uniquify_literals: the member of the file  *)
(* with the highest priority becomes the owner.  update_maximum is one     *)
(* step: nothing reads p2align before the end of the loop.                 *)
(***************************************************************************)
LoadOwner(r) ==
  /\ At(r, "load")
  /\ seen' = [seen EXCEPT ![r] = owner[idx[r]]]
  /\ Go(r, "cas")
  /\ UNCHANGED <<idx, retry, keys, owner, maxAlign>>
  /\ Rest

Outranks(r, s) == inp.priority[s] < inp.priority[r]

SetOwner(r) ==
  /\ At(r, "cas") /\ Outranks(r, seen[r]) /\ owner[idx[r]] = seen[r]
  /\ owner' = [owner EXCEPT ![idx[r]] = r]
  /\ Go(r, "align")
  /\ UNCHANGED <<idx, retry, keys, maxAlign, seen>>
  /\ Rest

(* Mutant: a failed exchange is not tried again. *)
RetryOwner_GivesUp(r) ==
  /\ At(r, "cas") /\ Outranks(r, seen[r]) /\ owner[idx[r]] # seen[r]
  /\ seen' = [seen EXCEPT ![r] = owner[idx[r]]]
  /\ Go(r, "align")
  /\ UNCHANGED <<idx, retry, keys, owner, maxAlign>>
  /\ Rest

(* Mutant: a failed exchange does not reload `existing`. *)
RetryOwner_Stale(r) ==
  /\ At(r, "cas") /\ Outranks(r, seen[r]) /\ owner[idx[r]] # seen[r]
  /\ seen' = [seen EXCEPT ![r] = @]
  /\ UNCHANGED <<pc, idx, retry, keys, owner, maxAlign>>
  /\ Rest

RetryOwner(r) ==
  /\ At(r, "cas") /\ Outranks(r, seen[r]) /\ owner[idx[r]] # seen[r]
  /\ seen' = [seen EXCEPT ![r] = owner[idx[r]]]
  /\ UNCHANGED <<pc, idx, retry, keys, owner, maxAlign>>
  /\ Rest

KeepOwner(r) ==
  /\ At(r, "cas") /\ ~Outranks(r, seen[r])
  /\ Go(r, "align")
  /\ UNCHANGED <<idx, retry, keys, owner, maxAlign, seen>>
  /\ Rest

UpdateAlign(r) ==
  /\ At(r, "align")
  /\ maxAlign' = [maxAlign EXCEPT ![idx[r]] =
                    IF @ < inp.align[r] THEN inp.align[r] ELSE @]
  /\ Go(r, "done")
  /\ UNCHANGED <<idx, retry, keys, owner, seen>>
  /\ Rest

(***************************************************************************)
(* parallel_erase_if: each block of Grain elements is copied to its own    *)
(* place in the result, computed from the counts of the blocks before.     *)
(***************************************************************************)
Kept(vec, new, lo, hi) == {j \in lo .. hi : new[vec[j]] = 0}

(* Mutant: the number of blocks is rounded down. *)
EraseReplaced_FullBlocks(vec, new) ==
  LET block(j) == (j - 1) \div Grain
      before(j) == Cardinality(Kept(vec, new, 1, block(j) * Grain))
      place(j) == before(j) + Cardinality(Kept(vec, new, block(j) * Grain + 1, j))
      kept == Kept(vec, new, 1, (Len(vec) \div Grain) * Grain)
  IN  [k \in 1 .. Cardinality(kept) |->
         vec[CHOOSE j \in kept : place(j) = k]]

EraseReplaced(vec, new) ==
  LET block(j) == (j - 1) \div Grain
      before(j) == Cardinality(Kept(vec, new, 1, block(j) * Grain))
      place(j) == before(j) + Cardinality(Kept(vec, new, block(j) * Grain + 1, j))
      kept == Kept(vec, new, 1, Len(vec))
  IN  [k \in 1 .. Cardinality(kept) |->
         vec[CHOOSE j \in kept : place(j) = k]]

DecideOwners ==
  /\ phase = "literals" /\ \A r \in Lits : pc[r] = "done"
  /\ rep' = [r \in Lits |-> IF owner[idx[r]] = r THEN 0 ELSE owner[idx[r]]]
  /\ members' = EraseReplaced(members, rep')
  /\ phase' = "pointers"
  /\ UNCHANGED <<inp, lits, ptrs, refs>>

(***************************************************************************)
(* uniquify_literal_pointers: the first pointer to each target.  The       *)
(* insertion and update_minimum are one step.                              *)
(***************************************************************************)
(* Mutant: the replacer of the target is not followed. *)
GetTarget_Raw(p) ==
  LET t == inp.pointers[p]
  IN  t

GetTarget(p) ==
  LET t == inp.pointers[p]
  IN  IF t # 0 /\ rep[t] # 0 THEN rep[t] ELSE t

InsertPointer(p) ==
  /\ phase = "pointers" /\ p \notin inserted
  /\ inserted' = inserted \cup {p}
  /\ ptrOwner' = IF GetTarget(p) = 0 THEN ptrOwner
                 ELSE [ptrOwner EXCEPT ![GetTarget(p)] =
                         IF @ = 0 \/ p < @ THEN p ELSE @]
  /\ UNCHANGED <<inp, phase, lits, rep, members, ptrRep, refs>>

DecidePointers ==
  /\ phase = "pointers" /\ inserted = Ptrs
  /\ ptrRep' = [p \in Ptrs |->
                  IF GetTarget(p) = 0 \/ ptrOwner[GetTarget(p)] = p THEN 0
                  ELSE ptrOwner[GetTarget(p)]]
  /\ phase' = "rewrite"
  /\ UNCHANGED <<inp, lits, rep, members, ptrOwner, inserted, refs>>

Rewrite ==
  /\ phase = "rewrite"
  /\ refs' = [r \in Lits |-> IF rep[refs[r]] # 0 THEN rep[refs[r]] ELSE refs[r]]
  /\ phase' = "done"
  /\ UNCHANGED <<inp, lits, rep, members, ptrs>>

Insert(r) ==
  \/ Claim(r) \/ Fill(r) \/ Publish(r) \/ Hit(r) \/ Miss(r) \/ LoadOwner(r)
  \/ SetOwner(r) \/ RetryOwner(r) \/ KeepOwner(r) \/ UpdateAlign(r)

Main ==
  \/ DecideOwners \/ (\E p \in Ptrs : InsertPointer(p)) \/ DecidePointers
  \/ Rewrite

Finished ==
  (phase = "done" \/ \E r \in Lits : pc[r] = "full") /\ UNCHANGED vars

Next == (\E r \in Lits : Insert(r)) \/ Main \/ Finished

(* Every thread of the pool gets to run. *)
Spec ==
  /\ Init /\ [][Next]_vars
  /\ WF_vars(Main)
  /\ \A r \in 1 .. MaxLits : WF_vars(r \in Lits /\ Insert(r))

-----------------------------------------------------------------------------
(***************************************************************************)
(* Properties.                                                             *)
(***************************************************************************)
Same(r) == {s \in Lits : Content(s) = Content(r)}

TypeOK ==
  /\ phase \in {"literals", "pointers", "rewrite", "done"}
  /\ pc \in [Lits -> {"probe", "fill", "publish", "load", "cas", "align",
                      "done", "full"}]
  /\ idx \in [Lits -> Buckets]
  /\ \A r \in Lits : retry[r] <= MaxRetry /\ rep[r] \in 0 .. Len(inp.content)
  /\ owner \in [Buckets -> 0 .. Len(inp.content)]

(* The member has claimed or found a bucket. *)
HasEntry(r) == pc[r] \notin {"probe", "full"}

(* However the insertions interleave, no contents are in two buckets, and  *)
(* none is claimed in one bucket while it is in another.                   *)
OneEntryPerContent ==
  \A r, s \in Lits :
    (Content(r) = Content(s) /\ HasEntry(r) /\ HasEntry(s))
      => idx[r] = idx[s]

(* A member that has its entry sees it filled: the key is its contents and *)
(* the owner a member with these contents.                                 *)
EntryIsFilled ==
  \A r \in Lits :
    pc[r] \in {"load", "cas", "align", "done"} =>
      keys[idx[r]] = Content(r) /\ owner[idx[r]] \in Same(r)

(* The table is sound in every interleaving of the insertions.             *)
TableIsSound == TypeOK /\ OneEntryPerContent /\ EntryIsFilled

(* Once all members are inserted the owner is one of the file of highest   *)
(* priority, no update is lost, and the recorded alignment is the largest. *)
HighestPriorityOwns ==
  phase # "literals" =>
    \A r \in Lits :
      /\ ~ \E s \in Same(r) : Outranks(s, owner[idx[r]])
      /\ \A s \in Same(r) : inp.align[s] <= maxAlign[idx[r]]

(* At the end one member per contents is left, in the order of the input,  *)
(* and every relocation refers to a member that is left and has the        *)
(* contents of the one it named.                                           *)
RefsReachMembers ==
  phase = "done" =>
    /\ \A i, j \in DOMAIN members :
         i < j => /\ members[i] < members[j]
                  /\ Content(members[i]) # Content(members[j])
    /\ \A r \in Lits : /\ Content(refs[r]) = Content(r)
                       /\ \E i \in DOMAIN members : members[i] = refs[r]

(* Two literal pointers end up as one exactly when they point to equal     *)
(* contents, and a replacer is not itself replaced.                        *)
PointersMerged ==
  phase \in {"rewrite", "done"} =>
    \A p, q \in Ptrs :
      LET final(x) == IF ptrRep[x] = 0 THEN x ELSE ptrRep[x]
      IN  /\ (inp.pointers[p] # 0 /\ inp.pointers[q] # 0)
                => (final(p) = final(q)
                      <=> Content(inp.pointers[p]) = Content(inp.pointers[q]))
          /\ ptrRep[p] # 0 => ptrRep[ptrRep[p]] = 0

(* The right one of equal literals is kept, and relocations and literal    *)
(* pointers reach it.                                                      *)
LiteralsAreMerged == HighestPriorityOwns /\ RefsReachMembers /\ PointersMerged

(* Every insertion ends, although it spins on the marker of another, and   *)
(* the pass comes to its end.                                              *)
Terminates == <>(phase = "done")

(* docs/mold.md: the timing of thread scheduling does not affect the       *)
(* output, so which of the members with equal contents is kept, and with   *)
(* it the layout, is a function of the input.                              *)
OwnerIsDetermined ==
  phase # "literals" =>
    \A r \in Lits :
      LET best == {s \in Same(r) : ~ \E t \in Same(r) : Outranks(t, s)}
      IN  owner[idx[r]] = CHOOSE s \in best : \A t \in best : s <= t

(* The alignment that split_cstring_literals inferred for a literal holds  *)
(* for the literal that replaces it.                                       *)
AlignmentKept ==
  phase = "done" => \A r \in Lits : inp.align[r] <= inp.align[refs[r]]
=============================================================================
