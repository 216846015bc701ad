---------------------------- MODULE RegistryProofs ----------------------------
(***************************************************************************)
(* Proofs about ModelRegistry, for any set of writers and any number of    *)
(* records and checkpoints.  The invariant says how what a callback        *)
(* remembers fits the directory at each point of its way through           *)
(* register(), and how each record fits the one before it.                 *)
(***************************************************************************)
EXTENDS ModelRegistry, TLAPS

USE RegistryAssumption

Held == {"writing", "syncing"}
Active == {"ready", "waiting", "writing", "syncing"}

(* A callback c at the point `where`, with the versions vs.  Until it is   *)
(* used for a second fit it knows its tip's digest, run and iteration.     *)
Knows(c, vs) ==
  c.tip > 0 => /\ c.run = vs[c.tip].run
               /\ c.digest = vs[c.tip].digest
               /\ vs[c.tip].iter <= c.offset + c.iter

Fits(c, where, vs) ==
  /\ c.pinned =>
       /\ c.lineage
       /\ c.tip \in 0..Len(vs)
       /\ where = "adopting" => c.tip > 0 /\ c.iter = 0
       /\ where \in Active => c.parent = c.tip
       /\ where \in Active /\ c.first => Knows(c, vs)
       /\ where \in {"waiting", "writing"} /\ c.first /\ c.tip > 0
            => vs[c.tip].iter < c.offset + c.iter
       /\ where = "writing" => c.tip = Len(vs)
  /\ where = "adopting" => c.pinned
  /\ where = "syncing" =>
       /\ Len(vs) > 0
       /\ vs[Len(vs)].run = c.run
       /\ vs[Len(vs)].iter = c.offset + c.iter

(* A record and the one before it.                                         *)
Follows(vs, n) ==
  /\ vs[n].pinned => vs[n].lineage /\ vs[n].parent = n - 1
  /\ vs[n].pinned /\ vs[n].first /\ n > 1 =>
       /\ vs[n].parentDigest = vs[n - 1].digest
       /\ vs[n].run = vs[n - 1].run
       /\ vs[n].iter > vs[n - 1].iter

ReturnedSynced ==
  \A r \in returned : r[1] \in 1..synced /\ versions[r[1]] = r[2]

RInv ==
  /\ RegistryTypeOK
  /\ \A w \in Writers : Fits(cb[w], pc[w], versions)
  /\ \A n \in 1..Len(versions) : Follows(versions, n)
  /\ ReturnedSynced

-----------------------------------------------------------------------------
(* Types of the locals.                                                    *)
LEMMA NothingType == Nothing \in Callbacks /\ Off \in Pcs
BY DEF Nothing, Callbacks, Runs, Pcs, Off

LEMMA NothingFits ==
  ASSUME NEW vs \in Seq(Records)
  PROVE  Fits(Nothing, Off, vs) /\ Fits(Nothing, "waiting", vs)
BY DEF Fits, Nothing, Off, Active

(* The invariant holds initially.                                          *)
LEMMA RegistryInit == Init => RInv
<1> SUFFICES ASSUME Init PROVE RInv
  OBVIOUS
<1>1. RegistryTypeOK
  BY NothingType DEF Init, RegistryTypeOK, Off
<1>2. versions \in Seq(Records) /\ Len(versions) = 0
  BY DEF Init
<1>3. \A w \in Writers : Fits(cb[w], pc[w], versions)
  BY <1>2, NothingFits DEF Init
<1> QED
  BY <1>1, <1>2, <1>3 DEF RInv, Init, ReturnedSynced

(* A step of one writer that leaves the version files alone.               *)
LEMMA LocalKeeps ==
  ASSUME RInv, NEW w \in Writers, NEW c \in Callbacks, NEW where \in Pcs,
         cb' = [cb EXCEPT ![w] = c], pc' = [pc EXCEPT ![w] = where],
         UNCHANGED <<versions, made>>,
         synced' \in {synced, Len(versions)},
         lock' \in Writers \cup {NoOne},
         lock' = w <=> where \in Held,
         \A v \in Writers \ {w} : lock' = v <=> lock = v,
         Fits(c, where, versions),
         ReturnedSynced'
  PROVE  RInv'
<1>1. /\ versions \in Seq(Records) /\ synced \in 0..Len(versions) /\ made \in Nat
      /\ pc \in [Writers -> Pcs] /\ cb \in [Writers -> Callbacks]
      /\ \A v \in Writers : lock = v <=> pc[v] \in Held
  BY DEF RInv, RegistryTypeOK, Held
<1>2. /\ \A v \in Writers : pc'[v] = IF v = w THEN where ELSE pc[v]
      /\ \A v \in Writers : cb'[v] = IF v = w THEN c ELSE cb[v]
  BY <1>1
<1>3. synced' \in 0..Len(versions')
  BY <1>1
<1>4. \A v \in Writers : lock' = v <=> pc'[v] \in Held
  BY <1>1, <1>2
<1>5. RegistryTypeOK'
  BY <1>1, <1>3, <1>4 DEF RegistryTypeOK, Held
<1>6. \A v \in Writers : Fits(cb'[v], pc'[v], versions')
  BY <1>2 DEF RInv
<1>7. \A n \in 1..Len(versions') : Follows(versions', n)
  BY DEF RInv
<1> QED
  BY <1>5, <1>6, <1>7 DEF RInv

(* ... and returns nothing and does not sync.                              *)
LEMMA QuietKeeps ==
  ASSUME RInv, NEW w \in Writers, NEW c \in Callbacks, NEW where \in Pcs,
         cb' = [cb EXCEPT ![w] = c], pc' = [pc EXCEPT ![w] = where],
         UNCHANGED <<versions, synced, lock, returned, made>>,
         where \in Held <=> pc[w] \in Held,
         Fits(c, where, versions)
  PROVE  RInv'
<1>1. ReturnedSynced'
  BY DEF RInv, ReturnedSynced
<1>2. lock' \in Writers \cup {NoOne} /\ (lock' = w <=> where \in Held)
  BY DEF RInv, RegistryTypeOK, Held
<1> QED
  BY <1>1, <1>2, LocalKeeps

-----------------------------------------------------------------------------
(* Callbacks.                                                              *)
LEMMA AnotherFitFits ==
  ASSUME NEW vs \in Seq(Records), NEW c \in Callbacks, NEW where \in Active, Fits(c, where, vs)
  PROVE  AnotherFit(c) \in Callbacks /\ Fits(AnotherFit(c), "ready", vs)
BY DEF AnotherFit, Callbacks, Fits, Active

LEMMA FreshType ==
  ASSUME NEW w \in Writers, RInv
  PROVE  Fresh(w) \in Callbacks
BY DEF Fresh, Nothing, Callbacks, Runs, RInv, RegistryTypeOK

LEMMA CheckpointerKeeps ==
  ASSUME RInv, NEW w \in Writers, Checkpointer(w)
  PROVE  RInv'
<1> DEFINE c == [Fresh(w) EXCEPT !.pinned = TRUE, !.tip = Len(versions)]
           where == IF versions = <<>> THEN "ready" ELSE "adopting"
<1>1. /\ versions \in Seq(Records) /\ pc \in [Writers -> Pcs] /\ cb \in [Writers -> Callbacks]
  BY DEF RInv, RegistryTypeOK
<1>2. c \in Callbacks
  <2>1. Fresh(w) \in Callbacks /\ Len(versions) \in Nat
    BY <1>1, FreshType
  <2> QED
    BY <2>1 DEF Callbacks
<1>3. where \in Pcs /\ where \notin Held
  BY DEF Pcs, Held
<1>4. pc[w] \notin Held
  BY DEF Checkpointer, Free, Off, Held
<1>5. /\ c.pinned = TRUE /\ c.lineage = TRUE /\ c.tip = Len(versions) /\ c.iter = 0 /\ c.parent = 0
  BY DEF Fresh, Nothing
<1>6. versions = <<>> <=> Len(versions) = 0
  BY <1>1
<1>7. Fits(c, where, versions)
  BY <1>1, <1>5, <1>6 DEF Fits, Active, Knows
<1>8. /\ cb' = [cb EXCEPT ![w] = c] /\ pc' = [pc EXCEPT ![w] = where]
      /\ UNCHANGED <<versions, synced, lock, returned, made>>
  BY DEF Checkpointer, Goto, dir
<1> HIDE DEF c, where
<1> QED
  BY <1>2, <1>3, <1>4, <1>7, <1>8, QuietKeeps

(* The tip that is adopted is the one whose digest, run and iteration the  *)
(* callback then knows.                                                    *)
LEMMA AdoptKeeps ==
  ASSUME RInv, NEW w \in Writers, Adopt(w)
  PROVE  RInv'
<1> DEFINE n == cb[w].tip
           c == [cb[w] EXCEPT !.run = versions[n].run, !.offset = versions[n].iter,
                              !.parent = n, !.digest = versions[n].digest]
<1>1. /\ versions \in Seq(Records) /\ pc \in [Writers -> Pcs] /\ cb \in [Writers -> Callbacks]
      /\ cb[w] \in Callbacks
  BY DEF RInv, RegistryTypeOK
<1>2. pc[w] = "adopting" /\ pc[w] \notin Held
  BY DEF Adopt, Held
<1>3. Fits(cb[w], "adopting", versions)
  BY <1>2 DEF RInv
<1>4. UNCHANGED <<versions, synced, lock, returned, made>>
  BY DEF Adopt, dir
<1>5. ASSUME cb' = [cb EXCEPT ![w] = Nothing], pc' = [pc EXCEPT ![w] = Off]
      PROVE  RInv'
  <2>1. Fits(Nothing, Off, versions) /\ Off \notin Held
    BY <1>1, NothingFits DEF Off, Held
  <2> QED
    BY <1>2, <1>4, <1>5, <2>1, NothingType, QuietKeeps
<1>6. CASE ~VerifyChain
  BY <1>5, <1>6 DEF Adopt, Finish, Goto
<1>7. CASE VerifyChain
  <2>1. cb' = [cb EXCEPT ![w] = c] /\ pc' = [pc EXCEPT ![w] = "ready"]
    BY <1>1, <1>7 DEF Adopt, Goto
  <2>2. cb[w].pinned /\ n \in 1..Len(versions) /\ cb[w].iter = 0 /\ cb[w].lineage
    BY <1>1, <1>3 DEF Fits
  <2>3. versions[n] \in Records
    BY <1>1, <2>2
  <2>4. c \in Callbacks /\ c.pinned /\ c.lineage /\ c.tip = n /\ c.parent = n /\ c.iter = 0
        /\ c.run = versions[n].run /\ c.digest = versions[n].digest
        /\ c.offset = versions[n].iter
    BY <1>1, <2>2, <2>3 DEF Callbacks, Records
  <2> HIDE DEF c, n
  <2>5. Fits(c, "ready", versions)
    <3>1. versions[n].iter \in Nat
      BY <2>3 DEF Records
    <3>2. versions[n].iter <= c.offset + c.iter
      BY <2>4, <3>1
    <3> QED
      BY <2>2, <2>4, <3>2 DEF Fits, Knows
  <2>6. "ready" \in Pcs /\ "ready" \notin Held
    BY DEF Pcs, Held
  <2> QED
    BY <1>2, <1>4, <2>1, <2>4, <2>5, <2>6, QuietKeeps
<1> QED
  BY <1>6, <1>7

(* Unlinked and Register: no condition on the tip.                         *)
LEMMA UnpinnedKeeps ==
  ASSUME RInv, NEW w \in Writers, Unlinked(w) \/ Register(w)
  PROVE  RInv'
<1>1. pc[w] \notin Held /\ UNCHANGED <<versions, synced, lock, returned, made>>
  BY DEF Unlinked, Register, Free, Off, Held, dir
<1>2. "ready" \in Pcs /\ "waiting" \in Pcs /\ "ready" \notin Held /\ "waiting" \notin Held
  BY DEF Pcs, Held
<1>3. versions \in Seq(Records)
  BY DEF RInv, RegistryTypeOK
<1>4. CASE Unlinked(w)
  <2>1. Fits(Fresh(w), "ready", versions)
    BY DEF Fits, Fresh, Nothing
  <2>2. cb' = [cb EXCEPT ![w] = Fresh(w)] /\ pc' = [pc EXCEPT ![w] = "ready"]
    BY <1>4 DEF Unlinked, Goto
  <2> QED
    BY <1>1, <1>2, <2>1, <2>2, FreshType, QuietKeeps
<1>5. CASE Register(w)
  <2>1. cb' = [cb EXCEPT ![w] = Nothing] /\ pc' = [pc EXCEPT ![w] = "waiting"]
    BY <1>5 DEF Register, Goto
  <2> QED
    BY <1>1, <1>2, <1>3, <2>1, NothingFits, NothingType, QuietKeeps
<1> QED
  BY <1>4, <1>5

(* The next iteration of a callback.                                       *)
LEMMA NextIterType ==
  ASSUME NEW c \in Callbacks
  PROVE  [c EXCEPT !.iter = c.iter + 1] \in Callbacks
BY DEF Callbacks

LEMMA SaveKeeps ==
  ASSUME RInv, NEW w \in Writers, Save(w)
  PROVE  RInv'
<1> DEFINE c == [cb[w] EXCEPT !.iter = cb[w].iter + 1]
<1>1. /\ versions \in Seq(Records) /\ pc \in [Writers -> Pcs] /\ cb \in [Writers -> Callbacks]
      /\ cb[w] \in Callbacks
  BY DEF RInv, RegistryTypeOK
<1>2. /\ pc[w] = "ready" /\ pc[w] \notin Held
      /\ UNCHANGED <<versions, synced, lock, returned, made>>
      /\ pc' = [pc EXCEPT ![w] = "waiting"]
  BY DEF Save, Goto, Held, dir
<1>3. cb' = [cb EXCEPT ![w] = c]
  BY <1>1 DEF Save
<1>4. /\ c \in Callbacks /\ c.pinned = cb[w].pinned /\ c.first = cb[w].first
      /\ c.lineage = cb[w].lineage /\ c.tip = cb[w].tip /\ c.parent = cb[w].parent
      /\ c.run = cb[w].run /\ c.digest = cb[w].digest /\ c.offset = cb[w].offset
      /\ c.iter = cb[w].iter + 1 /\ c.offset \in Nat /\ cb[w].iter \in Nat
      /\ c.tip \in Nat
  <2>1. c \in Callbacks
    BY <1>1, NextIterType
  <2>2. c.pinned = cb[w].pinned
    BY <1>1 DEF Callbacks
  <2>6. c.first = cb[w].first
    BY <1>1 DEF Callbacks
  <2>7. c.lineage = cb[w].lineage
    BY <1>1 DEF Callbacks
  <2>3. c.tip = cb[w].tip /\ c.parent = cb[w].parent /\ c.run = cb[w].run
    BY <1>1 DEF Callbacks
  <2>4. c.digest = cb[w].digest /\ c.offset = cb[w].offset /\ c.iter = cb[w].iter + 1
    BY <1>1 DEF Callbacks
  <2>5. cb[w].offset \in Nat /\ cb[w].iter \in Nat /\ cb[w].tip \in Nat
    BY <1>1 DEF Callbacks
  <2> QED
    BY <2>1, <2>2, <2>3, <2>4, <2>5, <2>6, <2>7
<1>5. Fits(cb[w], "ready", versions)
  BY <1>2 DEF RInv
<1>6. c.tip > 0 /\ c.pinned => versions[c.tip].iter \in Nat
  <2> SUFFICES ASSUME c.tip > 0, c.pinned PROVE versions[c.tip].iter \in Nat
    OBVIOUS
  <2>1. c.tip \in 1..Len(versions)
    BY <1>1, <1>4, <1>5 DEF Fits
  <2>2. versions[c.tip] \in Records
    BY <1>1, <2>1
  <2> QED
    BY <2>2 DEF Records
<1> HIDE DEF c
<1>7. Fits(c, "waiting", versions)
  BY <1>1, <1>4, <1>5, <1>6 DEF Fits, Knows, Active
<1>8. "waiting" \in Pcs /\ "waiting" \notin Held
  BY DEF Pcs, Held
<1> QED
  BY <1>2, <1>3, <1>4, <1>7, <1>8, QuietKeeps

(* A callback that goes to another fit claims no more what it knew.        *)
LEMMA RefitKeeps ==
  ASSUME RInv, NEW w \in Writers, Refit(w)
  PROVE  RInv'
<1>1. versions \in Seq(Records) /\ pc \in [Writers -> Pcs] /\ cb[w] \in Callbacks
  BY DEF RInv, RegistryTypeOK
<1>2. /\ pc[w] = "ready" /\ pc[w] \notin Held
      /\ UNCHANGED <<versions, synced, lock, returned, made, pc>>
      /\ cb' = [cb EXCEPT ![w] = AnotherFit(cb[w])]
  BY DEF Refit, Held, dir
<1>3. "ready" \in Pcs /\ "ready" \in Active /\ "ready" \notin Held
  BY DEF Pcs, Active, Held
<1>4. Fits(cb[w], "ready", versions)
  BY <1>2 DEF RInv
<1>5. AnotherFit(cb[w]) \in Callbacks /\ Fits(AnotherFit(cb[w]), "ready", versions)
  BY <1>1, <1>3, <1>4, AnotherFitFits
<1>6. pc' = [pc EXCEPT ![w] = "ready"]
  BY <1>1, <1>2
<1> QED
  BY <1>2, <1>3, <1>5, <1>6, QuietKeeps

-----------------------------------------------------------------------------
(* register().                                                             *)

(* An exception leaves a callback that only another fit can use, or ends   *)
(* the use of the registry.                                                *)
LEMMA RaiseKeeps ==
  ASSUME RInv, NEW w \in Writers, NEW c,
         AnotherFit(c) \in Callbacks, Fits(AnotherFit(c), "ready", versions), Raise(w, c),
         UNCHANGED <<versions, made>>, synced' \in {synced, Len(versions)},
         lock' \in Writers \cup {NoOne}, lock' # w,
         \A v \in Writers \ {w} : lock' = v <=> lock = v,
         ReturnedSynced'
  PROVE  RInv'
<1>1. versions \in Seq(Records)
  BY DEF RInv, RegistryTypeOK
<1>2. CASE cb[w].lineage
  <2>1. pc' = [pc EXCEPT ![w] = "ready"] /\ cb' = [cb EXCEPT ![w] = AnotherFit(c)]
    BY <1>2 DEF Raise, Goto
  <2>2. "ready" \in Pcs /\ "ready" \notin Held
    BY DEF Pcs, Held
  <2> QED
    BY <2>1, <2>2, LocalKeeps
<1>3. CASE ~cb[w].lineage
  <2>1. pc' = [pc EXCEPT ![w] = Off] /\ cb' = [cb EXCEPT ![w] = Nothing]
    BY <1>3 DEF Raise, Finish, Goto
  <2>2. Fits(Nothing, Off, versions) /\ Off \notin Held
    BY <1>1, NothingFits DEF Off, Held
  <2> QED
    BY <2>1, <2>2, NothingType, LocalKeeps
<1> QED
  BY <1>2, <1>3

(* The lock is taken when the tip is the one that was adopted.             *)
LEMMA AllocateKeeps ==
  ASSUME RInv, NEW w \in Writers, Allocate(w)
  PROVE  RInv'
<1>1. /\ versions \in Seq(Records) /\ pc \in [Writers -> Pcs] /\ cb \in [Writers -> Callbacks]
      /\ cb[w] \in Callbacks
  BY DEF RInv, RegistryTypeOK
<1>2. /\ pc[w] = "waiting" /\ lock = NoOne /\ lock' = w /\ pc' = [pc EXCEPT ![w] = "writing"]
      /\ ~Moved(w) /\ UNCHANGED <<versions, synced, cb, returned, made>>
  BY DEF Allocate, Goto, dir
<1>3. cb' = [cb EXCEPT ![w] = cb[w]]
  BY <1>1, <1>2
<1>4. Fits(cb[w], "waiting", versions)
  BY <1>2 DEF RInv
<1>5. Fits(cb[w], "writing", versions)
  BY <1>1, <1>2, <1>4 DEF Fits, Moved, Active
<1>6. "writing" \in Pcs /\ "writing" \in Held
  BY DEF Pcs, Held
<1>7. ReturnedSynced'
  BY <1>2 DEF RInv, ReturnedSynced
<1> QED
  BY <1>1, <1>2, <1>3, <1>5, <1>6, <1>7, LocalKeeps

LEMMA RefuseKeeps ==
  ASSUME RInv, NEW w \in Writers, Refuse(w)
  PROVE  RInv'
<1>1. /\ cb[w] \in Callbacks /\ pc[w] = "waiting" /\ lock = NoOne /\ Raise(w, cb[w])
      /\ UNCHANGED <<versions, synced, lock, returned, made>>
  BY DEF RInv, RegistryTypeOK, Refuse, dir
<1>2. Fits(cb[w], "waiting", versions) /\ "waiting" \in Active /\ versions \in Seq(Records)
  BY <1>1 DEF RInv, RegistryTypeOK, Active
<1>3. ReturnedSynced'
  BY <1>1 DEF RInv, ReturnedSynced
<1>4. AnotherFit(cb[w]) \in Callbacks /\ Fits(AnotherFit(cb[w]), "ready", versions)
  BY <1>1, <1>2, AnotherFitFits
<1> QED
  BY <1>1, <1>3, <1>4, RaiseKeeps

(* The holder of the lock is alone between the lock and the unlock.        *)
LEMMA Alone ==
  ASSUME RInv, NEW w \in Writers, pc[w] \in Held
  PROVE  lock = w /\ w # NoOne /\ \A v \in Writers \ {w} : pc[v] \notin Held /\ lock # v
BY DEF RInv, RegistryTypeOK, Held

LEMMA WriteFailsKeeps ==
  ASSUME RInv, NEW w \in Writers, WriteFails(w) \/ SyncFails(w)
  PROVE  RInv'
<1>1. /\ cb[w] \in Callbacks /\ pc[w] \in Held /\ lock' = NoOne /\ Raise(w, cb[w])
      /\ UNCHANGED <<versions, returned, made>> /\ synced' \in {synced, Len(versions)}
  BY DEF RInv, RegistryTypeOK, WriteFails, SyncFails, Unlock, dir, Held
<1>2. Fits(cb[w], pc[w], versions) /\ pc[w] \in Active
  BY <1>1 DEF RInv, Active, Held
<1>3. synced \in 0..Len(versions) /\ versions \in Seq(Records)
  BY DEF RInv, RegistryTypeOK
<1>4. ReturnedSynced'
  BY <1>1, <1>3 DEF RInv, ReturnedSynced
<1>5. lock = w /\ w # NoOne /\ \A v \in Writers \ {w} : lock # v
  BY <1>1, Alone
<1>6. AnotherFit(cb[w]) \in Callbacks /\ Fits(AnotherFit(cb[w]), "ready", versions)
  BY <1>1, <1>2, <1>3, AnotherFitFits
<1> QED
  BY <1>1, <1>4, <1>5, <1>6, RaiseKeeps

(* A process that dies gives its lock back.                                *)
LEMMA DieKeeps ==
  ASSUME RInv, NEW w \in Writers, Die(w)
  PROVE  RInv'
<1>1. /\ pc' = [pc EXCEPT ![w] = Off] /\ cb' = [cb EXCEPT ![w] = Nothing]
      /\ UNCHANGED <<versions, synced, returned, made>>
      /\ lock' = IF lock = w THEN NoOne ELSE lock
  BY DEF Die, Finish, Goto, dir
<1>2. versions \in Seq(Records) /\ lock \in Writers \cup {NoOne}
  BY DEF RInv, RegistryTypeOK
<1>3. Fits(Nothing, Off, versions) /\ Off \notin Held
  BY <1>2, NothingFits DEF Off, Held
<1>4. ReturnedSynced'
  BY <1>1 DEF RInv, ReturnedSynced
<1>5. /\ lock' \in Writers \cup {NoOne} /\ lock' # w
      /\ \A v \in Writers \ {w} : lock' = v <=> lock = v
  BY <1>1, <1>2
<1> QED
  BY <1>1, <1>3, <1>4, <1>5, NothingType, LocalKeeps

-----------------------------------------------------------------------------
(* Appending a record changes nothing of what a callback without the lock  *)
(* knows, nor the records before it.                                       *)
LEMMA AppendFits ==
  ASSUME NEW vs \in Seq(Records), NEW r \in Records, NEW c \in Callbacks, NEW where \in Pcs,
         where \notin Held, Fits(c, where, vs)
  PROVE  Fits(c, where, Append(vs, r))
<1> DEFINE new == Append(vs, r)
<1>1. Len(new) = Len(vs) + 1 /\ Len(vs) \in Nat /\ \A n \in 1..Len(vs) : new[n] = vs[n]
  OBVIOUS
<1>2. where # "syncing" /\ where # "writing"
  BY DEF Held
<1>3. c.tip \in Nat
  BY DEF Callbacks
<1> HIDE DEF new
<1>4. c.pinned => c.tip \in 0..Len(new)
  BY <1>1 DEF Fits
<1>5. c.pinned /\ c.tip > 0 => new[c.tip] = vs[c.tip]
  BY <1>1, <1>3 DEF Fits
<1>6. Fits(c, where, new)
  BY <1>2, <1>3, <1>4, <1>5 DEF Fits, Knows
<1> QED
  BY <1>6 DEF new

LEMMA AppendFollows ==
  ASSUME NEW vs \in Seq(Records), NEW r \in Records, NEW n \in 1..Len(vs), Follows(vs, n)
  PROVE  Follows(Append(vs, r), n)
<1>1. Append(vs, r)[n] = vs[n] /\ (n > 1 => Append(vs, r)[n - 1] = vs[n - 1])
  OBVIOUS
<1> QED
  BY <1>1 DEF Follows

(* The holder of the lock appends the version that follows its tip.        *)
LEMMA LinkKeeps ==
  ASSUME RInv, NEW w \in Writers, Link(w)
  PROVE  RInv'
<1> DEFINE r == Record(w)
           L == Len(versions)
<1>1. /\ versions \in Seq(Records) /\ pc \in [Writers -> Pcs] /\ cb \in [Writers -> Callbacks]
      /\ cb[w] \in Callbacks /\ made \in Nat /\ synced \in 0..L /\ L \in Nat
      /\ lock \in Writers \cup {NoOne}
  BY DEF RInv, RegistryTypeOK
<1>2. /\ pc[w] = "writing" /\ versions' = Append(versions, r) /\ made' = made + 1
      /\ pc' = [pc EXCEPT ![w] = "syncing"] /\ UNCHANGED <<synced, lock, cb, returned>>
  BY DEF Link, Goto
<1>3. /\ r.lineage = cb[w].lineage /\ r.pinned = cb[w].pinned /\ r.first = cb[w].first
      /\ r.run = cb[w].run /\ r.iter = cb[w].offset + cb[w].iter /\ r.parent = cb[w].parent
      /\ r.parentDigest = cb[w].digest
  BY DEF Record
<1>4. r \in Records
  BY <1>1 DEF Record, Records, Callbacks
<1> HIDE DEF r
<1>5. /\ versions' \in Seq(Records) /\ Len(versions') = L + 1 /\ versions'[L + 1] = r
      /\ \A n \in 1..L : versions'[n] = versions[n]
  BY <1>1, <1>2, <1>4
<1>6. pc[w] \in Held /\ \A v \in Writers \ {w} : pc[v] \notin Held
  BY <1>2, Alone DEF Held
<1>7. \A v \in Writers : pc'[v] = IF v = w THEN "syncing" ELSE pc[v]
  BY <1>1, <1>2
<1>8. RegistryTypeOK'
  <2>1. pc' \in [Writers -> Pcs]
    BY <1>1, <1>2 DEF Pcs
  <2>2. synced' \in 0..Len(versions') /\ made' \in Nat
    BY <1>1, <1>2, <1>5
  <2>3. \A v \in Writers : lock' = v <=> pc'[v] \in {"writing", "syncing"}
    BY <1>2, <1>7 DEF RInv, RegistryTypeOK
  <2> QED
    BY <1>1, <1>2, <1>5, <2>1, <2>2, <2>3 DEF RegistryTypeOK
<1>9. Fits(cb[w], "writing", versions)
  BY <1>2 DEF RInv
<1>10. cb[w].pinned => cb[w].lineage /\ cb[w].tip = L /\ cb[w].parent = L
  BY <1>9 DEF Fits, Active
<1>11. cb[w].pinned /\ cb[w].first /\ L > 0 =>
         /\ cb[w].run = versions[L].run /\ cb[w].digest = versions[L].digest
         /\ versions[L].iter < cb[w].offset + cb[w].iter
         /\ versions[L].iter <= cb[w].offset + cb[w].iter
  BY <1>9, <1>10 DEF Fits, Active, Knows
<1>12. L > 0 => versions'[L] = versions[L]
  BY <1>1, <1>5
<1>13. ASSUME NEW v \in Writers
       PROVE  Fits(cb'[v], pc'[v], versions')
  <2>1. CASE v = w
    <3>1. Fits(cb[w], "syncing", versions')
      BY <1>1, <1>3, <1>5, <1>10, <1>11, <1>12 DEF Fits, Knows
    <3> QED
      BY <1>2, <1>7, <2>1, <3>1
  <2>2. CASE v # w
    BY <1>1, <1>2, <1>4, <1>6, <1>7, <2>2, AppendFits DEF RInv
  <2> QED
    BY <2>1, <2>2
<1>14. ASSUME NEW n \in 1..Len(versions')
       PROVE  Follows(versions', n)
  <2>1. CASE n \in 1..L
    BY <1>1, <1>2, <1>4, <2>1, AppendFollows DEF RInv
  <2>2. CASE n = L + 1
    <3>1. versions'[n] = r /\ n - 1 = L /\ (n > 1 => L > 0 /\ versions'[n - 1] = versions[L])
      BY <1>1, <1>5, <1>12, <2>2
    <3> QED
      BY <1>3, <1>10, <1>11, <3>1 DEF Follows
  <2> QED
    BY <1>1, <1>5, <2>1, <2>2
<1>15. ReturnedSynced'
  BY <1>1, <1>2, <1>5 DEF RInv, ReturnedSynced
<1> QED
  BY <1>8, <1>13, <1>14, <1>15 DEF RInv

(* The version that is returned is synced, and is the callback's new tip.  *)
LEMMA SyncKeeps ==
  ASSUME RInv, NEW w \in Writers, Sync(w)
  PROVE  RInv'
<1> DEFINE L == Len(versions)
<1>1. /\ versions \in Seq(Records) /\ cb[w] \in Callbacks /\ synced \in 0..L /\ L \in Nat
  BY DEF RInv, RegistryTypeOK
<1>2. /\ pc[w] = "syncing" /\ pc[w] \in Held /\ synced' = L /\ lock' = NoOne
      /\ returned' = returned \cup {<<L, versions[L]>>} /\ UNCHANGED <<versions, made>>
  BY DEF Sync, Unlock, Return, Held
<1>3. Fits(cb[w], "syncing", versions)
  BY <1>2 DEF RInv
<1>4. L > 0 /\ versions[L].run = cb[w].run /\ versions[L].iter = cb[w].offset + cb[w].iter
      /\ (cb[w].pinned => cb[w].lineage)
  BY <1>3 DEF Fits
<1>5. ReturnedSynced'
  BY <1>1, <1>2, <1>4 DEF RInv, ReturnedSynced
<1>6. versions[L] \in Records
  BY <1>1, <1>4
<1>7. lock = w /\ w # NoOne /\ \A v \in Writers \ {w} : lock # v
  BY <1>2, Alone
<1>8. CASE pc' = [pc EXCEPT ![w] = "ready"] /\ cb' = [cb EXCEPT ![w] = Remembered(w)]
  <2> DEFINE c == Remembered(w)
  <2>1. c \in Callbacks
    BY <1>1, <1>6 DEF Remembered, Written, Callbacks, Records
  <2>2. c.pinned = cb[w].pinned /\ c.lineage = cb[w].lineage /\ c.run = cb[w].run
    BY <1>1 DEF Remembered, Written, Callbacks
  <2>3. c.offset = cb[w].offset /\ c.iter = cb[w].iter
    BY <1>1 DEF Remembered, Written, Callbacks
  <2>4. c.parent = L /\ c.digest = versions[L].digest /\ (cb[w].pinned => c.tip = L)
    BY <1>1 DEF Remembered, Written, Callbacks
  <2>5. versions[L].iter \in Nat
    BY <1>6 DEF Records
  <2> HIDE DEF c
  <2>6. Fits(c, "ready", versions)
    BY <1>1, <1>4, <2>2, <2>3, <2>4, <2>5 DEF Fits, Knows
  <2>7. "ready" \in Pcs /\ "ready" \notin Held
    BY DEF Pcs, Held
  <2>8. cb' = [cb EXCEPT ![w] = c]
    BY <1>8 DEF c
  <2> QED
    BY <1>2, <1>5, <1>7, <1>8, <2>1, <2>6, <2>7, <2>8, LocalKeeps
<1>9. CASE Raise(w, Written(w))
  <2> DEFINE c == AnotherFit(Written(w))
  <2>1. c \in Callbacks
    BY <1>1 DEF AnotherFit, Written, Callbacks
  <2>2. c.pinned = cb[w].pinned /\ c.lineage = cb[w].lineage /\ c.first = FALSE
    BY <1>1 DEF AnotherFit, Written, Callbacks
  <2>3. c.parent = L /\ (cb[w].pinned => c.tip = L)
    BY <1>1 DEF AnotherFit, Written, Callbacks
  <2>4. Fits(c, "ready", versions)
    <3> HIDE DEF c
    <3> QED
      BY <1>1, <1>4, <2>2, <2>3 DEF Fits
  <2> QED
    BY <1>2, <1>5, <1>7, <1>9, <2>1, <2>4, RaiseKeeps
<1> QED
  BY <1>8, <1>9 DEF Sync, Goto

-----------------------------------------------------------------------------
(* A loss of power takes no version that was synced.                       *)
LEMMA PowerLossKeeps ==
  ASSUME RInv, PowerLoss
  PROVE  RInv'
<1>1. PICK k \in synced..Len(versions) : versions' = SubSeq(versions, 1, k) /\ synced' = k
  BY DEF PowerLoss
<1>2. /\ versions \in Seq(Records) /\ synced \in 0..Len(versions) /\ made \in Nat
      /\ Len(versions) \in Nat /\ k \in 0..Len(versions) /\ synced \in Nat /\ synced <= k
  BY DEF RInv, RegistryTypeOK
<1>3. /\ lock' = NoOne /\ pc' = [w \in Writers |-> Off] /\ cb' = [w \in Writers |-> Nothing]
      /\ UNCHANGED <<returned, made>>
  BY DEF PowerLoss
<1>4. /\ versions' \in Seq(Records) /\ Len(versions') = k
      /\ \A n \in 1..k : versions'[n] = versions[n]
  BY <1>1, <1>2
<1>5. RegistryTypeOK'
  <2>1. pc' \in [Writers -> Pcs] /\ cb' \in [Writers -> Callbacks]
    BY <1>3, NothingType
  <2>2. \A w \in Writers : lock' = w <=> pc'[w] \in {"writing", "syncing"}
    BY <1>3 DEF Off
  <2>3. synced' \in 0..Len(versions')
    BY <1>1, <1>2, <1>4
  <2> QED
    BY <1>2, <1>3, <1>4, <2>1, <2>2, <2>3 DEF RegistryTypeOK
<1>6. \A w \in Writers : Fits(cb'[w], pc'[w], versions')
  BY <1>3, <1>4, NothingFits
<1>7. ASSUME NEW n \in 1..Len(versions')
      PROVE  Follows(versions', n)
  <2>1. Follows(versions, n)
    BY <1>2, <1>4 DEF RInv
  <2>2. versions'[n] = versions[n] /\ (n > 1 => versions'[n - 1] = versions[n - 1])
    BY <1>2, <1>4
  <2> QED
    BY <2>1, <2>2 DEF Follows
<1>8. ReturnedSynced'
  BY <1>1, <1>2, <1>3, <1>4 DEF RInv, ReturnedSynced
<1> QED
  BY <1>5, <1>6, <1>7, <1>8 DEF RInv

(* Every step keeps the invariant.                                         *)
LEMMA RegistryStep == RInv /\ [Next]_vars => RInv'
<1> SUFFICES ASSUME RInv, [Next]_vars PROVE RInv'
  OBVIOUS
<1>1. CASE UNCHANGED vars
  BY <1>1 DEF vars, dir, RInv, RegistryTypeOK, ReturnedSynced
<1>2. CASE PowerLoss
  BY <1>2, PowerLossKeeps
<1>3. ASSUME NEW w \in Writers,
             \/ Checkpointer(w) \/ Adopt(w) \/ Unlinked(w) \/ Save(w) \/ Refit(w) \/ Register(w)
             \/ Allocate(w) \/ Refuse(w) \/ Link(w) \/ WriteFails(w) \/ Sync(w) \/ SyncFails(w)
             \/ Die(w)
      PROVE  RInv'
  BY <1>3, CheckpointerKeeps, AdoptKeeps, UnpinnedKeeps, SaveKeeps, RefitKeeps, AllocateKeeps,
     RefuseKeeps, LinkKeeps, WriteFailsKeeps, SyncKeeps, DieKeeps
<1> QED
  BY <1>1, <1>2, <1>3 DEF Next

LEMMA RegistryInvariant == Spec => []RInv
BY RegistryInit, RegistryStep, PTL DEF Spec

-----------------------------------------------------------------------------
(* Types, and who is between the lock and the unlock.                      *)
THEOREM RegistryTypes == Spec => []RegistryTypeOK
<1>1. RInv => RegistryTypeOK
  BY DEF RInv
<1> QED
  BY <1>1, RegistryInvariant, PTL

(* A conditional write extends exactly the version it named, whatever the  *)
(* other writers do and whoever dies, fails or loses power: register()     *)
(* with expected_tip never makes two siblings.                             *)
THEOREM ConditionalWritesLink == Spec => []NoSiblings
<1>1. RInv => NoSiblings
  BY DEF RInv, Follows, NoSiblings
<1> QED
  BY <1>1, RegistryInvariant, PTL

(* What resuming callbacks alone have written, each for one fit, passes    *)
(* verify_chain: the digest, run and iteration that a callback remembers   *)
(* stay those of the version it extends.                                   *)
THEOREM ResumedLineageVerifies == Spec => []LineageVerifies
<1>1. ASSUME RInv, versions # <<>>,
             \A n \in 1..Len(versions) : versions[n].pinned /\ versions[n].first
      PROVE  VerifyChain
  <2>1. ASSUME NEW n \in 1..Len(versions)
        PROVE  Linked(n)
    <3>1. Follows(versions, n) /\ versions[n].pinned /\ versions[n].first
      BY <1>1 DEF RInv
    <3>2. n \in Nat /\ (n # 1 => n > 1)
      OBVIOUS
    <3> QED
      BY <3>1, <3>2 DEF Follows, Linked
  <2> QED
    BY <1>1, <2>1 DEF VerifyChain
<1>2. RInv => LineageVerifies
  BY <1>1 DEF LineageVerifies
<1> QED
  BY <1>2, RegistryInvariant, PTL

(* A version that register() returned stays in the directory as it was     *)
(* written, through crashes of processes and losses of power: it is synced *)
(* before it is returned, and no number is used again.                     *)
THEOREM ReturnedVersionsSurvive == Spec => []ReturnedSurvives
<1>1. RInv => ReturnedSurvives
  <2> SUFFICES ASSUME RInv, NEW r \in returned
               PROVE  r[1] \in 1..Len(versions) /\ versions[r[1]] = r[2]
    BY DEF ReturnedSurvives
  <2>1. synced \in 0..Len(versions) /\ Len(versions) \in Nat
    BY DEF RInv, RegistryTypeOK
  <2> QED
    BY <2>1 DEF RInv, ReturnedSynced
<1> QED
  BY <1>1, RegistryInvariant, PTL

=============================================================================
