--------------------- MODULE PublisherDurabilityProofs ---------------------
(***************************************************************************)
(* What a power loss leaves of a publication root, for chains of any length*)
(* and any number of kills between two losses, on a file system whose      *)
(* entries reach the disk in the order of the calls.  The inductive        *)
(* invariant speaks of every prefix of the pending changes, because a power*)
(* loss may keep any of them: each leaves a root that loads, no older than *)
(* what was promised.                                                      *)
(***************************************************************************)
EXTENDS PublisherDurability, TLAPS

\* A root that loads, at a version that is not before v.
Complete(fs, v) ==
    /\ \A e \in Entries : fs[e] # 0 => Reachable(fs, e)
    /\ Loads(fs, fs[Latest])
    /\ fs[Alias] # 0 => Reachable(fs, Snapshot(fs[Alias]))
    /\ fs[Latest] <= fs[Alias]
    /\ v <= fs[Latest]

\* Whatever number of these changes a power loss keeps.
AllComplete(fs, ws, v) ==
    \A n \in 0 .. Len(ws) : Complete(AfterSome(fs, ws, 1 .. n), v)

AlwaysComplete == AllComplete(disk, pending, promised)

\* What fs becomes with all of these changes.
Whole(fs, ws) == AfterSome(fs, ws, 1 .. Len(ws))

Done(i) == i < step \/ (i = step /\ replaced)

CallIsCurrent ==
    version # 0 =>
        /\ version \in {Memory[Latest], Memory[Latest] + 1}
        /\ \A i \in 1 .. 4 : Done(i) => Memory[Plan(version)[i].entry] = version

ReplacedIsOfCall == replaced => version # 0 /\ step <= 4

\* Only a call that was killed before its sync leaves a change that no sync covers.
OnlyKilledLeavePending == ~orphaned /\ ~replaced => pending = <<>>

IInv ==
    /\ TypeOK
    /\ AlwaysComplete
    /\ CallIsCurrent
    /\ ReplacedIsOfCall
    /\ OnlyKilledLeavePending
----------------------------------------------------------------------------
(***************************************************************************)
(* The entries, and the directories on the way to each.                    *)
(***************************************************************************)
LEMMA EntriesDiffer ==
    ASSUME NEW u \in Nat, NEW v \in Nat
    PROVE  /\ Snapshot(v) = Snapshot(u) <=> u = v
           /\ Manifest(v) = Manifest(u) <=> u = v
           /\ Snapshot(v) \notin {FrontiersDir, FrontierDir, PublicationsDir, Alias, Latest}
           /\ Manifest(v) \notin {FrontiersDir, FrontierDir, PublicationsDir, Alias, Latest}
           /\ Snapshot(v) # Manifest(u)
           /\ FrontiersDir \notin {FrontierDir, PublicationsDir, Alias, Latest}
           /\ FrontierDir \notin {PublicationsDir, Alias, Latest}
           /\ PublicationsDir \notin {Alias, Latest}
           /\ Alias # Latest
BY DEF Snapshot, Manifest, FrontiersDir, FrontierDir, PublicationsDir, Alias,
       Latest, Entry

(***************************************************************************)
(* The directories on the way to each entry, outermost first               *)
(* (_ensure_parent).                                                       *)
(***************************************************************************)
LEMMA ParentsAre ==
    /\ Parents(FrontiersDir) = <<>>
    /\ Parents(FrontierDir) = <<FrontiersDir>>
    /\ Parents(PublicationsDir) = <<>>
    /\ Parents(Latest) = <<>>
    /\ Parents(Alias) = <<FrontiersDir, FrontierDir>>
    /\ \A v : Parents(Snapshot(v)) = <<FrontiersDir, FrontierDir>>
    /\ \A v : Parents(Manifest(v)) = <<PublicationsDir>>
BY DEF Parents, Snapshot, Manifest, FrontiersDir, FrontierDir, PublicationsDir,
       Alias, Latest, Entry

(***************************************************************************)
(* An entry can be looked up when it and its directories are there.        *)
(***************************************************************************)
LEMMA ReachableIs ==
    ASSUME NEW fs
    PROVE  /\ Reachable(fs, FrontiersDir) <=> fs[FrontiersDir] # 0
           /\ Reachable(fs, FrontierDir)
                  <=> fs[FrontierDir] # 0 /\ fs[FrontiersDir] # 0
           /\ Reachable(fs, PublicationsDir) <=> fs[PublicationsDir] # 0
           /\ Reachable(fs, Latest) <=> fs[Latest] # 0
           /\ Reachable(fs, Alias)
                  <=> fs[Alias] # 0 /\ fs[FrontiersDir] # 0 /\ fs[FrontierDir] # 0
           /\ \A v : Reachable(fs, Snapshot(v))
                  <=> fs[Snapshot(v)] # 0 /\ fs[FrontiersDir] # 0 /\ fs[FrontierDir] # 0
           /\ \A v : Reachable(fs, Manifest(v))
                  <=> fs[Manifest(v)] # 0 /\ fs[PublicationsDir] # 0
<1>1. \A e : Parents(e) = <<>> => (Reachable(fs, e) <=> fs[e] # 0)
  BY DEF Reachable
<1>2. \A e, d : Parents(e) = <<d>> => (Reachable(fs, e) <=> fs[e] # 0 /\ fs[d] # 0)
  BY DEF Reachable
<1>3. \A e, c, d : Parents(e) = <<c, d>>
          => (Reachable(fs, e) <=> fs[e] # 0 /\ fs[c] # 0 /\ fs[d] # 0)
  <2> SUFFICES ASSUME NEW e, NEW c, NEW d, Parents(e) = <<c, d>>
               PROVE  Reachable(fs, e) <=> fs[e] # 0 /\ fs[c] # 0 /\ fs[d] # 0
    OBVIOUS
  <2>1. 1 .. Len(Parents(e)) = {1, 2} /\ Parents(e)[1] = c /\ Parents(e)[2] = d
    OBVIOUS
  <2> QED
    BY <2>1 DEF Reachable
<1> QED
  BY <1>1, <1>2, <1>3, ParentsAre

(***************************************************************************)
(* The effect of pending changes, one by one.                              *)
(***************************************************************************)
LEMMA NoneKept ==
    ASSUME NEW fs \in FileSystems, NEW ws
    PROVE  AfterSome(fs, ws, {}) = fs
BY DEF AfterSome, FileSystems

(***************************************************************************)
(* With one more change, only the entry it changes differs.                *)
(***************************************************************************)
LEMMA AppendedIsLast ==
    ASSUME NEW fs \in FileSystems, NEW ws \in Seq(Writes), NEW w \in Writes
    PROVE  Whole(fs, Append(ws, w)) = [Whole(fs, ws) EXCEPT ![w.entry] = w.version]
<1> DEFINE n == Len(ws)
           as == Append(ws, w)
           Own(s, k, e) == {i \in 1 .. k : s[i].entry = e}
           Final(s, k, e) == {i \in Own(s, k, e) : \A j \in Own(s, k, e) : j <= i}
<1>1. /\ n \in Nat /\ as[n + 1] = w
      /\ \A i \in 1 .. n : as[i] = ws[i]
  OBVIOUS
<1>2. Final(as, n + 1, w.entry) = {n + 1}
  <2>1. n + 1 \in Own(as, n + 1, w.entry)
    BY <1>1
  <2> QED
    BY <1>1, <2>1
<1>3. \A e : e # w.entry => Own(as, n + 1, e) = Own(ws, n, e)
  BY <1>1
<1>4. \A e : e # w.entry => Final(as, n + 1, e) = Final(ws, n, e)
  BY <1>3
<1>5. \A k, s : \A e \in Entries :
          AfterSome(fs, s, 1 .. k)[e]
              = IF Final(s, k, e) = {} THEN fs[e]
                ELSE s[Any(Final(s, k, e))].version
  BY DEF AfterSome
<1> HIDE DEF Own, Final
<1>6. ASSUME NEW e \in Entries
      PROVE  AfterSome(fs, as, 1 .. n + 1)[e]
                 = IF e = w.entry THEN w.version ELSE AfterSome(fs, ws, 1 .. n)[e]
  <2>1. AfterSome(fs, as, 1 .. n + 1)[e]
            = IF Final(as, n + 1, e) = {} THEN fs[e]
              ELSE as[Any(Final(as, n + 1, e))].version
    BY <1>5
  <2>2. AfterSome(fs, ws, 1 .. n)[e]
            = IF Final(ws, n, e) = {} THEN fs[e]
              ELSE ws[Any(Final(ws, n, e))].version
    BY <1>5
  <2>3. CASE e = w.entry
    <3>1. Any({n + 1}) = n + 1
      BY DEF Any
    <3>2. Final(as, n + 1, e) = {n + 1}
      BY <2>3, <1>2
    <3> HIDE DEF as, n
    <3> QED
      BY <2>1, <2>3, <3>1, <3>2, <1>1
  <2>4. CASE e # w.entry
    <3>1. Final(as, n + 1, e) = Final(ws, n, e)
      BY <2>4, <1>4
    <3>2. Final(ws, n, e) # {} => as[Any(Final(ws, n, e))] = ws[Any(Final(ws, n, e))]
      <4>1. Final(ws, n, e) # {} => Any(Final(ws, n, e)) \in 1 .. n
        BY DEF Own, Final, Any
      <4> QED
        BY <4>1, <1>1
    <3> HIDE DEF as, n
    <3> QED
      BY <2>1, <2>2, <2>4, <3>1, <3>2
  <2> QED
    BY <2>3, <2>4
<1>7. /\ AfterSome(fs, as, 1 .. n + 1)
             = [e \in Entries |-> AfterSome(fs, as, 1 .. n + 1)[e]]
      /\ AfterSome(fs, ws, 1 .. n) = [e \in Entries |-> AfterSome(fs, ws, 1 .. n)[e]]
  BY DEF AfterSome
<1>8. Len(as) = n + 1
  OBVIOUS
<1> QED
  BY <1>6, <1>7, <1>8 DEF Whole

(***************************************************************************)
(* A change that is not kept changes nothing.                              *)
(***************************************************************************)
LEMMA AppendedIsAfter ==
    ASSUME NEW fs \in FileSystems, NEW ws \in Seq(Writes), NEW w \in Writes,
           NEW n \in 0 .. Len(ws)
    PROVE  AfterSome(fs, Append(ws, w), 1 .. n) = AfterSome(fs, ws, 1 .. n)
<1> DEFINE Own(s, e) == {i \in 1 .. n : s[i].entry = e}
           Final(s, e) == {i \in Own(s, e) : \A j \in Own(s, e) : j <= i}
<1>1. \A i \in 1 .. n : Append(ws, w)[i] = ws[i]
  OBVIOUS
<1>2. \A e : Own(Append(ws, w), e) = Own(ws, e)
  BY <1>1
<1>3. \A e : Final(Append(ws, w), e) = Final(ws, e)
  BY <1>2
<1>4. \A s : \A e \in Entries :
          AfterSome(fs, s, 1 .. n)[e]
              = IF Final(s, e) = {} THEN fs[e]
                ELSE s[Any(Final(s, e))].version
  BY DEF AfterSome
<1> SUFFICES ASSUME NEW e \in Entries
             PROVE  AfterSome(fs, Append(ws, w), 1 .. n)[e] = AfterSome(fs, ws, 1 .. n)[e]
  BY DEF AfterSome
<1>5. \A i \in Final(ws, e) : i \in 1 .. n
  OBVIOUS
<1> HIDE DEF Own, Final
<1>6. CASE Final(ws, e) = {}
  BY <1>6, <1>3, <1>4
<1>7. CASE Final(ws, e) # {}
  <2>1. Any(Final(ws, e)) \in 1 .. n
    BY <1>5, <1>7 DEF Any
  <2> QED
    BY <1>7, <2>1, <1>1, <1>3, <1>4
<1> QED
  BY <1>6, <1>7

(***************************************************************************)
(* Pending changes lead from a file system to a file system.               *)
(***************************************************************************)
LEMMA KeptIsFileSystem ==
    ASSUME NEW fs \in FileSystems, NEW ws \in Seq(Writes), NEW n \in 0 .. Len(ws)
    PROVE  AfterSome(fs, ws, 1 .. n) \in FileSystems
<1> SUFFICES ASSUME NEW e \in Entries
             PROVE  AfterSome(fs, ws, 1 .. n)[e] \in 0 .. MaxVersion
  BY DEF AfterSome, FileSystems
<1> DEFINE own == {i \in 1 .. n : ws[i].entry = e}
           final == {i \in own : \A j \in own : j <= i}
<1>1. AfterSome(fs, ws, 1 .. n)[e]
          = IF final = {} THEN fs[e] ELSE ws[Any(final)].version
  BY DEF AfterSome
<1>2. CASE final = {}
  BY <1>1, <1>2 DEF FileSystems
<1>3. CASE final # {}
  <2>1. Any(final) \in 1 .. Len(ws)
    BY <1>3 DEF Any
  <2>2. ws[Any(final)] \in Writes
    BY <2>1
  <2>3. ws[Any(final)].version \in 1 .. MaxVersion
    BY <2>2 DEF Writes, Versions
  <2> QED
    BY <1>1, <1>3, <2>3, MaxVersionIsPositive
<1> QED
  BY <1>2, <1>3

(***************************************************************************)
(* If every prefix of the pending changes leaves a complete root, and so do*)
(* all of them with one more, then every prefix of the longer list does.   *)
(***************************************************************************)
LEMMA AppendKeepsComplete ==
    ASSUME NEW fs \in FileSystems, NEW ws \in Seq(Writes), NEW w \in Writes, NEW v,
           AllComplete(fs, ws, v),
           Complete([Whole(fs, ws) EXCEPT ![w.entry] = w.version], v)
    PROVE  AllComplete(fs, Append(ws, w), v)
<1> SUFFICES ASSUME NEW n \in 0 .. Len(Append(ws, w))
             PROVE  Complete(AfterSome(fs, Append(ws, w), 1 .. n), v)
  BY DEF AllComplete
<1>1. CASE n \in 0 .. Len(ws)
  BY <1>1, AppendedIsAfter DEF AllComplete
<1>2. CASE n = Len(Append(ws, w))
  BY <1>2, AppendedIsLast DEF Whole
<1> QED
  BY <1>1, <1>2

(***************************************************************************)
(* A directory that is made below one that exists.                         *)
(***************************************************************************)
LEMMA MkdirKeepsComplete ==
    ASSUME NEW fs \in FileSystems, NEW v, Complete(fs, v),
           NEW d \in {FrontiersDir, FrontierDir, PublicationsDir},
           d = FrontierDir => fs[FrontiersDir] # 0
    PROVE  /\ WriteOf(d, 1) \in Writes
           /\ [fs EXCEPT ![d] = 1] \in FileSystems
           /\ Complete([fs EXCEPT ![d] = 1], v)
<1> DEFINE new == [fs EXCEPT ![d] = 1]
<1>1. 1 \in Versions /\ d \in Entries
  BY MaxVersionIsPositive DEF Versions, Entries
<1>2. new \in FileSystems /\ WriteOf(d, 1) \in Writes
  BY <1>1, MaxVersionIsPositive DEF FileSystems, Writes, WriteOf, Versions
<1>3. /\ new[d] = 1
      /\ \A e \in Entries \ {d} : new[e] = fs[e]
  BY <1>1 DEF FileSystems
<1>4. {FrontiersDir, FrontierDir, PublicationsDir, Alias, Latest} \subseteq Entries
  BY DEF Entries
<1>5. \A e \in Entries : fs[e] # 0 => new[e] # 0
  BY <1>3
<1>6. \A u : /\ Reachable(fs, Snapshot(u)) => Reachable(new, Snapshot(u))
             /\ Reachable(fs, Manifest(u)) => Reachable(new, Manifest(u))
  <2>1. \A u : fs[Snapshot(u)] # 0 => new[Snapshot(u)] # 0
    BY <1>3 DEF FileSystems, Snapshot, FrontiersDir, FrontierDir, PublicationsDir, Entry
  <2>2. \A u : fs[Manifest(u)] # 0 => new[Manifest(u)] # 0
    BY <1>3 DEF FileSystems, Manifest, FrontiersDir, FrontierDir, PublicationsDir, Entry
  <2> HIDE DEF new
  <2> QED
    BY <1>4, <1>5, <2>1, <2>2, ReachableIs
<1>7. new[Latest] = fs[Latest] /\ new[Alias] = fs[Alias]
  BY <1>3, <1>4, EntriesDiffer
<1>8. ASSUME NEW e \in Entries, new[e] # 0
      PROVE  Reachable(new, e)
  <2>1. CASE e # d
    <3>1. fs[e] # 0 /\ Reachable(fs, e)
      BY <1>3, <1>8, <2>1 DEF Complete
    <3>2. \A i \in 1 .. Len(Parents(e)) : Parents(e)[i] \in Entries
      <4>1. CASE e \in {FrontiersDir, FrontierDir, PublicationsDir, Alias, Latest}
        BY <4>1, <1>4, ParentsAre
      <4>2. CASE \E u \in Versions : e \in {Snapshot(u), Manifest(u)}
        BY <4>2, <1>4, ParentsAre
      <4> QED
        BY <4>1, <4>2 DEF Entries
    <3> HIDE DEF new
    <3> QED
      BY <1>5, <1>8, <3>1, <3>2 DEF Reachable
  <2>2. CASE e = d
    <3> HIDE DEF new
    <3> QED
      BY <1>3, <1>4, <1>5, <2>2, ReachableIs
  <2> QED
    BY <2>1, <2>2
<1> HIDE DEF new
<1>9. Complete(new, v)
  BY <1>6, <1>7, <1>8 DEF Complete, Loads
<1> QED
  BY <1>2, <1>9 DEF new

(***************************************************************************)
(* The writes of a call are in an order that keeps the root complete.      *)
(***************************************************************************)
LEMMA PlanKeepsComplete ==
    ASSUME NEW fs \in FileSystems, NEW u \in Nat, Complete(fs, u),
           NEW v \in Versions, v \in {fs[Latest], fs[Latest] + 1},
           NEW i \in 1 .. 4,
           \A j \in 1 .. i - 1 : fs[Plan(v)[j].entry] = v,
           \A k \in DOMAIN Parents(Plan(v)[i].entry) :
               fs[Parents(Plan(v)[i].entry)[k]] # 0
    PROVE  /\ Plan(v)[i] \in Writes
           /\ Complete([fs EXCEPT ![Plan(v)[i].entry] = v], u)
<1> DEFINE at == Plan(v)[i].entry
           new == [fs EXCEPT ![at] = v]
<1>1. /\ Plan(v)[1].entry = Snapshot(v) /\ Plan(v)[2].entry = Manifest(v)
      /\ Plan(v)[3].entry = Alias /\ Plan(v)[4].entry = Latest
  BY DEF Plan, WriteOf
<1>2. v \in Nat /\ v # 0 /\ Versions \subseteq Nat
  BY MaxVersionIsPositive DEF Versions
<1>3. /\ {FrontiersDir, FrontierDir, PublicationsDir, Alias, Latest} \subseteq Entries
      /\ \A w \in Versions : Snapshot(w) \in Entries /\ Manifest(w) \in Entries
  BY DEF Entries
<1>4. at \in Entries
  BY <1>1, <1>3
<1>5. Plan(v)[i] \in Writes
  BY <1>3 DEF Plan, WriteOf, Writes
<1>6. new[at] = v /\ \A e \in Entries \ {at} : new[e] = fs[e]
  BY <1>4 DEF FileSystems
<1>7. \A e \in Entries : fs[e] # 0 => new[e] # 0
  BY <1>2, <1>6
<1>8. fs[Latest] \in 0 .. MaxVersion /\ fs[Alias] \in 0 .. MaxVersion
  BY <1>3 DEF FileSystems
<1>9. ASSUME NEW e \in Entries
      PROVE  /\ DOMAIN Parents(e) = 1 .. Len(Parents(e))
             /\ \A k \in DOMAIN Parents(e) : Parents(e)[k] \in Entries
  <2>1. CASE e \in {FrontiersDir, FrontierDir, PublicationsDir, Alias, Latest}
    BY <2>1, <1>3, ParentsAre
  <2>2. CASE \E w \in Versions : e \in {Snapshot(w), Manifest(w)}
    BY <2>2, <1>3, ParentsAre
  <2> QED
    BY <2>1, <2>2 DEF Entries
<1> HIDE DEF new
<1>10. Reachable(new, at)
  <2> HIDE DEF at
  <2> QED
    BY <1>2, <1>4, <1>6, <1>7, <1>9 DEF Reachable, at
<1>11. \A e \in Entries : Reachable(fs, e) => Reachable(new, e)
  BY <1>7, <1>9 DEF Reachable
<1>12. \A e \in Entries : new[e] # 0 => Reachable(new, e)
  BY <1>6, <1>10, <1>11 DEF Complete
<1>13. \A w \in 1 .. fs[Latest] : w \in Versions
  BY <1>8, MaxVersionIsPositive DEF Versions
<1>14. Loads(new, fs[Latest])
  BY <1>3, <1>11, <1>13 DEF Complete, Loads
<1>15. CASE i = 1 \/ i = 2
  <2>1. new[Latest] = fs[Latest] /\ new[Alias] = fs[Alias]
    BY <1>1, <1>2, <1>3, <1>6, <1>15, EntriesDiffer
  <2>2. new[Alias] # 0 => Reachable(new, Snapshot(new[Alias]))
    <3>1. fs[Alias] # 0 => Snapshot(fs[Alias]) \in Entries
      BY <1>3, <1>8, MaxVersionIsPositive DEF Versions
    <3> QED
      BY <1>11, <2>1, <3>1 DEF Complete
  <2> QED
    BY <1>5, <1>12, <1>14, <2>1, <2>2 DEF Complete, new
<1>16. CASE i = 3
  <2>1. new[Latest] = fs[Latest] /\ new[Alias] = v
    BY <1>1, <1>3, <1>6, <1>16, EntriesDiffer
  <2>2. fs[Snapshot(v)] = v
    BY <1>1, <1>16
  <2>3. Reachable(new, Snapshot(v))
    BY <1>2, <1>3, <1>7, <1>12, <2>2
  <2>4. new[Latest] <= new[Alias]
    BY <1>2, <1>8, <2>1, MaxVersionIsPositive
  <2> QED
    BY <1>5, <1>12, <1>14, <2>1, <2>3, <2>4 DEF Complete, new
<1>17. CASE i = 4
  <2>1. new[Latest] = v /\ new[Alias] = fs[Alias]
    BY <1>1, <1>3, <1>6, <1>17, EntriesDiffer
  <2>2. fs[Snapshot(v)] = v /\ fs[Manifest(v)] = v /\ fs[Alias] = v
    BY <1>1, <1>17
  <2>3. Reachable(new, Snapshot(v)) /\ Reachable(new, Manifest(v))
    BY <1>2, <1>3, <1>7, <1>12, <2>2
  <2>4. Loads(new, v)
    <3>1. \A w \in 1 .. v : w \in 1 .. fs[Latest] \/ w = v
      BY <1>2, <1>8, MaxVersionIsPositive
    <3> QED
      BY <1>14, <2>3, <3>1 DEF Loads
  <2>5. u <= new[Latest]
    <3>1. u <= fs[Latest]
      BY DEF Complete
    <3> QED
      BY <1>2, <1>8, <2>1, <3>1, MaxVersionIsPositive
  <2>6. Complete(new, u)
    <3>1. new[Latest] <= new[Alias]
      BY <1>2, <2>1, <2>2
    <3> QED
      BY <1>12, <2>1, <2>2, <2>3, <2>4, <2>5, <3>1 DEF Complete
  <2> QED
    BY <1>5, <2>6 DEF new
<1> QED
  BY <1>15, <1>16, <1>17

----------------------------------------------------------------------------
(***************************************************************************)
(* What mkdir(parents=True) adds: nothing, one directory, or the two on the*)
(* way to a snapshot.                                                      *)
(***************************************************************************)
LEMMA MkdirsAre ==
    ASSUME NEW fs \in FileSystems, \A e \in Entries : fs[e] # 0 => Reachable(fs, e),
           NEW v \in Versions, NEW i \in 1 .. 4
    PROVE  LET e == Plan(v)[i].entry
           IN  \/ /\ Mkdirs(fs, e) = <<>>
                  /\ \A k \in DOMAIN Parents(e) : fs[Parents(e)[k]] # 0
               \/ /\ Mkdirs(fs, e) = <<WriteOf(PublicationsDir, 1)>>
                  /\ Parents(e) = <<PublicationsDir>>
               \/ /\ Mkdirs(fs, e) = <<WriteOf(FrontierDir, 1)>>
                  /\ Parents(e) = <<FrontiersDir, FrontierDir>>
                  /\ fs[FrontiersDir] # 0
               \/ /\ Mkdirs(fs, e)
                         = <<WriteOf(FrontiersDir, 1), WriteOf(FrontierDir, 1)>>
                  /\ Parents(e) = <<FrontiersDir, FrontierDir>>
<1> DEFINE e == Plan(v)[i].entry
           Depth == CHOOSE k \in 0 .. Len(Parents(e)) :
                        \A j \in DOMAIN Parents(e) : (fs[Parents(e)[j]] # 0) <=> (j <= k)
<1>1. Mkdirs(fs, e)
          = [k \in 1 .. Len(Parents(e)) - Depth |-> WriteOf(Parents(e)[Depth + k], 1)]
  BY DEF Mkdirs
<1>2. e \in {Snapshot(v), Manifest(v), Alias, Latest}
  BY DEF Plan, WriteOf
<1>3. FrontierDir \in Entries /\ (fs[FrontierDir] # 0 => fs[FrontiersDir] # 0)
  <2>1. FrontierDir \in Entries
    BY DEF Entries
  <2> QED
    BY <2>1, ReachableIs
<1> HIDE DEF e
<1>4. CASE Parents(e) = <<>>
  <2>1. Depth \in 0 .. 0
    BY <1>4
  <2> HIDE DEF Depth
  <2>2. Mkdirs(fs, e) = <<>>
    BY <1>1, <1>4, <2>1
  <2> QED
    BY <1>4, <2>2 DEF e
<1>5. CASE Parents(e) = <<PublicationsDir>>
  <2>1. CASE fs[PublicationsDir] # 0
    <3>1. Depth = 1
      BY <1>5, <2>1
    <3> HIDE DEF Depth
    <3>2. Mkdirs(fs, e) = <<>>
      BY <1>1, <1>5, <3>1
    <3> QED
      BY <1>5, <2>1, <3>2 DEF e
  <2>2. CASE fs[PublicationsDir] = 0
    <3>1. Depth = 0
      BY <1>5, <2>2
    <3> HIDE DEF Depth
    <3>2. Mkdirs(fs, e) = <<WriteOf(PublicationsDir, 1)>>
      BY <1>1, <1>5, <3>1
    <3> QED
      BY <1>5, <3>2 DEF e
  <2> QED
    BY <2>1, <2>2
<1>6. CASE Parents(e) = <<FrontiersDir, FrontierDir>>
  <2>0. /\ DOMAIN Parents(e) = {1, 2} /\ Len(Parents(e)) = 2
        /\ Parents(e)[1] = FrontiersDir /\ Parents(e)[2] = FrontierDir
    BY <1>6
  <2>1. CASE fs[FrontierDir] # 0
    <3>1. Depth = 2
      BY <1>3, <2>0, <2>1
    <3> HIDE DEF Depth
    <3>2. Mkdirs(fs, e) = <<>>
      BY <1>1, <1>6, <3>1
    <3> QED
      BY <1>3, <2>0, <2>1, <3>2 DEF e
  <2>2. CASE fs[FrontierDir] = 0 /\ fs[FrontiersDir] # 0
    <3>1. Depth = 1
      BY <2>0, <2>2
    <3> HIDE DEF Depth
    <3>2. Mkdirs(fs, e) = <<WriteOf(FrontierDir, 1)>>
      BY <1>1, <2>0, <3>1
    <3> QED
      BY <1>6, <2>2, <3>2 DEF e
  <2>3. CASE fs[FrontierDir] = 0 /\ fs[FrontiersDir] = 0
    <3>1. Depth = 0
      BY <2>0, <2>3
    <3> HIDE DEF Depth
    <3>2. Mkdirs(fs, e) = <<WriteOf(FrontiersDir, 1), WriteOf(FrontierDir, 1)>>
      BY <1>1, <2>0, <3>1
    <3> QED
      BY <1>6, <3>2 DEF e
  <2> QED
    BY <2>1, <2>2, <2>3
<1> QED
  BY <1>2, <1>4, <1>5, <1>6, ParentsAre

(***************************************************************************)
(* Appending changes one by one.                                           *)
(***************************************************************************)
LEMMA ConcatIsAppend ==
    ASSUME NEW S, NEW s \in Seq(S), NEW a, NEW b, NEW c
    PROVE  /\ s \o <<>> \o <<c>> = Append(s, c)
           /\ s \o <<a>> \o <<c>> = Append(Append(s, a), c)
           /\ s \o <<a, b>> \o <<c>> = Append(Append(Append(s, a), b), c)
<1> DEFINE T == S \cup {a, b, c}
<1>1. s \in Seq(T) /\ a \in T /\ b \in T /\ c \in T
  OBVIOUS
<1> HIDE DEF T
<1>2. s \o <<>> \o <<c>> = Append(s, c)
  BY <1>1
<1>3. s \o <<a>> \o <<c>> = Append(Append(s, a), c)
  BY <1>1
<1>4. s \o <<a, b>> \o <<c>> = Append(Append(Append(s, a), b), c)
  BY <1>1
<1> QED
  BY <1>2, <1>3, <1>4

ReadyFor(fs, v, i) ==
    /\ v \in {fs[Latest], fs[Latest] + 1}
    /\ \A j \in 1 .. i - 1 : fs[Plan(v)[j].entry] = v

\* The pending changes once the i-th write of the publication of v is made.
WithWrite(fs, ws, v, i) ==
    ws \o Mkdirs(Whole(fs, ws), Plan(v)[i].entry) \o <<Plan(v)[i]>>

(***************************************************************************)
(* A write of a call, with the directories it makes: every prefix of the   *)
(* pending changes still leaves a complete root, and in memory only those  *)
(* directories and the entry differ.                                       *)
(***************************************************************************)
LEMMA WriteKeepsComplete ==
    ASSUME NEW fs \in FileSystems, NEW ws \in Seq(Writes), NEW u \in Nat,
           NEW v \in Versions, NEW i \in 1 .. 4,
           AllComplete(fs, ws, u), ReadyFor(Whole(fs, ws), v, i)
    PROVE  LET after == WithWrite(fs, ws, v, i)
           IN  /\ after \in Seq(Writes)
               /\ AllComplete(fs, after, u)
               /\ Whole(fs, after)[Plan(v)[i].entry] = v
               /\ \A j \in 1 .. 4 : j # i =>
                      Whole(fs, after)[Plan(v)[j].entry]
                          = Whole(fs, ws)[Plan(v)[j].entry]
<1> DEFINE m == Whole(fs, ws)
           after == WithWrite(fs, ws, v, i)
<1>0. /\ v \in {m[Latest], m[Latest] + 1}
      /\ \A j \in 1 .. i - 1 : m[Plan(v)[j].entry] = v
      /\ after = ws \o Mkdirs(m, Plan(v)[i].entry) \o <<Plan(v)[i]>>
  BY DEF ReadyFor, WithWrite
<1> DEFINE e == Plan(v)[i].entry
           w == Plan(v)[i]
           All(s) == Whole(fs, s)
           Fine(s) == s \in Seq(Writes) /\ AllComplete(fs, s, u)
           Same(s) == \A j \in 1 .. 4 : All(s)[Plan(v)[j].entry] = m[Plan(v)[j].entry]
           Goal(s) == /\ Fine(s) /\ All(s)[e] = v
                      /\ \A j \in 1 .. 4 :
                             j # i => All(s)[Plan(v)[j].entry] = m[Plan(v)[j].entry]
<1>1. /\ Plan(v)[1].entry = Snapshot(v) /\ Plan(v)[2].entry = Manifest(v)
      /\ Plan(v)[3].entry = Alias /\ Plan(v)[4].entry = Latest
      /\ w.version = v /\ w.entry = e
      /\ v \in Nat /\ v # 0
  BY MaxVersionIsPositive DEF Plan, WriteOf, Versions
<1>2. \A j \in 1 .. 4 : Plan(v)[j].entry \in Entries
  BY <1>1 DEF Entries
<1>3. Fine(ws) /\ Same(ws) /\ All(ws) = m
  OBVIOUS
<1>4. ASSUME NEW s, Fine(s)
      PROVE  All(s) \in FileSystems /\ Complete(All(s), u)
  <2>1. Len(s) \in 0 .. Len(s)
    BY <1>4
  <2> QED
    BY <1>4, <2>1, KeptIsFileSystem DEF Whole, AllComplete
<1>5. ASSUME NEW s, Fine(s), Same(s),
             NEW d \in {FrontiersDir, FrontierDir, PublicationsDir},
             d = FrontierDir => All(s)[FrontiersDir] # 0
      PROVE  LET t == Append(s, WriteOf(d, 1))
             IN  /\ Fine(t) /\ Same(t)
                 /\ All(t) = [All(s) EXCEPT ![d] = 1]
  <2> DEFINE t == Append(s, WriteOf(d, 1))
  <2>1. /\ WriteOf(d, 1) \in Writes
        /\ Complete([All(s) EXCEPT ![d] = 1], u)
    <3>1. All(s) \in FileSystems /\ Complete(All(s), u)
      BY <1>4, <1>5
    <3> HIDE DEF All
    <3> QED
      BY <1>5, <3>1, MkdirKeepsComplete
  <2>2. WriteOf(d, 1).entry = d /\ WriteOf(d, 1).version = 1
    BY DEF WriteOf
  <2>3. Fine(t)
    <3>1. t \in Seq(Writes)
      BY <1>5, <2>1
    <3> QED
      BY <1>5, <2>1, <2>2, <3>1, AppendKeepsComplete
  <2>4. All(t) = [All(s) EXCEPT ![d] = 1]
    <3>1. All(t) = [All(s) EXCEPT ![WriteOf(d, 1).entry] = WriteOf(d, 1).version]
      BY <1>5, <2>1, AppendedIsLast
    <3> QED
      BY <2>2, <3>1
  <2>5. Same(t)
    <3>1. \A j \in 1 .. 4 : Plan(v)[j].entry # d
      BY <1>1, EntriesDiffer
    <3> QED
      BY <1>2, <1>4, <1>5, <2>4, <3>1 DEF FileSystems
  <2> QED
    BY <2>3, <2>4, <2>5
<1>6. ASSUME NEW s, Fine(s), Same(s),
             \A k \in DOMAIN Parents(e) : All(s)[Parents(e)[k]] # 0
      PROVE  Goal(Append(s, w))
  <2> DEFINE t == Append(s, w)
  <2>1. All(s) \in FileSystems /\ Complete(All(s), u)
    BY <1>4, <1>6
  <2>2. /\ v \in {All(s)[Latest], All(s)[Latest] + 1}
        /\ \A j \in 1 .. i - 1 : All(s)[Plan(v)[j].entry] = v
    BY <1>0, <1>1, <1>6
  <2>3. w \in Writes /\ Complete([All(s) EXCEPT ![w.entry] = w.version], u)
    <3> HIDE DEF All
    <3> QED
      BY <1>1, <1>6, <2>1, <2>2, PlanKeepsComplete
  <2>4. Fine(t)
    <3>1. t \in Seq(Writes)
      BY <1>6, <2>3
    <3> HIDE DEF w
    <3> QED
      BY <1>6, <2>3, <3>1, AppendKeepsComplete
  <2>5. All(t) = [All(s) EXCEPT ![w.entry] = w.version]
    <3> HIDE DEF w
    <3> QED
      BY <1>6, <2>3, AppendedIsLast
  <2>6. All(t)[e] = v
    BY <1>1, <1>2, <2>1, <2>5 DEF FileSystems
  <2>7. ASSUME NEW j \in 1 .. 4, j # i
        PROVE  All(t)[Plan(v)[j].entry] = m[Plan(v)[j].entry]
    <3>1. Plan(v)[j].entry # e
      BY <1>1, <2>7, EntriesDiffer
    <3> QED
      BY <1>1, <1>2, <1>6, <2>1, <2>5, <3>1 DEF FileSystems
  <2> QED
    BY <2>4, <2>6, <2>7
<1>7. m \in FileSystems /\ Complete(m, u)
  BY <1>3, <1>4
<1>8. \A x \in Entries : m[x] # 0 => Reachable(m, x)
  BY <1>7 DEF Complete
<1>9. \A x : DOMAIN <<x>> = {1} /\ <<x>>[1] = x
  OBVIOUS
<1>10. \A x, y : DOMAIN <<x, y>> = {1, 2} /\ <<x, y>>[1] = x /\ <<x, y>>[2] = y
  OBVIOUS
<1>11. {FrontiersDir, FrontierDir, PublicationsDir} \subseteq Entries
  BY DEF Entries
<1>12. /\ \A c : ws \o <<>> \o <<c>> = Append(ws, c)
       /\ \A a, c : ws \o <<a>> \o <<c>> = Append(Append(ws, a), c)
       /\ \A a, b, c : ws \o <<a, b>> \o <<c>> = Append(Append(Append(ws, a), b), c)
  <2>1. ws \in Seq(Writes)
    OBVIOUS
  <2> QED
    BY <2>1, ConcatIsAppend
<1> SUFFICES Goal(after)
  OBVIOUS
<1> HIDE DEF Goal
<1>13. CASE /\ Mkdirs(m, e) = <<>>
            /\ \A k \in DOMAIN Parents(e) : m[Parents(e)[k]] # 0
  <2>1. after = Append(ws, w)
    BY <1>0, <1>13, ConcatIsAppend
  <2>2. \A k \in DOMAIN Parents(e) : All(ws)[Parents(e)[k]] # 0
    BY <1>3, <1>13
  <2> HIDE DEF Fine, Same, All, e, w
  <2> QED
    BY <1>3, <1>6, <2>1, <2>2
<1>14. CASE /\ Mkdirs(m, e) = <<WriteOf(PublicationsDir, 1)>>
            /\ Parents(e) = <<PublicationsDir>>
  <2> DEFINE s == Append(ws, WriteOf(PublicationsDir, 1))
  <2>1. after = Append(s, w)
    <3>1. ws \o <<WriteOf(PublicationsDir, 1)>> \o <<w>>
              = Append(s, w)
      BY <1>12
    <3> QED
      BY <1>0, <1>14, <3>1
  <2>2. PublicationsDir # FrontierDir
    BY EntriesDiffer
  <2>3. Fine(s) /\ Same(s) /\ All(s) = [All(ws) EXCEPT ![PublicationsDir] = 1]
    <3> HIDE DEF Fine, Same, All
    <3> QED
      BY <1>3, <1>5, <2>2
  <2>4. All(s)[PublicationsDir] # 0
    BY <1>3, <1>7, <1>11, <2>3 DEF FileSystems
  <2>5. \A k \in DOMAIN Parents(e) : All(s)[Parents(e)[k]] # 0
    BY <1>9, <1>14, <2>4
  <2> HIDE DEF Fine, Same, All, e, w, s
  <2> QED
    BY <1>6, <2>1, <2>3, <2>5
<1>15. CASE /\ Mkdirs(m, e) = <<WriteOf(FrontierDir, 1)>>
            /\ Parents(e) = <<FrontiersDir, FrontierDir>>
            /\ m[FrontiersDir] # 0
  <2> DEFINE s == Append(ws, WriteOf(FrontierDir, 1))
  <2>1. after = Append(s, w)
    <3>1. ws \o <<WriteOf(FrontierDir, 1)>> \o <<w>>
              = Append(s, w)
      BY <1>12
    <3> QED
      BY <1>0, <1>15, <3>1
  <2>2. FrontiersDir # FrontierDir
    BY EntriesDiffer
  <2>3. Fine(s) /\ Same(s) /\ All(s) = [All(ws) EXCEPT ![FrontierDir] = 1]
    <3>1. All(ws)[FrontiersDir] # 0
      BY <1>3, <1>15
    <3> HIDE DEF Fine, Same, All
    <3> QED
      BY <1>3, <1>5, <3>1
  <2>4. All(s)[FrontierDir] # 0 /\ All(s)[FrontiersDir] # 0
    BY <1>3, <1>7, <1>11, <1>15, <2>2, <2>3 DEF FileSystems
  <2>5. \A k \in DOMAIN Parents(e) : All(s)[Parents(e)[k]] # 0
    BY <1>10, <1>15, <2>4
  <2> HIDE DEF Fine, Same, All, e, w, s
  <2> QED
    BY <1>6, <2>1, <2>3, <2>5
<1>16. CASE /\ Mkdirs(m, e) = <<WriteOf(FrontiersDir, 1), WriteOf(FrontierDir, 1)>>
            /\ Parents(e) = <<FrontiersDir, FrontierDir>>
  <2> DEFINE r == Append(ws, WriteOf(FrontiersDir, 1))
             s == Append(r, WriteOf(FrontierDir, 1))
  <2>1. after = Append(s, w)
    <3>1. ws \o <<WriteOf(FrontiersDir, 1), WriteOf(FrontierDir, 1)>> \o <<w>>
              = Append(s, w)
      BY <1>12
    <3> QED
      BY <1>0, <1>16, <3>1
  <2>2. FrontiersDir # FrontierDir
    BY EntriesDiffer
  <2>3. Fine(r) /\ Same(r) /\ All(r) = [All(ws) EXCEPT ![FrontiersDir] = 1]
    <3> HIDE DEF Fine, Same, All
    <3> QED
      BY <1>3, <1>5, <2>2
  <2>4. All(r)[FrontiersDir] # 0 /\ All(r) \in FileSystems
    <3>1. All(r) \in FileSystems
      BY <1>4, <2>3
    <3>2. All(ws) \in FileSystems
      BY <1>3, <1>7
    <3> HIDE DEF Fine, Same, All, r
    <3> QED
      BY <1>11, <2>3, <3>1, <3>2 DEF FileSystems
  <2>5. Fine(s) /\ Same(s) /\ All(s) = [All(r) EXCEPT ![FrontierDir] = 1]
    <3> HIDE DEF Fine, Same, All, r
    <3> QED
      BY <1>5, <2>3, <2>4
  <2>6. All(s)[FrontierDir] # 0 /\ All(s)[FrontiersDir] # 0
    <3> HIDE DEF Fine, Same, All, r, s
    <3> QED
      BY <1>11, <2>2, <2>4, <2>5 DEF FileSystems
  <2>7. \A k \in DOMAIN Parents(e) : All(s)[Parents(e)[k]] # 0
    BY <1>10, <1>16, <2>6
  <2> HIDE DEF Fine, Same, All, e, w, s
  <2> QED
    BY <1>6, <2>1, <2>5, <2>7
<1> QED
  BY <1>7, <1>8, <1>13, <1>14, <1>15, <1>16, MkdirsAre

----------------------------------------------------------------------------
(***************************************************************************)
(* The root of the first publication has nothing to miss.                  *)
(***************************************************************************)
LEMMA EmptyRootIsComplete ==
    EmptyRoot \in FileSystems /\ Complete(EmptyRoot, 0)
<1>1. EmptyRoot \in FileSystems
  BY MaxVersionIsPositive DEF EmptyRoot, FileSystems
<1>2. EmptyRoot[Latest] = 0 /\ EmptyRoot[Alias] = 0
  BY DEF EmptyRoot, Entries
<1> QED
  BY <1>1, <1>2 DEF EmptyRoot, Complete, Loads

(***************************************************************************)
(* A call has four writes: snapshot, manifest, alias, latest.json.         *)
(***************************************************************************)
LEMMA PlanHasFour == \A v : Len(Plan(v)) = 4
BY DEF Plan

(***************************************************************************)
(* The invariant holds of an empty root.                                   *)
(***************************************************************************)
LEMMA InitIsSound == Init => IInv
<1> SUFFICES ASSUME Init PROVE IInv
  OBVIOUS
<1>1. disk = EmptyRoot /\ pending = <<>> /\ version = 0 /\ step = 1 /\ promised = 0
      /\ replaced = FALSE
  BY DEF Init
<1>2. TypeOK
  <2>1. disk \in FileSystems /\ pending \in Seq(Writes)
    BY <1>1, EmptyRootIsComplete, MaxVersionIsPositive
  <2>2. version \in 0 .. MaxVersion /\ promised \in 0 .. MaxVersion
    BY <1>1, EmptyRootIsComplete, MaxVersionIsPositive
  <2>3. step \in 1 .. 5
    BY <1>1, EmptyRootIsComplete, MaxVersionIsPositive
  <2>4. replaced \in BOOLEAN
    BY <1>1, EmptyRootIsComplete, MaxVersionIsPositive
  <2> QED
    BY <2>1, <2>2, <2>3, <2>4 DEF TypeOK
<1>3. AlwaysComplete
  <2>1. \A n \in 0 .. Len(pending) : 1 .. n = {}
    BY <1>1
  <2> QED
    BY <1>1, <2>1, NoneKept, EmptyRootIsComplete DEF AlwaysComplete, AllComplete
<1> QED
  BY <1>1, <1>2, <1>3
     DEF IInv, CallIsCurrent, ReplacedIsOfCall, OnlyKilledLeavePending

(***************************************************************************)
(* What the invariant says of memory.                                      *)
(***************************************************************************)
LEMMA MemoryIsComplete ==
    ASSUME IInv
    PROVE  /\ Memory = Whole(disk, pending)
           /\ Memory \in FileSystems
           /\ Complete(Memory, promised)
           /\ Memory[Latest] \in 0 .. MaxVersion
<1>1. disk \in FileSystems /\ pending \in Seq(Writes)
  BY DEF IInv, TypeOK
<1>2. Len(pending) \in 0 .. Len(pending) /\ DOMAIN pending = 1 .. Len(pending)
  BY <1>1
<1>3. Memory = Whole(disk, pending)
  BY <1>2 DEF Memory, Whole
<1>4. Memory \in FileSystems /\ Complete(Memory, promised)
  BY <1>1, <1>2, <1>3, KeptIsFileSystem DEF IInv, AlwaysComplete, AllComplete, Whole
<1>5. Latest \in Entries
  BY DEF Entries
<1> QED
  BY <1>3, <1>4, <1>5 DEF FileSystems

(***************************************************************************)
(* What survives a power loss is already complete: nothing is lost with a  *)
(* directory.                                                              *)
(***************************************************************************)
LEMMA CompleteIsSettled ==
    ASSUME NEW fs \in FileSystems, NEW u, Complete(fs, u)
    PROVE  Settled(fs) = fs
BY DEF Settled, Complete, FileSystems

(***************************************************************************)
(* A call starts: nothing of it is done.                                   *)
(***************************************************************************)
LEMMA StartKeepsInv == IInv /\ (\E v \in Versions : Start(v)) => IInv'
<1> SUFFICES ASSUME IInv, NEW v \in Versions, Start(v) PROVE IInv'
  OBVIOUS
<1>1. UNCHANGED <<disk, pending, orphaned, promised>> /\ replaced' = FALSE /\ step' = 1
      /\ version' = v /\ v \in {Memory[Latest], Memory[Latest] + 1} /\ version = 0
  BY DEF Start
<1>2. Memory' = Memory
  BY <1>1 DEF Memory
<1>3. TypeOK'
  <2>1. disk' \in FileSystems /\ pending' \in Seq(Writes)
    BY <1>1, MaxVersionIsPositive DEF IInv, TypeOK, Versions
  <2>2. version' \in 0 .. MaxVersion /\ promised' \in 0 .. MaxVersion
    BY <1>1, MaxVersionIsPositive DEF IInv, TypeOK, Versions
  <2>3. step' \in 1 .. 5
    BY <1>1, MaxVersionIsPositive DEF IInv, TypeOK, Versions
  <2>4. replaced' \in BOOLEAN
    BY <1>1, MaxVersionIsPositive DEF IInv, TypeOK, Versions
  <2> QED
    BY <2>1, <2>2, <2>3, <2>4 DEF TypeOK
<1>4. AlwaysComplete'
  BY <1>1 DEF IInv, AlwaysComplete
<1>5. CallIsCurrent'
  BY <1>1, <1>2 DEF CallIsCurrent, Done
<1>6. OnlyKilledLeavePending'
  BY <1>1 DEF IInv, OnlyKilledLeavePending, ReplacedIsOfCall
<1> QED
  BY <1>1, <1>3, <1>4, <1>5, <1>6 DEF IInv, ReplacedIsOfCall

(***************************************************************************)
(* An entry that has its content already counts as done.                   *)
(***************************************************************************)
LEMMA SkipKeepsInv == IInv /\ Skip => IInv'
<1> SUFFICES ASSUME IInv, Skip PROVE IInv'
  OBVIOUS
<1>1. /\ UNCHANGED <<disk, pending, version, replaced, orphaned, promised>>
      /\ step' = step + 1 /\ version # 0 /\ step \in 1 .. 4 /\ ~replaced
      /\ Memory[Plan(version)[step].entry] = Plan(version)[step].version
  BY PlanHasFour DEF Skip, IInv, TypeOK
<1>2. Memory' = Memory
  BY <1>1 DEF Memory
<1>3. TypeOK'
  BY <1>1, PlanHasFour DEF IInv, TypeOK
<1>4. AlwaysComplete'
  BY <1>1 DEF IInv, AlwaysComplete
<1>5. \A i \in 1 .. 4 : Plan(version)[i].version = version
  BY DEF Plan, WriteOf
<1>6. CallIsCurrent'
  <2>1. \A i \in 1 .. 4 : Done(i)' => Done(i) \/ i = step
    BY <1>1 DEF Done
  <2> QED
    BY <1>1, <1>2, <1>5, <2>1 DEF IInv, CallIsCurrent
<1> QED
  BY <1>1, <1>3, <1>4, <1>6
     DEF IInv, ReplacedIsOfCall, OnlyKilledLeavePending

(***************************************************************************)
(* A write: the directories, then the entry, are added to what is pending. *)
(***************************************************************************)
LEMMA ReplaceKeepsInv == IInv /\ Replace => IInv'
<1> SUFFICES ASSUME IInv, Replace PROVE IInv'
  OBVIOUS
<1>1. /\ UNCHANGED <<disk, version, step, orphaned, promised>> /\ replaced'
      /\ version # 0 /\ step \in 1 .. 4 /\ ~replaced
      /\ pending' = pending \o Mkdirs(Memory, Plan(version)[step].entry)
                        \o <<Plan(version)[step]>>
  <2>1. /\ UNCHANGED <<disk, version, step, orphaned, promised>> /\ replaced'
        /\ version # 0 /\ step <= 4 /\ ~replaced
    BY PlanHasFour DEF Replace
  <2>2. step \in 1 .. 5
    BY PlanHasFour DEF IInv, TypeOK
  <2>3. pending' = pending \o Mkdirs(Memory, Plan(version)[step].entry)
                       \o <<Plan(version)[step]>>
    BY DEF Replace
  <2> QED
    BY <2>1, <2>2, <2>3
<1>2. /\ disk \in FileSystems /\ pending \in Seq(Writes)
      /\ version \in Versions /\ promised \in Nat
  BY <1>1, MaxVersionIsPositive DEF IInv, TypeOK, Versions
<1>3. AllComplete(disk, pending, promised)
  BY DEF IInv, AlwaysComplete
<1>4. Memory = Whole(disk, pending)
  BY MemoryIsComplete
<1>5. /\ version \in {Memory[Latest], Memory[Latest] + 1}
      /\ \A j \in 1 .. step - 1 : Memory[Plan(version)[j].entry] = version
  BY <1>1 DEF IInv, CallIsCurrent, Done
<1>6. /\ pending' \in Seq(Writes)
      /\ AllComplete(disk, pending', promised)
      /\ Whole(disk, pending')[Plan(version)[step].entry] = version
      /\ \A j \in 1 .. 4 : j # step =>
             Whole(disk, pending')[Plan(version)[j].entry]
                 = Memory[Plan(version)[j].entry]
  <2>1. pending' = WithWrite(disk, pending, version, step)
    BY <1>1, <1>4 DEF WithWrite
  <2>2. ReadyFor(Whole(disk, pending), version, step)
    BY <1>4, <1>5 DEF ReadyFor
  <2>3. step \in 1 .. 4
    BY <1>1
  <2> QED
    BY <1>2, <1>3, <1>4, <2>1, <2>2, <2>3, WriteKeepsComplete
<1>7. Memory' = Whole(disk, pending')
  <2>1. DOMAIN pending' = 1 .. Len(pending')
    BY <1>6
  <2> QED
    BY <1>1, <2>1 DEF Memory, Whole
<1>8. TypeOK'
  BY <1>1, <1>6 DEF IInv, TypeOK
<1>9. AlwaysComplete'
  BY <1>1, <1>6 DEF AlwaysComplete
<1>10. CallIsCurrent'
  <2>1. \A i \in 1 .. 4 : Done(i)' => Done(i) \/ i = step
    BY <1>1 DEF Done
  <2>2. \A i \in 1 .. 4 : Done(i)' => Memory'[Plan(version)[i].entry] = version
    BY <1>1, <1>6, <1>7, <2>1 DEF IInv, CallIsCurrent
  <2>3. Plan(version)[4].entry = Latest
    BY DEF Plan, WriteOf
  <2>4. version \in {Memory'[Latest], Memory'[Latest] + 1}
    <3>1. CASE step = 4
      BY <1>6, <1>7, <2>3, <3>1
    <3>2. CASE step # 4
      BY <1>5, <1>6, <1>7, <2>3, <3>2
    <3> QED
      BY <3>1, <3>2
  <2> QED
    BY <1>1, <2>2, <2>4 DEF CallIsCurrent
<1> QED
  BY <1>1, <1>8, <1>9, <1>10 DEF IInv, ReplacedIsOfCall, OnlyKilledLeavePending

(***************************************************************************)
(* A root of which nothing is pending.                                     *)
(***************************************************************************)
LEMMA NothingPending ==
    ASSUME disk \in FileSystems, pending = <<>>
    PROVE  /\ Memory = disk
           /\ \A u : AllComplete(disk, pending, u) <=> Complete(disk, u)
<1>1. DOMAIN pending = {} /\ Len(pending) = 0 /\ 1 .. 0 = {}
  OBVIOUS
<1> QED
  BY <1>1, NoneKept DEF Memory, AllComplete

(***************************************************************************)
(* The same of the next state.                                             *)
(***************************************************************************)
LEMMA NothingPendingNext ==
    (disk \in FileSystems /\ pending = <<>>
         => Memory = disk /\ \A u : AllComplete(disk, pending, u) <=> Complete(disk, u))'
BY NothingPending, PTL

(***************************************************************************)
(* A sync makes the disk what memory is.                                   *)
(***************************************************************************)
LEMMA SyncKeepsInv == ASSUME OrderedMetadata PROVE IInv /\ Sync => IInv'
<1> SUFFICES ASSUME IInv, Sync PROVE IInv'
  OBVIOUS
<1>1. /\ UNCHANGED <<version, promised>> /\ replaced' = FALSE /\ step' = step + 1
      /\ replaced /\ version # 0 /\ step \in 1 .. 4
  BY DEF Sync, IInv, TypeOK, ReplacedIsOfCall
<1>2. disk' = Memory /\ pending' = <<>>
  <2>1. {i \in DOMAIN pending : OrderedMetadata
              \/ ~(pending[i].entry.dir # Plan(version)[step].entry.dir)}
            = DOMAIN pending
    OBVIOUS
  <2> QED
    BY <2>1 DEF Sync, Memory
<1>3. disk' \in FileSystems
  BY <1>2, MemoryIsComplete
<1>4. Memory' = Memory /\ \A u : AllComplete(disk', pending', u) <=> Complete(Memory, u)
  BY <1>2, <1>3, NothingPendingNext
<1>5. TypeOK'
  <2>1. disk' \in FileSystems /\ pending' \in Seq(Writes)
    BY <1>1, <1>2, <1>3 DEF IInv, TypeOK
  <2>2. version' \in 0 .. MaxVersion /\ promised' \in 0 .. MaxVersion
    BY <1>1, <1>2, <1>3 DEF IInv, TypeOK
  <2>3. step' \in 1 .. 5
    BY <1>1, <1>2, <1>3 DEF IInv, TypeOK
  <2>4. replaced' \in BOOLEAN
    BY <1>1, <1>2, <1>3 DEF IInv, TypeOK
  <2> QED
    BY <2>1, <2>2, <2>3, <2>4 DEF TypeOK
<1>6. AlwaysComplete'
  BY <1>1, <1>4, MemoryIsComplete DEF AlwaysComplete
<1>7. CallIsCurrent'
  <2>1. \A i \in 1 .. 4 : Done(i)' => Done(i)
    BY <1>1 DEF Done
  <2> QED
    BY <1>1, <1>4, <2>1 DEF IInv, CallIsCurrent
<1> QED
  BY <1>1, <1>2, <1>5, <1>6, <1>7
     DEF IInv, ReplacedIsOfCall, OnlyKilledLeavePending

(***************************************************************************)
(* A return: after all four writes memory is at the version of the call,   *)
(* and if no call was orphaned, so is the disk.                              *)
(***************************************************************************)
LEMMA ReturnKeepsInv == IInv /\ Return => IInv'
<1> SUFFICES ASSUME IInv, Return PROVE IInv'
  OBVIOUS
<1>1. /\ UNCHANGED <<disk, pending, replaced, orphaned>> /\ version' = 0 /\ step' = 1
      /\ promised' = IF orphaned THEN promised ELSE version
      /\ version # 0 /\ step > 4
  BY PlanHasFour DEF Return
<1>2. ~replaced /\ step \in Nat
  BY <1>1 DEF IInv, ReplacedIsOfCall, TypeOK
<1>3. TypeOK'
  <2>1. disk' \in FileSystems /\ pending' \in Seq(Writes)
    BY <1>1 DEF IInv, TypeOK
  <2>2. version' \in 0 .. MaxVersion /\ promised' \in 0 .. MaxVersion
    BY <1>1, MaxVersionIsPositive DEF IInv, TypeOK
  <2>3. step' \in 1 .. 5
    BY <1>1 DEF IInv, TypeOK
  <2>4. replaced' \in BOOLEAN
    BY <1>1 DEF IInv, TypeOK
  <2> QED
    BY <2>1, <2>2, <2>3, <2>4 DEF TypeOK
<1>4. AlwaysComplete'
  <2>1. CASE orphaned
    BY <1>1, <2>1 DEF IInv, AlwaysComplete
  <2>2. CASE ~orphaned
    <3>1. pending = <<>> /\ disk \in FileSystems
      BY <1>2, <2>2 DEF IInv, OnlyKilledLeavePending, TypeOK
    <3>2. Memory[Latest] = version
      <4>1. Done(4) /\ Plan(version)[4].entry = Latest
        BY <1>1 DEF Done, Plan, WriteOf
      <4> QED
        BY <1>1, <4>1 DEF IInv, CallIsCurrent
    <3>3. Complete(Memory, version)
      BY <3>2, MemoryIsComplete DEF Complete
    <3> QED
      BY <1>1, <2>2, <3>1, <3>3, NothingPending DEF AlwaysComplete
  <2> QED
    BY <2>1, <2>2
<1> QED
  BY <1>1, <1>2, <1>3, <1>4
     DEF IInv, CallIsCurrent, ReplacedIsOfCall, OnlyKilledLeavePending

(***************************************************************************)
(* A kill: what is pending stays pending.                                  *)
(***************************************************************************)
LEMMA KillKeepsInv == IInv /\ Kill => IInv'
<1> SUFFICES ASSUME IInv, Kill PROVE IInv'
  OBVIOUS
<1>1. /\ UNCHANGED <<disk, pending, promised>> /\ version' = 0 /\ step' = 1
      /\ replaced' = FALSE /\ orphaned' = (orphaned \/ replaced)
  BY DEF Kill
<1>2. TypeOK'
  <2>1. disk' \in FileSystems /\ pending' \in Seq(Writes)
    BY <1>1, MaxVersionIsPositive DEF IInv, TypeOK
  <2>2. version' \in 0 .. MaxVersion /\ promised' \in 0 .. MaxVersion
    BY <1>1, MaxVersionIsPositive DEF IInv, TypeOK
  <2>3. step' \in 1 .. 5
    BY <1>1, MaxVersionIsPositive DEF IInv, TypeOK
  <2>4. replaced' \in BOOLEAN
    BY <1>1, MaxVersionIsPositive DEF IInv, TypeOK
  <2> QED
    BY <2>1, <2>2, <2>3, <2>4 DEF TypeOK
<1>3. AlwaysComplete'
  BY <1>1 DEF IInv, AlwaysComplete
<1> QED
  BY <1>1, <1>2, <1>3
     DEF IInv, CallIsCurrent, ReplacedIsOfCall, OnlyKilledLeavePending

(***************************************************************************)
(* A power loss leaves one of the prefixes, each of which is complete.     *)
(***************************************************************************)
LEMMA PowerLossKeepsInv == ASSUME OrderedMetadata PROVE IInv /\ PowerLoss => IInv'
<1> SUFFICES ASSUME IInv, PowerLoss PROVE IInv'
  OBVIOUS
<1>1. /\ pending' = <<>> /\ version' = 0 /\ step' = 1
      /\ replaced' = FALSE /\ UNCHANGED promised
  BY DEF PowerLoss
<1>2. PICK n \in 0 .. Len(pending) : 
           disk' = Settled(AfterSome(disk, pending, 1 .. n))
  BY DEF PowerLoss, Survivals
<1>3. /\ AfterSome(disk, pending, 1 .. n) \in FileSystems
      /\ Complete(AfterSome(disk, pending, 1 .. n), promised)
  BY KeptIsFileSystem DEF IInv, TypeOK, AlwaysComplete, AllComplete
<1>4. disk' \in FileSystems /\ Complete(disk', promised)
  BY <1>2, <1>3, CompleteIsSettled
<1>5. TypeOK'
  <2>1. disk' \in FileSystems /\ pending' \in Seq(Writes)
    BY <1>1, <1>4, MaxVersionIsPositive DEF IInv, TypeOK
  <2>2. version' \in 0 .. MaxVersion /\ promised' \in 0 .. MaxVersion
    BY <1>1, <1>4, MaxVersionIsPositive DEF IInv, TypeOK
  <2>3. step' \in 1 .. 5
    BY <1>1, <1>4, MaxVersionIsPositive DEF IInv, TypeOK
  <2>4. replaced' \in BOOLEAN
    BY <1>1, <1>4, MaxVersionIsPositive DEF IInv, TypeOK
  <2> QED
    BY <2>1, <2>2, <2>3, <2>4 DEF TypeOK
<1>6. AlwaysComplete'
  BY <1>1, <1>4, NothingPendingNext DEF AlwaysComplete
<1> QED
  BY <1>1, <1>5, <1>6
     DEF IInv, CallIsCurrent, ReplacedIsOfCall, OnlyKilledLeavePending

----------------------------------------------------------------------------
(***************************************************************************)
(* The invariant holds on a file system whose entries reach the disk in the*)
(* order of the calls.                                                     *)
(***************************************************************************)
THEOREM IInvHolds == OrderedMetadata => (Spec => []IInv)
<1> SUFFICES ASSUME OrderedMetadata PROVE Spec => []IInv
  OBVIOUS
<1>1. IInv /\ [Next]_vars => IInv'
  <2> SUFFICES ASSUME IInv, [Next]_vars PROVE IInv'
    OBVIOUS
  <2>1. CASE UNCHANGED vars
    BY <2>1
       DEF vars, IInv, TypeOK, AlwaysComplete, CallIsCurrent, ReplacedIsOfCall,
           OnlyKilledLeavePending, Memory, Done
  <2>2. CASE Next
    BY <2>2, StartKeepsInv, SkipKeepsInv, ReplaceKeepsInv, SyncKeepsInv,
       ReturnKeepsInv, KillKeepsInv, PowerLossKeepsInv DEF Next
  <2> QED
    BY <2>1, <2>2
<1> QED
  BY <1>1, InitIsSound, PTL DEF Spec

(***************************************************************************)
(* Whatever survives power losses, latest.json names a chain that is all   *)
(* there, and the alias a snapshot that is there: immutable data gets its  *)
(* names, and those of its directories, before anything points to it.      *)
(***************************************************************************)
THEOREM LatestNeverDanglesHolds ==
    OrderedMetadata => (Spec => []LatestNeverDangles)
<1>1. IInv => LatestNeverDangles
  BY MemoryIsComplete DEF LatestNeverDangles, Complete
<1> QED
  BY <1>1, IInvHolds, PTL

(***************************************************************************)
(* The commit marker is never ahead of the alias that is written before it.*)
(***************************************************************************)
THEOREM CommitMarkerIsLastHolds ==
    OrderedMetadata => (Spec => []CommitMarkerIsLast)
<1>1. IInv => CommitMarkerIsLast
  BY MemoryIsComplete DEF CommitMarkerIsLast, Complete
<1> QED
  BY <1>1, IInvHolds, PTL

(***************************************************************************)
(* No power loss takes back a publication whose call returned, also after  *)
(* kills, except for a call that wrote nothing, after one that was killed  *)
(* between a write and its sync and before any other sync.                 *)
(***************************************************************************)
THEOREM ReturnedCallSurvivesHolds ==
    OrderedMetadata => (Spec => ReturnedCallSurvives)
<1> SUFFICES ASSUME OrderedMetadata PROVE Spec => ReturnedCallSurvives
  OBVIOUS
<1>1. IInv /\ PowerLoss => disk'[Latest] >= promised
  <2> SUFFICES ASSUME IInv, PowerLoss PROVE disk'[Latest] >= promised
    OBVIOUS
  <2>1. PICK n \in 0 .. Len(pending) :
            disk' = Settled(AfterSome(disk, pending, 1 .. n))
    BY DEF PowerLoss, Survivals
  <2>2. /\ AfterSome(disk, pending, 1 .. n) \in FileSystems
        /\ Complete(AfterSome(disk, pending, 1 .. n), promised)
    BY KeptIsFileSystem DEF IInv, TypeOK, AlwaysComplete, AllComplete
  <2>3. disk' \in FileSystems /\ Complete(disk', promised)
    BY <2>1, <2>2, CompleteIsSettled
  <2>4. promised <= disk'[Latest]
    BY <2>3 DEF Complete
  <2>5. Latest \in Entries
    BY DEF Entries
  <2> QED
    BY <2>3, <2>4, <2>5 DEF FileSystems, IInv, TypeOK
<1> QED
  BY <1>1, IInvHolds, PTL DEF ReturnedCallSurvives, Spec
=============================================================================
