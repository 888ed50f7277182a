----------------------------- MODULE Mpd_proofs ------------------------------
(***************************************************************************)
(* Proofs about MPD's player: its store of folders, for any library, and   *)
(* the wire to MPD, for any callers, stoppers and reconnects that raise.   *)
(***************************************************************************)
EXTENDS MCMpd, FunctionTheorems, FiniteSetTheorems, SequenceTheorems, TLAPS

(* The store.                                                                 *)

StoreSpec == StoreInit /\ [][StoreNext]_storeVars

Names == Folders \cup {Nothing}
Stores == [played : Names, swiped : Names, entries : SUBSET Folders]

StoreTypeOK ==
  /\ memory \in Stores /\ disk \in Stores
  /\ pointer \in Names /\ target \in Names /\ excused \in BOOLEAN
  /\ player \in [pc : {"none", "played", "entry", "point", "save", "write", "trigger"},
                 folder : Names, shot : Stores]
  /\ closing \in [pc : {"none", "write", "done"}, shot : Stores]

\* A store that a start may rely on: it names the folder f and has its entry.
Resumes(store, f) == store.played = f /\ (f # Nothing => f \in store.entries)

\* What makes the property inductive: between its steps, a call of play_folder
\* has brought the memory as far as the next one needs it, and what either saver
\* is about to write names the folder that is then the target.
StoreInv ==
  /\ StoreTypeOK
  /\ player.pc \in {"played", "entry", "point", "save", "write"} => player.folder \in Folders
  /\ player.pc \in {"entry", "point", "save"} => memory.played = player.folder
  /\ player.pc \in {"point", "save"} => player.folder \in memory.entries
  /\ player.pc = "write" => Resumes(player.shot, player.folder) /\ Resumes(memory, player.folder)
  /\ ~excused =>
       /\ Resumes(disk, target)
       /\ player.pc \in {"none", "played", "trigger"} => Resumes(memory, target)
       /\ closing.pc = "write" => /\ Resumes(closing.shot, target)
                                  /\ player.pc \in {"none", "played", "trigger"}

\* What either saver is about to write can be resumed from.
LEMMA StoreInvariant == StoreSpec => []StoreInv
<1> USE DEF StoreInv, StoreTypeOK, Resumes, Stores, Names
<1>1. StoreInit => StoreInv
  <2> SUFFICES ASSUME StoreInit PROVE StoreInv
    OBVIOUS
  <2>1. Blank \in Stores /\ Blank.played = Nothing
    BY DEF Blank
  <2>2. StoreTypeOK
    BY <2>1 DEF StoreInit, NoCall
  <2>3. QED
    BY <2>1, <2>2, StoreAssumption DEF StoreInit, NoCall
<1>2. StoreInv /\ [StoreNext]_storeVars => StoreInv'
  <2> SUFFICES ASSUME StoreInv, [StoreNext]_storeVars PROVE StoreInv'
    OBVIOUS
  <2>1. ASSUME NEW f \in Folders, WebFolder(f) PROVE StoreInv'
    BY <2>1, StoreAssumption DEF WebFolder, NoCall, Blank
  <2>2. ASSUME NEW f \in Folders, NEW replay \in BOOLEAN, SwipeCard(f, replay) PROVE StoreInv'
    BY <2>2, StoreAssumption DEF SwipeCard, NoCall, Blank
  <2>3. CASE SetPlayed
    BY <2>3 DEF SetPlayed
  <2>4. CASE EnsureEntry
    BY <2>4 DEF EnsureEntry
  <2>5. CASE PointAtEntry
    BY <2>5 DEF PointAtEntry
  <2>6. CASE Snapshot
    BY <2>6 DEF Snapshot
  <2>7. ASSUME NEW ok \in BOOLEAN, WriteSnapshot(ok) PROVE StoreInv'
    BY <2>7 DEF WriteSnapshot, Write, Blank
  <2>8. CASE Trigger
    BY <2>8 DEF Trigger, NoCall, Blank
  <2>9. CASE ExitSnapshot
    <3>1. StoreTypeOK'
      BY <2>9 DEF ExitSnapshot
    <3>2. QED
      BY <2>9, <3>1 DEF ExitSnapshot
  <2>10. ASSUME NEW ok \in BOOLEAN, ExitWrite(ok) PROVE StoreInv'
    BY <2>10 DEF ExitWrite, Write, Blank
  <2>11. CASE Restart
    <3>1. memory' \in Stores /\ memory'.played = disk.played /\ memory'.entries = disk.entries
      BY <2>11 DEF Restart, Boot
    <3>2. StoreTypeOK'
      BY <2>11, <3>1 DEF Restart, Boot, NoCall, Blank
    <3>3. QED
      BY <2>11, <3>1, <3>2 DEF Restart, Boot, NoCall
  <2>12. CASE UNCHANGED storeVars
    BY <2>12 DEF storeVars
  <2>13. QED
    BY <2>1, <2>2, <2>3, <2>4, <2>5, <2>6, <2>7, <2>8, <2>9, <2>10, <2>11, <2>12
       DEF StoreNext
<1>3. QED
  BY <1>1, <1>2, PTL DEF StoreSpec

\* The folder to resume survives every end of the daemon, for any library and any
\* number of calls, saves and crashes.
THEOREM ResumeTargetsSurvive == StoreSpec => []ResumeTargetSurvives
<1>1. StoreInv => ResumeTargetSurvives
  BY DEF StoreInv, Resumes, ResumeTargetSurvives
<1>2. QED
  BY <1>1, StoreInvariant, PTL

----------------------------------------------------------------------------
(* The wire.                                                                  *)

WireSpec == WireInit /\ [][WireNext]_wireVars

\* What a thread's operations are.
Ops == {"plugs+", "plugs-", "wire+", "wire-", "method", "cmd", "try", "catch", "ask",
        "clear", "play", "mpd", "podcast", "fork", "join", "swap to mpd",
        "swap to podcast", "dead"}

Locks == {l \in [owner : Threads \cup {NoThread}, depth : Nat] : l.owner = NoThread <=> l.depth = 0}
DepthOf(lock, t) == IF lock.owner = t THEN lock.depth ELSE 0

\* After the first c operations a queue is yet to be started, by one who holds at
\* least one block more than it leaves until then.
PlayFollows(s, c, d) ==
  \E k \in (c + 1)..Len(s) : s[k] = "play" /\ \A i \in c..k : WireLeft(s, i) < d

\* What one who holds the lock d times may have to do: it never leaves more blocks
\* than it is in, a place where exceptions are caught or its end is outside all blocks
\* entered on the way, and a queue that is cleared is started in the same block.
Fits(s, d) ==
  /\ s \in Seq(Ops)
  /\ \A i \in 0..Len(s) : WireLeft(s, i) <= d
  /\ \A e \in 1..Len(s) : s[e] = "catch" \/ e = Len(s) =>
       \A i \in 0..e : WireLeft(s, i) <= WireLeft(s, e)
  /\ \A c \in 1..Len(s) : s[c] = "clear" => PlayFollows(s, c, d)

WireInv ==
  /\ todo \in [Threads -> Seq(Ops)] /\ wire \in Locks /\ current \in {"mpd", "podcast"}
  /\ \A t \in Threads : Fits(todo[t], DepthOf(wire, t))
  /\ rebuild # NoThread =>
       rebuild \in Threads /\ PlayFollows(todo[rebuild], 0, DepthOf(wire, rebuild))

\* Counting the first operations of a sequence.
LEMMA CountType ==
  ASSUME NEW s, NEW n \in Nat, NEW op
  PROVE  Count(s, n, op) \in Nat /\ IsFiniteSet({i \in 1..n : s[i] = op})
<1>1. IsFiniteSet(1..n)
  BY FS_Interval
<1>2. {i \in 1..n : s[i] = op} \in SUBSET (1..n)
  OBVIOUS
<1> QED  BY <1>1, <1>2, FS_Subset, FS_CardinalityType DEF Count

\* Only the operations that are counted matter.
LEMMA CountSame ==
  ASSUME NEW s, NEW r, NEW n \in Nat, \A i \in 1..n : r[i] = s[i], NEW op
  PROVE  Count(r, n, op) = Count(s, n, op)
<1>1. {i \in 1..n : r[i] = op} = {i \in 1..n : s[i] = op}
  OBVIOUS
<1> QED  BY <1>1 DEF Count

\* Where there are none the count is zero,
LEMMA CountNone ==
  ASSUME NEW s, NEW n \in Nat, NEW op, \A i \in 1..n : s[i] # op
  PROVE  Count(s, n, op) = 0
<1>1. {i \in 1..n : s[i] = op} = {}
  OBVIOUS
<1> QED  BY <1>1, FS_EmptySet DEF Count

\* and the first is counted if it is one.
LEMMA CountOne ==
  ASSUME NEW s, NEW op
  PROVE  Count(s, 1, op) = IF s[1] = op THEN 1 ELSE 0
<1>1. {i \in 1..1 : s[i] = op} = IF s[1] = op THEN {1} ELSE {}
  OBVIOUS
<1> QED  BY <1>1, FS_EmptySet, FS_Singleton DEF Count

\* The first n of r are those of s after its first m.
Follows(r, s, m, n) == \A i \in 1..n : r[i] = s[m + i]

\* What is counted in a part is what is counted up to its end less what was before it.
LEMMA CountShift ==
  ASSUME NEW s, NEW r, NEW m \in Nat, NEW n \in Nat, NEW k, k = m + n,
         Follows(r, s, m, n), NEW op
  PROVE  Count(s, k, op) = Count(s, m, op) + Count(r, n, op)
<1> DEFINE A == {i \in 1..m : s[i] = op}
           B == {i \in (m + 1)..(m + n) : s[i] = op}
           R == {i \in 1..n : r[i] = op}
           f == [i \in R |-> m + i]
<1>1. {i \in 1..(m + n) : s[i] = op} = A \cup B /\ A \cap B = {}
  OBVIOUS
<1>2. IsFiniteSet(A) /\ IsFiniteSet(R)
  <2>1. IsFiniteSet(A)
    BY CountType
  <2>2. IsFiniteSet(R)
    BY CountType
  <2> QED  BY <2>1, <2>2
<1>3. f \in Bijection(R, B)
  <2> USE DEF Follows
  <2>1. f \in [R -> B]
    OBVIOUS
  <2>2. \A i, j \in R : f[i] = f[j] => i = j
    OBVIOUS
  <2>3. \A b \in B : \E i \in R : f[i] = b
    <3> SUFFICES ASSUME NEW b \in B PROVE \E i \in R : f[i] = b
      OBVIOUS
    <3>1. b - m \in R /\ f[b - m] = b
      OBVIOUS
    <3> QED  BY <3>1
  <2> HIDE DEF R, B, f
  <2>4. IsInjective(f)
    BY <2>1, <2>2 DEF IsInjective
  <2>5. f \in Injection(R, B)
    BY <2>1, <2>4 DEF Injection
  <2>6. f \in Surjection(R, B)
    BY <2>1, <2>3 DEF Surjection
  <2> QED  BY <2>5, <2>6 DEF Bijection
<1>4. ExistsBijection(R, B)
  BY <1>3 DEF ExistsBijection
<1> HIDE DEF A, B, R, f
<1>5. IsFiniteSet(B) /\ Cardinality(B) = Cardinality(R)
  BY <1>2, <1>4, FS_Bijection
<1>6. Cardinality(A \cup B) = Cardinality(A) + Cardinality(B) - Cardinality(A \cap B)
  BY <1>2, <1>5, FS_Union
<1>7. Cardinality(A) \in Nat /\ Cardinality(B) \in Nat
  BY <1>2, <1>5, FS_CardinalityType
<1>8. Cardinality(A \cup B) = Cardinality(A) + Cardinality(R)
  <2>1. A \cap B = {}
    BY <1>1
  <2> QED  BY <2>1, <1>5, <1>6, <1>7, FS_EmptySet
<1> QED  BY <1>1, <1>8 DEF Count, A, B, R

\* The blocks left, in the same terms.
LEMMA LeftType ==
  ASSUME NEW s, NEW n \in Nat
  PROVE  WireLeft(s, n) \in Int /\ WireLeft(s, 0) = 0
<1>1. \A op : Count(s, n, op) \in Nat
  BY CountType
<1>2. \A op : Count(s, 0, op) = 0
  BY CountNone
<1> QED  BY <1>1, <1>2 DEF WireLeft

\* Only the operations up to there matter,
LEMMA LeftSame ==
  ASSUME NEW s, NEW r, NEW n \in Nat, \A i \in 1..n : r[i] = s[i]
  PROVE  WireLeft(r, n) = WireLeft(s, n)
BY CountSame DEF WireLeft

\* those of a part are added to those before it,
LEMMA LeftShift ==
  ASSUME NEW s, NEW r, NEW m \in Nat, NEW n \in Nat, NEW k, k = m + n,
         Follows(r, s, m, n)
  PROVE  WireLeft(s, k) = WireLeft(s, m) + WireLeft(r, n)
<1>1. ASSUME NEW op PROVE Count(s, k, op) = Count(s, m, op) + Count(r, n, op)
  BY CountShift
<1>2. \A op : Count(s, m, op) \in Nat /\ Count(r, n, op) \in Nat
  BY CountType
<1> QED  BY <1>1, <1>2 DEF WireLeft

\* operations that enter and leave nothing leave nothing,
LEMMA LeftNone ==
  ASSUME NEW s, NEW n \in Nat, \A i \in 1..n : s[i] \notin {"wire+", "wire-"}
  PROVE  WireLeft(s, n) = 0
BY CountNone DEF WireLeft

\* and one that does leaves or enters one block.
LEMMA LeftOne ==
  ASSUME NEW s
  PROVE  WireLeft(s, 1) = IF s[1] = "wire-" THEN 1 ELSE IF s[1] = "wire+" THEN -1 ELSE 0
BY CountOne DEF WireLeft

\* What is left of the operations once the first n are done still fits.
LEMMA FitsDrop ==
  ASSUME NEW s, NEW d \in Int, Fits(s, d), NEW n \in 0..Len(s),
         NEW r \in Seq(Ops), Len(r) = Len(s) - n, Follows(r, s, n, Len(r))
  PROVE  /\ Fits(r, d - WireLeft(s, n))
         /\ \A c \in 0..Len(s) : n <= c /\ PlayFollows(s, c, d)
                                   => PlayFollows(r, c - n, d - WireLeft(s, n))
<1>1. s \in Seq(Ops) /\ Len(s) \in Nat /\ Len(r) \in Nat /\ n \in Nat
  BY LenProperties DEF Fits
<1>2. \A i \in 0..Len(s) : WireLeft(s, i) \in Int
  BY <1>1, LeftType
<1>3. \A i \in 0..Len(r) : WireLeft(s, n + i) = WireLeft(s, n) + WireLeft(r, i)
                             /\ WireLeft(r, i) \in Int
  <2> SUFFICES ASSUME NEW i \in 0..Len(r)
               PROVE  WireLeft(s, n + i) = WireLeft(s, n) + WireLeft(r, i) /\ WireLeft(r, i) \in Int
    OBVIOUS
  <2>1. i \in Nat /\ Follows(r, s, n, i)
    BY <1>1 DEF Follows
  <2>2. WireLeft(s, n + i) = WireLeft(s, n) + WireLeft(r, i)
    BY <1>1, <2>1, LeftShift
  <2> QED  BY <1>1, <2>1, <2>2, LeftType
<1> DEFINE rest == d - WireLeft(s, n)
<1>4. \A i \in 0..Len(r) : /\ (WireLeft(r, i) < rest <=> WireLeft(s, n + i) < d)
                             /\ (WireLeft(r, i) <= rest <=> WireLeft(s, n + i) <= d)
  <2> SUFFICES ASSUME NEW i \in 0..Len(r)
               PROVE  /\ (WireLeft(r, i) < rest <=> WireLeft(s, n + i) < d)
                      /\ (WireLeft(r, i) <= rest <=> WireLeft(s, n + i) <= d)
    OBVIOUS
  <2> DEFINE x == WireLeft(s, n)
             y == WireLeft(r, i)
  <2>1. x \in Int /\ y \in Int /\ WireLeft(s, n + i) = x + y
    BY <1>1, <1>2, <1>3
  <2> HIDE DEF x, y
  <2>2. y < d - x <=> x + y < d
    BY <2>1
  <2>3. y <= d - x <=> x + y <= d
    BY <2>1
  <2> QED  BY <2>1, <2>2, <2>3 DEF x, y
<1>5. ASSUME NEW c \in 0..Len(s), n <= c, PlayFollows(s, c, d)
      PROVE  PlayFollows(r, c - n, rest)
  <2>1. PICK k \in (c + 1)..Len(s) : s[k] = "play" /\ \A i \in c..k : WireLeft(s, i) < d
    BY <1>5 DEF PlayFollows
  <2>2. k - n \in (c - n + 1)..Len(r) /\ r[k - n] = "play"
    BY <1>1, <1>5, <2>1 DEF Follows
  <2>3. \A i \in (c - n)..(k - n) : WireLeft(r, i) < rest
    <3> SUFFICES ASSUME NEW i \in (c - n)..(k - n) PROVE WireLeft(r, i) < rest
      OBVIOUS
    <3>1. n + i \in c..k /\ i \in 0..Len(r) /\ n + i \in 0..Len(s)
      BY <1>1, <1>5, <2>1
    <3>2. WireLeft(s, n + i) < d
      BY <2>1, <3>1
    <3> QED  BY <1>4, <3>1, <3>2
  <2> QED  BY <2>2, <2>3 DEF PlayFollows
<1>6. \A i \in 0..Len(r) : WireLeft(r, i) <= rest
  <2> SUFFICES ASSUME NEW i \in 0..Len(r) PROVE WireLeft(r, i) <= rest
    OBVIOUS
  <2>1. n + i \in 0..Len(s)
    BY <1>1
  <2>2. WireLeft(s, n + i) <= d
    BY <2>1 DEF Fits
  <2> QED  BY <1>4, <2>1, <2>2
<1>7. ASSUME NEW e \in 1..Len(r), r[e] = "catch" \/ e = Len(r), NEW i \in 0..e
      PROVE  WireLeft(r, i) <= WireLeft(r, e)
  <2>1. n + e \in 1..Len(s) /\ n + i \in 0..(n + e) /\ (s[n + e] = "catch" \/ n + e = Len(s))
        /\ n + i \in 0..Len(s)
    BY <1>1, <1>7 DEF Follows
  <2>2. WireLeft(s, n + i) <= WireLeft(s, n + e)
    BY <2>1 DEF Fits
  <2> QED  BY <1>1, <1>2, <1>3, <2>1, <2>2
<1>8. ASSUME NEW c \in 1..Len(r), r[c] = "clear" PROVE PlayFollows(r, c, rest)
  <2>1. n + c \in 1..Len(s) /\ s[n + c] = "clear" /\ n + c \in 0..Len(s) /\ n <= n + c /\ (n + c) - n = c
    BY <1>1, <1>8 DEF Follows
  <2>2. PlayFollows(s, n + c, d)
    BY <2>1 DEF Fits
  <2> HIDE DEF rest
  <2> QED  BY <1>5, <2>1, <2>2
<1>9. Fits(r, rest)
  BY <1>6, <1>7, <1>8 DEF Fits
<1> QED  BY <1>5, <1>9

\* One who holds the lock more often may do as much.
LEMMA FitsMore ==
  ASSUME NEW s, NEW d \in Int, NEW e \in Int, d <= e, Fits(s, d)
  PROVE  Fits(s, e)
<1>1. s \in Seq(Ops) /\ Len(s) \in Nat
  BY LenProperties DEF Fits
<1>2. \A i \in 0..Len(s) : WireLeft(s, i) \in Int /\ WireLeft(s, i) <= d
  BY <1>1, LeftType DEF Fits
<1>3. ASSUME NEW c \in 1..Len(s), s[c] = "clear" PROVE PlayFollows(s, c, e)
  <2>1. PICK k \in (c + 1)..Len(s) : s[k] = "play" /\ \A i \in c..k : WireLeft(s, i) < d
    BY <1>3 DEF Fits, PlayFollows
  <2>2. \A i \in c..k : WireLeft(s, i) < e
    BY <1>1, <1>2, <2>1
  <2> QED  BY <2>1, <2>2 DEF PlayFollows
<1>4. \A i \in 0..Len(s) : WireLeft(s, i) <= e
  BY <1>2
<1> QED  BY <1>1, <1>3, <1>4 DEF Fits

\* Two programs one after the other.
LEMMA JoinParts ==
  ASSUME NEW p \in Seq(Ops), NEW r \in Seq(Ops)
  PROVE  /\ p \o r \in Seq(Ops) /\ Len(p) \in Nat /\ Len(r) \in Nat /\ Len(p \o r) = Len(p) + Len(r)
         /\ \A i \in 1..Len(p) : (p \o r)[i] = p[i]
         /\ \A j \in 1..Len(r) : (p \o r)[Len(p) + j] = r[j]
         /\ \A i \in 0..Len(p) : WireLeft(p \o r, i) = WireLeft(p, i) /\ WireLeft(p, i) \in Int
         /\ \A j \in 0..Len(r) :
               /\ WireLeft(p \o r, Len(p) + j) = WireLeft(p, Len(p)) + WireLeft(r, j)
               /\ WireLeft(r, j) \in Int
<1> DEFINE x == p \o r
<1>1. /\ x \in Seq(Ops) /\ Len(p) \in Nat /\ Len(r) \in Nat /\ Len(x) = Len(p) + Len(r)
      /\ \A i \in 1..(Len(p) + Len(r)) : x[i] = IF i <= Len(p) THEN p[i] ELSE r[i - Len(p)]
  BY ConcatProperties, LenProperties
<1> HIDE DEF x
<1>2. \A i \in 1..Len(p) : x[i] = p[i]
  BY <1>1
<1>3. \A j \in 1..Len(r) : x[Len(p) + j] = r[j]
  <2> SUFFICES ASSUME NEW j \in 1..Len(r) PROVE x[Len(p) + j] = r[j]
    OBVIOUS
  <2>1. Len(p) + j \in 1..(Len(p) + Len(r)) /\ ~(Len(p) + j <= Len(p)) /\ (Len(p) + j) - Len(p) = j
    BY <1>1
  <2> QED  BY <1>1, <2>1
<1>4. ASSUME NEW i \in 0..Len(p) PROVE WireLeft(x, i) = WireLeft(p, i) /\ WireLeft(p, i) \in Int
  <2>1. i \in Nat /\ \A j \in 1..i : x[j] = p[j]
    BY <1>1, <1>2
  <2> QED  BY <2>1, LeftSame, LeftType
<1>5. ASSUME NEW j \in 0..Len(r)
      PROVE  /\ WireLeft(x, Len(p) + j) = WireLeft(p, Len(p)) + WireLeft(r, j)
             /\ WireLeft(r, j) \in Int
  <2>1. j \in Nat /\ Follows(r, x, Len(p), j)
    BY <1>1, <1>3 DEF Follows
  <2>2. WireLeft(x, Len(p) + j) = WireLeft(x, Len(p)) + WireLeft(r, j)
    BY <1>1, <2>1, LeftShift
  <2>3. WireLeft(x, Len(p)) = WireLeft(p, Len(p))
    BY <1>1, <1>4
  <2> QED  BY <2>1, <2>2, <2>3, LeftType
<1> QED  BY <1>1, <1>2, <1>3, <1>4, <1>5 DEF x

\* A program that ends in as many blocks as it began in, is in no fewer on the way, and
\* starts the queue it clears while in fewer than d of the blocks it began in are left.
Whole(p, d) ==
  /\ p \in Seq(Ops)
  /\ \A i \in 0..Len(p) : WireLeft(p, i) <= 0
  /\ WireLeft(p, Len(p)) = 0
  /\ \A e \in 1..Len(p) : p[e] = "catch" => WireLeft(p, e) = 0
  /\ \A c \in 1..Len(p) : p[c] = "clear" => PlayFollows(p, c, d)

\* It may be done first whatever else there is to do.
LEMMA WholeFirst ==
  ASSUME NEW p, NEW r, NEW d \in Nat, Whole(p, 0), Fits(r, d)
  PROVE  /\ Fits(p \o r, d)
         /\ PlayFollows(r, 0, d) => PlayFollows(p \o r, 0, d)
<1> DEFINE x == p \o r
           n == Len(p)
<1>1. p \in Seq(Ops) /\ r \in Seq(Ops)
  BY DEF Whole, Fits
<1>2. /\ x \in Seq(Ops) /\ n \in Nat /\ Len(r) \in Nat /\ Len(x) = n + Len(r)
      /\ \A i \in 1..n : x[i] = p[i]
      /\ \A j \in 1..Len(r) : x[n + j] = r[j]
      /\ \A i \in 0..n : WireLeft(x, i) = WireLeft(p, i) /\ WireLeft(p, i) \in Int
      /\ \A j \in 0..Len(r) : /\ WireLeft(x, n + j) = WireLeft(p, n) + WireLeft(r, j)
                              /\ WireLeft(r, j) \in Int
  BY <1>1, JoinParts
<1>3. WireLeft(p, n) = 0 /\ \A i \in 0..n : WireLeft(p, i) <= 0
  BY DEF Whole
<1>4. \A i \in 0..n : WireLeft(x, i) \in Int /\ WireLeft(x, i) <= 0
  BY <1>2, <1>3
<1>5. \A j \in 0..Len(r) : WireLeft(x, n + j) = WireLeft(r, j) /\ WireLeft(r, j) \in Int
  BY <1>2, <1>3
<1> HIDE DEF x, n
<1>6. ASSUME NEW i \in 0..Len(x)
      PROVE  i \in 0..n \/ \E j \in 0..Len(r) : i = n + j
  <2>1. i \in 0..n \/ (i - n \in 0..Len(r) /\ i = n + (i - n))
    BY <1>2
  <2> QED  BY <2>1
<1>7. \A i \in 0..Len(x) : WireLeft(x, i) <= d
  <2> SUFFICES ASSUME NEW i \in 0..Len(x) PROVE WireLeft(x, i) <= d
    OBVIOUS
  <2>1. CASE i \in 0..n
    BY <1>4, <2>1
  <2>2. ASSUME NEW j \in 0..Len(r), i = n + j PROVE WireLeft(x, i) <= d
    BY <1>5, <2>2 DEF Fits
  <2> QED  BY <1>6, <2>1, <2>2
<1>13. n \in Nat /\ Len(r) \in Nat /\ Len(x) = n + Len(r)
  BY <1>2
<1>14. \A j \in 1..Len(r) : x[n + j] = r[j]
  BY <1>2
<1>8. ASSUME NEW e \in 1..Len(x), x[e] = "catch" \/ e = Len(x), NEW i \in 0..e
      PROVE  WireLeft(x, i) <= WireLeft(x, e)
  <2>1. CASE e \in 0..n
    <3>1. e \in 1..n /\ i \in 0..n /\ p[e] = x[e] /\ (p[e] = "catch" \/ e = n)
      BY <1>2, <1>8, <2>1
    <3>2. WireLeft(p, e) = 0
      BY <1>1, <1>3, <3>1 DEF Whole, n
    <3> QED  BY <1>2, <1>4, <3>1, <3>2
  <2>2. ASSUME NEW j \in 1..Len(r), e = n + j PROVE WireLeft(x, i) <= WireLeft(x, e)
    <3>1. (r[j] = "catch" \/ j = Len(r)) /\ i \in 0..Len(x) /\ j \in 0..Len(r)
      BY <1>2, <1>8, <2>2
    <3>2. \A k \in 0..j : WireLeft(r, k) <= WireLeft(r, j)
      BY <3>1 DEF Fits
    <3>3. WireLeft(r, 0) = 0
      BY LeftType
    <3>4. 0 <= WireLeft(r, j)
      BY <1>2, <3>2, <3>3
    <3>5. CASE i \in 0..n
      BY <1>4, <1>5, <2>2, <3>1, <3>4, <3>5
    <3>6. ASSUME NEW k \in 0..Len(r), i = n + k PROVE WireLeft(x, i) <= WireLeft(x, e)
      <4>1. k \in 0..j
        BY <1>2, <1>8, <2>2, <3>6
      <4> QED  BY <1>5, <2>2, <3>1, <3>2, <3>6, <4>1
    <3> QED  BY <1>6, <3>1, <3>5, <3>6
  <2>3. e \in 0..n \/ \E j \in 1..Len(r) : e = n + j
    <3>1. e \in 0..n \/ (e - n \in 1..Len(r) /\ e = n + (e - n))
      BY <1>2, <1>8
    <3> QED  BY <3>1
  <2> QED  BY <2>1, <2>2, <2>3
<1>9. ASSUME NEW c \in 0..Len(r), PlayFollows(r, c, d) PROVE PlayFollows(x, n + c, d)
  <2>1. PICK k \in (c + 1)..Len(r) : r[k] = "play" /\ \A i \in c..k : WireLeft(r, i) < d
    BY <1>9 DEF PlayFollows
  <2>2. n + k \in (n + c + 1)..Len(x) /\ k \in 1..Len(r)
    BY <1>13, <2>1
  <2>4. x[n + k] = "play"
    BY <1>14, <2>1, <2>2
  <2>3. \A i \in (n + c)..(n + k) : WireLeft(x, i) < d
    <3> SUFFICES ASSUME NEW i \in (n + c)..(n + k) PROVE WireLeft(x, i) < d
      OBVIOUS
    <3>1. i - n \in c..k /\ i - n \in 0..Len(r) /\ i = n + (i - n)
      BY <1>13, <2>1
    <3> QED  BY <1>5, <2>1, <3>1
  <2> QED  BY <2>2, <2>4, <2>3 DEF PlayFollows
<1>10. ASSUME NEW c \in 1..Len(x), x[c] = "clear" PROVE PlayFollows(x, c, d)
  <2>1. CASE c \in 1..n
    <3>1. p[c] = "clear"
      BY <1>2, <1>10, <2>1
    <3>2. PICK k \in (c + 1)..n : p[k] = "play" /\ \A i \in c..k : WireLeft(p, i) < 0
      BY <2>1, <3>1 DEF Whole, PlayFollows, n
    <3>3. k \in (c + 1)..Len(x) /\ x[k] = "play"
      BY <1>2, <2>1, <3>2
    <3>4. \A i \in c..k : WireLeft(x, i) < d
      BY <1>2, <2>1, <3>2
    <3> QED  BY <3>3, <3>4 DEF PlayFollows
  <2>2. ASSUME NEW j \in 1..Len(r), c = n + j PROVE PlayFollows(x, c, d)
    <3>1. r[j] = "clear" /\ j \in 0..Len(r)
      BY <1>13, <1>14, <1>10, <2>2
    <3>2. PlayFollows(r, j, d)
      BY <3>1 DEF Fits
    <3> QED  BY <1>9, <2>2, <3>1, <3>2
  <2>3. c \in 1..n \/ (c - n \in 1..Len(r) /\ c = n + (c - n))
    BY <1>13
  <2> QED  BY <2>1, <2>2, <2>3
<1>11. Fits(x, d)
  BY <1>2, <1>7, <1>8, <1>10 DEF Fits
<1>12. ASSUME PlayFollows(r, 0, d) PROVE PlayFollows(x, 0, d)
  <2>1. PICK k \in (0 + 1)..Len(r) : r[k] = "play" /\ \A i \in 0..k : WireLeft(r, i) < d
    BY <1>12 DEF PlayFollows
  <2>2. n + k \in (0 + 1)..Len(x) /\ x[n + k] = "play"
    BY <1>2, <2>1
  <2>3. \A i \in 0..(n + k) : WireLeft(x, i) < d
    <3> SUFFICES ASSUME NEW i \in 0..(n + k) PROVE WireLeft(x, i) < d
      OBVIOUS
    <3>1. 0 < d
      BY <1>2, <2>1, LeftType
    <3>2. CASE i \in 0..n
      BY <1>4, <3>1, <3>2
    <3>3. CASE i - n \in 0..k
      <4>1. i - n \in 0..Len(r) /\ i = n + (i - n)
        BY <1>2, <2>1, <3>3
      <4> QED  BY <1>5, <2>1, <3>3, <4>1
    <3> QED  BY <1>2, <2>1, <3>2, <3>3
  <2> QED  BY <2>2, <2>3 DEF PlayFollows
<1> QED  BY <1>11, <1>12 DEF x

\* A program is whole if, and only if, one outside all blocks may do it and ends there.
LEMMA WholeFits ==
  ASSUME NEW p
  PROVE  Whole(p, 0) <=> Fits(p, 0) /\ WireLeft(p, Len(p)) = 0
<1>1. ASSUME Whole(p, 0) PROVE Fits(p, 0)
  <2>1. p \in Seq(Ops) /\ Len(p) \in Nat
    BY <1>1, LenProperties DEF Whole
  <2>2. \A e \in 1..Len(p) : p[e] = "catch" \/ e = Len(p) => WireLeft(p, e) = 0
    BY <1>1 DEF Whole
  <2>3. \A i \in 0..Len(p) : WireLeft(p, i) <= 0
    BY <1>1 DEF Whole
  <2>4. \A e \in 1..Len(p) : p[e] = "catch" \/ e = Len(p) =>
          \A i \in 0..e : WireLeft(p, i) <= WireLeft(p, e)
    BY <2>1, <2>2, <2>3
  <2> QED  BY <1>1, <2>1, <2>3, <2>4 DEF Whole, Fits
<1>2. ASSUME Fits(p, 0), WireLeft(p, Len(p)) = 0 PROVE Whole(p, 0)
  <2>1. p \in Seq(Ops) /\ Len(p) \in Nat /\ WireLeft(p, 0) = 0
    BY <1>2, LenProperties, LeftType DEF Fits
  <2>2. \A e \in 1..Len(p) : WireLeft(p, e) \in Int
    BY <2>1, LeftType
  <2>3. \A e \in 1..Len(p) : p[e] = "catch" => WireLeft(p, 0) <= WireLeft(p, e) /\ WireLeft(p, e) <= 0
    BY <1>2, <2>1 DEF Fits
  <2>4. \A e \in 1..Len(p) : p[e] = "catch" => WireLeft(p, e) = 0
    BY <2>1, <2>2, <2>3
  <2> QED  BY <1>2, <2>1, <2>4 DEF Whole, Fits
<1> QED  BY <1>1, <1>2 DEF Whole

\* Such a program that catches nothing: what the blocks of a method are made of.
Block(p, d) == Whole(p, d) /\ \A e \in 1..Len(p) : p[e] # "catch"

\* Two whole programs one after the other are a whole one,
LEMMA WholeJoin ==
  ASSUME NEW p, NEW r, Whole(p, 0), Whole(r, 0)
  PROVE  Whole(p \o r, 0)
<1>1. p \in Seq(Ops) /\ r \in Seq(Ops)
  BY DEF Whole
<1>2. Fits(p \o r, 0)
  BY WholeFirst, WholeFits
<1>3. /\ Len(p) \in Nat /\ Len(r) \in Nat /\ Len(p \o r) = Len(p) + Len(r)
      /\ \A j \in 0..Len(r) : WireLeft(p \o r, Len(p) + j) = WireLeft(p, Len(p)) + WireLeft(r, j)
  BY <1>1, JoinParts
<1>4. WireLeft(p, Len(p)) = 0 /\ WireLeft(r, Len(r)) = 0
  BY DEF Whole
<1>5. WireLeft(p \o r, Len(p \o r)) = 0
  BY <1>3, <1>4
<1> QED  BY <1>2, <1>5, WholeFits

\* and two blocks are a block.
LEMMA BlockJoin ==
  ASSUME NEW p, NEW r, Block(p, 0), Block(r, 0)
  PROVE  Block(p \o r, 0)
<1>1. p \in Seq(Ops) /\ r \in Seq(Ops)
  BY DEF Block, Whole
<1>2. Whole(p \o r, 0)
  BY WholeJoin DEF Block
<1>3. /\ Len(p) \in Nat /\ Len(r) \in Nat /\ Len(p \o r) = Len(p) + Len(r)
      /\ \A i \in 1..Len(p) : (p \o r)[i] = p[i]
      /\ \A j \in 1..Len(r) : (p \o r)[Len(p) + j] = r[j]
  BY <1>1, JoinParts
<1>4. ASSUME NEW e \in 1..Len(p \o r) PROVE (p \o r)[e] # "catch"
  <2>1. CASE e \in 1..Len(p)
    BY <1>3, <2>1 DEF Block
  <2>2. ASSUME NEW j \in 1..Len(r), e = Len(p) + j PROVE (p \o r)[e] # "catch"
    BY <1>3, <2>2 DEF Block
  <2>3. e \in 1..Len(p) \/ (e - Len(p) \in 1..Len(r) /\ e = Len(p) + (e - Len(p)))
    BY <1>3
  <2> QED  BY <2>1, <2>2, <2>3
<1> QED  BY <1>2, <1>4 DEF Block

\* Operations that enter and leave no block and clear no queue.
LEMMA PlainIsWhole ==
  ASSUME NEW p \in Seq(Ops), \A i \in 1..Len(p) : p[i] \notin {"wire+", "wire-", "clear"}
  PROVE  Whole(p, 0) /\ ((\A e \in 1..Len(p) : p[e] # "catch") => Block(p, 0))
<1>1. Len(p) \in Nat
  BY LenProperties
<1>2. ASSUME NEW i \in 0..Len(p) PROVE WireLeft(p, i) = 0
  <2>1. i \in Nat /\ \A j \in 1..i : p[j] \notin {"wire+", "wire-"}
    BY <1>1
  <2> QED  BY <2>1, LeftNone
<1>3. Whole(p, 0)
  BY <1>1, <1>2 DEF Whole
<1> QED  BY <1>3 DEF Block

\* A block may always be put inside another one.
LEMMA BlockMore ==
  ASSUME NEW p, Block(p, 0)
  PROVE  Block(p, 1)
<1>1. p \in Seq(Ops) /\ Len(p) \in Nat /\ Fits(p, 0)
  BY LenProperties, WholeFits DEF Block, Whole
<1>2. Fits(p, 1)
  BY <1>1, FitsMore
<1> QED  BY <1>2 DEF Block, Whole, Fits

\* An operation is a program of length one.
LEMMA SingleOp ==
  ASSUME NEW op \in Ops
  PROVE  <<op>> \in Seq(Ops) /\ Len(<<op>>) = 1 /\ <<op>>[1] = op
OBVIOUS

\* A program between two operations.
Bracket(op, p, last) == <<op>> \o p \o <<last>>

\* Where the operations of a bracketed program are, and what they leave.
LEMMA Between ==
  ASSUME NEW op \in Ops, NEW last \in Ops, NEW p \in Seq(Ops)
  PROVE  LET x == Bracket(op, p, last)
             n == Len(p)
         IN  /\ x \in Seq(Ops) /\ n \in Nat /\ Len(x) = n + 2
             /\ x[1] = op /\ x[n + 2] = last
             /\ \A j \in 1..n : x[1 + j] = p[j]
             /\ \A j \in 0..n : WireLeft(p, j) \in Int
             /\ WireLeft(x, 0) = 0
             /\ \A j \in 0..n : WireLeft(x, 1 + j) = WireLeft(<<op>>, 1) + WireLeft(p, j)
             /\ WireLeft(x, n + 2) = WireLeft(<<op>>, 1) + WireLeft(p, n) + WireLeft(<<last>>, 1)
<1> DEFINE x == Bracket(op, p, last)
           n == Len(p)
           a == <<op>>
           b == <<last>>
           y == a \o p
<1>1. n \in Nat
  BY LenProperties
<1>2. /\ a \in Seq(Ops) /\ Len(a) = 1 /\ a[1] = op
      /\ b \in Seq(Ops) /\ Len(b) = 1 /\ b[1] = last
  BY SingleOp
<1>3. /\ WireLeft(a, 0) = 0 /\ WireLeft(a, 1) \in Int
      /\ WireLeft(b, 0) = 0 /\ WireLeft(b, 1) \in Int
  BY LeftType
<1>4. /\ y \in Seq(Ops) /\ Len(y) = Len(a) + Len(p)
      /\ \A i \in 1..Len(a) : y[i] = a[i]
      /\ \A j \in 1..Len(p) : y[Len(a) + j] = p[j]
      /\ \A i \in 0..Len(a) : WireLeft(y, i) = WireLeft(a, i)
      /\ \A j \in 0..Len(p) : /\ WireLeft(y, Len(a) + j) = WireLeft(a, Len(a)) + WireLeft(p, j)
                              /\ WireLeft(p, j) \in Int
  BY <1>2, JoinParts
<1>5. x = y \o b
  BY DEF Bracket
<1>15. y \in Seq(Ops)
  BY <1>4
<1> HIDE DEF a, b, y, x
<1>6. /\ y \in Seq(Ops) /\ Len(y) = 1 + n /\ y[1] = op
      /\ \A j \in 1..n : y[1 + j] = p[j]
      /\ WireLeft(y, 0) = 0
      /\ \A j \in 0..n : WireLeft(y, 1 + j) = WireLeft(a, 1) + WireLeft(p, j) /\ WireLeft(p, j) \in Int
  BY <1>2, <1>3, <1>4
<1>7. /\ x \in Seq(Ops) /\ Len(x) = Len(y) + Len(b)
      /\ \A i \in 1..Len(y) : x[i] = y[i]
      /\ \A j \in 1..Len(b) : x[Len(y) + j] = b[j]
      /\ \A i \in 0..Len(y) : WireLeft(x, i) = WireLeft(y, i)
      /\ \A j \in 0..Len(b) : WireLeft(x, Len(y) + j) = WireLeft(y, Len(y)) + WireLeft(b, j)
  <2>1. /\ y \o b \in Seq(Ops) /\ Len(y \o b) = Len(y) + Len(b)
        /\ \A i \in 1..Len(y) : (y \o b)[i] = y[i]
        /\ \A j \in 1..Len(b) : (y \o b)[Len(y) + j] = b[j]
        /\ \A i \in 0..Len(y) : WireLeft(y \o b, i) = WireLeft(y, i)
        /\ \A j \in 0..Len(b) : WireLeft(y \o b, Len(y) + j) = WireLeft(y, Len(y)) + WireLeft(b, j)
    BY <1>2, <1>15, JoinParts
  <2> QED  BY <1>5, <2>1
<1>8. x[Len(y) + 1] = last /\ WireLeft(x, Len(y) + 1) = WireLeft(y, Len(y)) + WireLeft(b, 1)
  <2>1. 1 \in 1..Len(b) /\ 1 \in 0..Len(b)
    BY <1>2
  <2> QED  BY <1>2, <1>7, <2>1
<1>9. Len(y) + 1 = n + 2 /\ Len(x) = n + 2
  BY <1>1, <1>2, <1>6, <1>7
<1>10. x[n + 2] = last /\ WireLeft(x, n + 2) = WireLeft(y, 1 + n) + WireLeft(b, 1)
  BY <1>6, <1>8, <1>9
<1>11. WireLeft(x, n + 2) = WireLeft(a, 1) + WireLeft(p, n) + WireLeft(b, 1)
  <2>1. n \in 0..n
    BY <1>1
  <2>2. WireLeft(y, 1 + n) = WireLeft(a, 1) + WireLeft(p, n) /\ WireLeft(p, n) \in Int
    BY <1>6, <2>1
  <2> QED  BY <1>3, <1>10, <2>2
<1>12. x[1] = op /\ WireLeft(x, 0) = 0
  <2>1. 1 \in 1..Len(y) /\ 0 \in 0..Len(y)
    BY <1>1, <1>6
  <2> QED  BY <1>6, <1>7, <2>1
<1>13. ASSUME NEW j \in 1..n PROVE x[1 + j] = p[j]
  <2>1. 1 + j \in 1..(1 + n)
    BY <1>1
  <2> QED  BY <1>6, <1>7, <2>1
<1>14. ASSUME NEW j \in 0..n PROVE WireLeft(x, 1 + j) = WireLeft(a, 1) + WireLeft(p, j)
  <2>1. 1 + j \in 0..(1 + n)
    BY <1>1
  <2> QED  BY <1>6, <1>7, <2>1
<1> QED  BY <1>1, <1>6, <1>7, <1>9, <1>10, <1>11, <1>12, <1>13, <1>14 DEF a, b, x

\* A block of the wire lock around a program that starts what it clears before the
\* block it is in is left.
LEMMA LockedIsBlock ==
  ASSUME NEW p, Block(p, 1)
  PROVE  Block(Locked(p), 0)
<1> DEFINE x == Bracket("wire+", p, "wire-")
           n == Len(p)
<1>1. p \in Seq(Ops)
  BY DEF Block, Whole
<1>2. "wire+" \in Ops /\ "wire-" \in Ops
  BY DEF Ops
<1>3. WireLeft(<<"wire+">>, 1) = -1 /\ WireLeft(<<"wire-">>, 1) = 1
  BY LeftOne
<1>4. /\ x \in Seq(Ops) /\ n \in Nat /\ Len(x) = n + 2
      /\ x[1] = "wire+" /\ x[n + 2] = "wire-"
      /\ \A j \in 1..n : x[1 + j] = p[j]
      /\ \A j \in 0..n : WireLeft(p, j) \in Int
      /\ WireLeft(x, 0) = 0
      /\ \A j \in 0..n : WireLeft(x, 1 + j) = WireLeft(<<"wire+">>, 1) + WireLeft(p, j)
      /\ WireLeft(x, n + 2) = WireLeft(<<"wire+">>, 1) + WireLeft(p, n) + WireLeft(<<"wire-">>, 1)
  BY <1>1, <1>2, Between
<1> HIDE DEF x, n
<1>5. /\ \A j \in 0..n : WireLeft(p, j) \in Int /\ WireLeft(p, j) <= 0
      /\ WireLeft(p, n) = 0
  BY <1>4 DEF Block, Whole, n
<1>6. n \in Nat /\ Len(x) = n + 2
  BY <1>4
<1>7. WireLeft(x, 0) = 0 /\ WireLeft(x, n + 2) = 0
  BY <1>3, <1>4, <1>5
<1>8. ASSUME NEW j \in 0..n PROVE WireLeft(x, 1 + j) = -1 + WireLeft(p, j)
  BY <1>3, <1>4
<1>9. ASSUME NEW j \in 1..n PROVE x[1 + j] = p[j]
  BY <1>4
<1>10. x[1] = "wire+" /\ x[n + 2] = "wire-"
  BY <1>4
<1>11. ASSUME NEW i \in 1..Len(x) PROVE i = 1 \/ i = n + 2 \/ (i - 1 \in 1..n /\ i = 1 + (i - 1))
  BY <1>6
<1>12. ASSUME NEW i \in 0..Len(x) PROVE WireLeft(x, i) <= 0
  <2>1. CASE i = 0 \/ i = n + 2
    BY <1>7, <2>1
  <2>2. ASSUME NEW j \in 0..n, i = 1 + j PROVE WireLeft(x, i) <= 0
    BY <1>5, <1>8, <2>2
  <2>3. i = 0 \/ i = n + 2 \/ (i - 1 \in 0..n /\ i = 1 + (i - 1))
    BY <1>6
  <2> QED  BY <2>1, <2>2, <2>3
<1>13. ASSUME NEW e \in 1..Len(x) PROVE x[e] # "catch"
  <2>1. ASSUME NEW j \in 1..n, e = 1 + j PROVE x[e] # "catch"
    BY <1>9, <2>1 DEF Block, n
  <2> QED  BY <1>10, <1>11, <2>1
<1>14. ASSUME NEW c \in 1..Len(x), x[c] = "clear" PROVE PlayFollows(x, c, 0)
  <2>1. PICK j \in 1..n : c = 1 + j
    BY <1>10, <1>11, <1>14
  <2>2. p[j] = "clear"
    BY <1>9, <1>14, <2>1
  <2>3. PICK k \in (j + 1)..n : p[k] = "play" /\ \A i \in j..k : WireLeft(p, i) < 1
    BY <2>2 DEF Block, Whole, PlayFollows, n
  <2>4. 1 + k \in (c + 1)..Len(x) /\ k \in 1..n
    BY <1>6, <2>1
  <2>5. x[1 + k] = "play"
    BY <1>9, <2>3, <2>4
  <2>6. ASSUME NEW i \in c..(1 + k) PROVE WireLeft(x, i) < 0
    <3>1. i - 1 \in j..k /\ i - 1 \in 0..n /\ i = 1 + (i - 1)
      BY <1>6, <2>1, <2>4
    <3> QED  BY <1>5, <1>8, <2>3, <3>1
  <2> QED  BY <2>4, <2>5, <2>6 DEF PlayFollows
<1>15. x \in Seq(Ops) /\ WireLeft(x, Len(x)) = 0
  BY <1>4, <1>6, <1>7
<1>16. Whole(x, 0)
  BY <1>12, <1>13, <1>14, <1>15 DEF Whole
<1> QED  BY <1>13, <1>16 DEF Block, Locked, Bracket, x

\* The blocks that rebuild MPD's queue.
LEMMA QueueIsBlock ==
  ASSUME NEW p, Block(p, 0)
  PROVE  Block(Queue(p), 0)
<1> DEFINE x == Bracket("clear", p, "play")
           n == Len(p)
<1>1. p \in Seq(Ops)
  BY DEF Block, Whole
<1>2. "clear" \in Ops /\ "play" \in Ops
  BY DEF Ops
<1>3. WireLeft(<<"clear">>, 1) = 0 /\ WireLeft(<<"play">>, 1) = 0
  BY LeftOne
<1>15. Queue(p) = Locked(x)
  BY DEF Queue, Bracket
<1>4. /\ x \in Seq(Ops) /\ n \in Nat /\ Len(x) = n + 2
      /\ x[1] = "clear" /\ x[n + 2] = "play"
      /\ \A j \in 1..n : x[1 + j] = p[j]
      /\ \A j \in 0..n : WireLeft(p, j) \in Int
      /\ WireLeft(x, 0) = 0
      /\ \A j \in 0..n : WireLeft(x, 1 + j) = WireLeft(<<"clear">>, 1) + WireLeft(p, j)
      /\ WireLeft(x, n + 2) = WireLeft(<<"clear">>, 1) + WireLeft(p, n) + WireLeft(<<"play">>, 1)
  BY <1>1, <1>2, Between
<1> HIDE DEF x, n
<1>5. /\ \A j \in 0..n : WireLeft(p, j) \in Int /\ WireLeft(p, j) <= 0
      /\ WireLeft(p, n) = 0
  BY <1>4 DEF Block, Whole, n
<1>6. n \in Nat /\ Len(x) = n + 2
  BY <1>4
<1>7. WireLeft(x, 0) = 0 /\ WireLeft(x, n + 2) = 0
  BY <1>3, <1>4, <1>5
<1>8. ASSUME NEW j \in 0..n PROVE WireLeft(x, 1 + j) = WireLeft(p, j)
  BY <1>3, <1>4, <1>5
<1>9. ASSUME NEW i \in 0..Len(x) PROVE WireLeft(x, i) <= 0
  <2>1. CASE i = 0 \/ i = n + 2
    BY <1>7, <2>1
  <2>2. ASSUME NEW j \in 0..n, i = 1 + j PROVE WireLeft(x, i) <= 0
    BY <1>5, <1>8, <2>2
  <2>3. i = 0 \/ i = n + 2 \/ (i - 1 \in 0..n /\ i = 1 + (i - 1))
    BY <1>6
  <2> QED  BY <2>1, <2>2, <2>3
<1>10. ASSUME NEW e \in 1..Len(x) PROVE x[e] # "catch"
  <2>1. ASSUME NEW j \in 1..n, e = 1 + j PROVE x[e] # "catch"
    BY <1>4, <2>1 DEF Block, n
  <2>2. e = 1 \/ e = n + 2 \/ (e - 1 \in 1..n /\ e = 1 + (e - 1))
    BY <1>6
  <2> QED  BY <1>4, <2>1, <2>2
<1>11. ASSUME NEW c \in 1..Len(x), x[c] = "clear" PROVE PlayFollows(x, c, 1)
  <2>1. c # n + 2
    BY <1>4, <1>11
  <2>2. n + 2 \in (c + 1)..Len(x) /\ x[n + 2] = "play"
    BY <1>4, <1>6, <2>1
  <2>3. ASSUME NEW i \in c..(n + 2) PROVE WireLeft(x, i) < 1
    <3>1. i \in 0..Len(x) /\ i \in Nat
      BY <1>6
    <3> QED  BY <1>9, <3>1, LeftType
  <2> QED  BY <2>2, <2>3 DEF PlayFollows
<1>12. WireLeft(x, Len(x)) = 0
  BY <1>6, <1>7
<1>13. Whole(x, 1)
  BY <1>4, <1>9, <1>10, <1>11, <1>12 DEF Whole
<1>14. Block(x, 1)
  BY <1>10, <1>13 DEF Block
<1> QED  BY <1>14, <1>15, LockedIsBlock

\* What holds the plugs lock is a block, too, and so is a single operation.
LEMMA SingleIsBlock ==
  ASSUME NEW op \in Ops, op \notin {"wire+", "wire-", "clear"}
  PROVE  Whole(<<op>>, 0) /\ (op # "catch" => Block(<<op>>, 0))
<1> DEFINE p == <<op>>
<1>1. p \in Seq(Ops) /\ \A i \in 1..Len(p) : p[i] = op
  BY SingleOp
<1> HIDE DEF p
<1> QED  BY <1>1, PlainIsWhole DEF p

\* A call of a plugin, with its plugs lock, is a block.
LEMMA CallIsBlock ==
  ASSUME NEW p, Block(p, 0)
  PROVE  Block(Call(p), 0)
<1>1. Block(<<"plugs+">>, 0) /\ Block(<<"plugs-">>, 0)
  BY SingleIsBlock DEF Ops
<1> QED  BY <1>1, BlockJoin DEF Call

\* Every method, poll and hand-off ends in the blocks it began in.
LEMMA ProgramsAreWhole ==
  /\ \A ops \in Operations \cup Polls : Whole(ops, 0)
  /\ \A backend : Whole(PauseOf(backend), 0) /\ Whole(StopOf(backend), 0)
  /\ Block(Control, 0)
<1>1. Block(<<"cmd">>, 0) /\ Block(<<"try">>, 0) /\ Block(<<"mpd">>, 0) /\ Block(<<"podcast">>, 0)
  BY SingleIsBlock DEF Ops
<1>2. Whole(<<"catch">>, 0)
  BY SingleIsBlock DEF Ops
<1>3. Block(<<>>, 0)
  <2> DEFINE none == <<>>
  <2>1. none \in Seq(Ops) /\ Len(none) = 0
    BY EmptySeq
  <2> HIDE DEF none
  <2>2. 1..Len(none) = {}
    BY <2>1
  <2>3. Block(none, 0)
    BY <2>1, <2>2, PlainIsWhole
  <2> QED  BY <2>3 DEF none
<1>4. ASSUME NEW p, Block(p, 0) PROVE Block(Locked(p), 0)
  BY <1>4, BlockMore, LockedIsBlock
<1>5. Block(Control, 0) /\ Block(Settings, 0)
  BY <1>1, <1>4 DEF Control, Settings
<1>6. Block(SetVolume, 0) /\ Block(Play, 0) /\ Block(ListAlbums, 0)
  BY <1>1, <1>4, BlockJoin DEF SetVolume, Play, ListAlbums
<1>7. Block(Rebuild, 0) /\ Block(Queue(Locked(<<"try">>)), 0)
  BY <1>1, <1>4, QueueIsBlock DEF Rebuild
<1>8. Block(PlayFolder, 0) /\ Block(PlayAlbum, 0) /\ Block(Passive, 0)
  BY <1>1, <1>7, BlockJoin DEF PlayFolder, PlayAlbum, Passive
<1>9. Block(Replay, 0)
  BY <1>4, <1>8 DEF Replay
<1>10. Block(Call(<<>>), 0)
  BY <1>3, CallIsBlock
<1>11. Block(Skip, 0)
  BY <1>1, <1>4, <1>10, BlockJoin DEF Skip
<1>12. Block(UpdateWait, 0)
  <2> DEFINE asks == [i \in 1..MaxAsks |-> "ask"]
  <2>1. asks \in Seq(Ops) /\ Len(asks) = MaxAsks /\ \A i \in 1..Len(asks) : asks[i] = "ask"
    BY WireAssumption DEF Ops
  <2>2. UpdateWait = Locked(<<"cmd">>) \o Locked(<<"cmd">>) \o asks
    BY DEF UpdateWait
  <2> HIDE DEF asks
  <2>3. Block(asks, 0)
    BY <2>1, PlainIsWhole
  <2>4. Block(Locked(<<"cmd">>) \o Locked(<<"cmd">>), 0)
    BY <1>1, <1>4, BlockJoin
  <2> QED  BY <2>2, <2>3, <2>4, BlockJoin
<1>13. ASSUME NEW second \in {PlayFolder, Control, Replay} PROVE Block(PlayCard(second), 0)
  <2>1. Block(second, 0)
    BY <1>5, <1>8, <1>9
  <2> QED  BY <1>1, <1>4, <2>1, BlockJoin DEF PlayCard
<1>14. ASSUME NEW ops \in Polls PROVE Block(ops, 0)
  <2>1. PICK overlay \in {<<>>, Call(<<>>)} : ops = Locked(<<"try">>) \o Locked(<<"try">>) \o overlay
    BY DEF Polls
  <2>2. Block(overlay, 0) /\ Block(Locked(<<"try">>) \o Locked(<<"try">>), 0)
    BY <1>1, <1>3, <1>4, <1>10, BlockJoin
  <2> QED  BY <2>1, <2>2, BlockJoin
<1>15. ASSUME NEW ops \in Operations PROVE Block(ops, 0)
  BY <1>5, <1>6, <1>8, <1>9, <1>11, <1>12, <1>13 DEF Operations
<1>16. ASSUME NEW backend PROVE Whole(PauseOf(backend), 0) /\ Block(StopOf(backend), 0)
  <2>1. Block(Call(Control), 0)
    BY <1>5, CallIsBlock
  <2>2. Whole(Control, 0) /\ Whole(Call(Control), 0)
    BY <1>5, <2>1 DEF Block
  <2>3. Whole(PauseOf(backend), 0)
    BY <1>2, <2>2, WholeJoin DEF PauseOf
  <2> QED  BY <1>5, <2>1, <2>3 DEF StopOf
<1> QED  BY <1>5, <1>14, <1>15, <1>16 DEF Block

\* Taking and leaving the lock.
LEMMA Depths ==
  ASSUME NEW l \in Locks, NEW t \in Threads
  PROVE  DepthOf(l, t) \in Nat
BY DEF Locks, DepthOf

\* Leaving blocks one is in changes the lock for no one else.
LEMMA Exits ==
  ASSUME NEW l \in Locks, NEW t \in Threads, NEW n \in 0..DepthOf(l, t)
  PROVE  /\ Exit(l, n) \in Locks /\ DepthOf(Exit(l, n), t) = DepthOf(l, t) - n
         /\ \A u \in Threads \ {t} : DepthOf(Exit(l, n), u) = DepthOf(l, u)
<1>1. l.owner \in Threads \cup {NoThread} /\ l.depth \in Nat /\ (l.owner = NoThread <=> l.depth = 0)
      /\ l = [owner |-> l.owner, depth |-> l.depth] /\ n \in Nat
  BY Depths DEF Locks
<1>2. CASE l.depth > n
  <2> DEFINE left == [owner |-> l.owner, depth |-> l.depth - n]
  <2>1. Exit(l, n) = left
    BY <1>1, <1>2 DEF Exit
  <2>2. left \in Locks
    BY <1>1, <1>2 DEF Locks
  <2>3. n = 0 \/ l.owner = t
    BY <1>1 DEF DepthOf
  <2>4. DepthOf(left, t) = DepthOf(l, t) - n
    BY <1>1, <2>3 DEF DepthOf
  <2>5. \A u \in Threads \ {t} : DepthOf(left, u) = DepthOf(l, u)
    BY <1>1, <2>3 DEF DepthOf
  <2> HIDE DEF left
  <2> QED  BY <2>1, <2>2, <2>4, <2>5
<1>3. CASE ~(l.depth > n)
  <2>1. Exit(l, n) = Free
    BY <1>3 DEF Exit
  <2>2. Free \in Locks /\ \A u \in Threads : DepthOf(Free, u) = 0
    BY WireAssumption DEF Free, Locks, DepthOf
  <2>3. DepthOf(l, t) = n /\ \A u \in Threads \ {t} : DepthOf(l, u) = 0
    BY <1>1, <1>3, WireAssumption DEF DepthOf
  <2> QED  BY <1>1, <2>1, <2>2, <2>3
<1> QED  BY <1>2, <1>3

\* Neither does entering one.
LEMMA Enters ==
  ASSUME NEW l \in Locks, NEW t \in Threads, MayEnter(l, t)
  PROVE  /\ Enter(l, t) \in Locks /\ DepthOf(Enter(l, t), t) = DepthOf(l, t) + 1
         /\ \A u \in Threads \ {t} : DepthOf(Enter(l, t), u) = DepthOf(l, u)
BY WireAssumption DEF MayEnter, Enter, Locks, DepthOf

\* What is left to do after the first operation.
LEMMA TailFits ==
  ASSUME NEW s, NEW d \in Nat, Fits(s, d), s # <<>>
  PROVE  /\ s \in Seq(Ops) /\ Tail(s) \in Seq(Ops) /\ Head(s) = s[1]
         /\ WireLeft(s, 1) <= d
         /\ WireLeft(s, 1) = IF Head(s) = "wire-" THEN 1 ELSE IF Head(s) = "wire+" THEN -1 ELSE 0
         /\ Fits(Tail(s), d - WireLeft(s, 1))
         /\ Head(s) # "play" /\ PlayFollows(s, 0, d) => PlayFollows(Tail(s), 0, d - WireLeft(s, 1))
         /\ Head(s) = "clear" => PlayFollows(Tail(s), 0, d - WireLeft(s, 1))
<1>1. s \in Seq(Ops)
  BY DEF Fits
<1>2. /\ Tail(s) \in Seq(Ops) /\ Len(s) \in Nat \ {0} /\ Len(Tail(s)) = Len(s) - 1
      /\ \A i \in 1..Len(Tail(s)) : Tail(s)[i] = s[i + 1]
      /\ Head(s) = s[1]
  BY <1>1, HeadTailProperties, EmptySeq
<1>3. Follows(Tail(s), s, 1, Len(Tail(s))) /\ 1 \in 0..Len(s) /\ 1 \in 1..Len(s)
  BY <1>2 DEF Follows
<1>4. WireLeft(s, 1) <= d
  BY <1>3 DEF Fits
<1>5. WireLeft(s, 1) = IF s[1] = "wire-" THEN 1 ELSE IF s[1] = "wire+" THEN -1 ELSE 0
  BY LeftOne
<1>6. /\ Fits(Tail(s), d - WireLeft(s, 1))
      /\ \A c \in 0..Len(s) : 1 <= c /\ PlayFollows(s, c, d)
           => PlayFollows(Tail(s), c - 1, d - WireLeft(s, 1))
  <2> DEFINE r == Tail(s)
  <2>1. r \in Seq(Ops) /\ Len(r) = Len(s) - 1 /\ Follows(r, s, 1, Len(r)) /\ d \in Int
    BY <1>2, <1>3
  <2> HIDE DEF r
  <2>2. Fits(r, d - WireLeft(s, 1))
    BY <1>3, <2>1, FitsDrop
  <2>3. \A c \in 0..Len(s) : 1 <= c /\ PlayFollows(s, c, d)
           => PlayFollows(r, c - 1, d - WireLeft(s, 1))
    BY <1>3, <2>1, FitsDrop
  <2> QED  BY <2>2, <2>3 DEF r
<1>7. PlayFollows(s, 1, d) => PlayFollows(Tail(s), 0, d - WireLeft(s, 1))
  <2>1. 1 - 1 = 0
    OBVIOUS
  <2> QED  BY <1>3, <1>6, <2>1
<1>8. ASSUME Head(s) # "play", PlayFollows(s, 0, d) PROVE PlayFollows(s, 1, d)
  <2>1. PICK k \in (0 + 1)..Len(s) : s[k] = "play" /\ \A i \in 0..k : WireLeft(s, i) < d
    BY <1>8 DEF PlayFollows
  <2>2. k \in (1 + 1)..Len(s)
    BY <1>2, <1>8, <2>1
  <2> QED  BY <2>1, <2>2 DEF PlayFollows
<1>9. Head(s) = "clear" => PlayFollows(s, 1, d)
  BY <1>2, <1>3 DEF Fits
<1> QED  BY <1>1, <1>2, <1>4, <1>5, <1>6, <1>7, <1>8, <1>9

\* A step that changes what one thread has still to do.
LEMMA OneThread ==
  ASSUME WireInv, NEW t \in Threads, NEW x, todo' = [todo EXCEPT ![t] = x],
         wire' \in Locks, Fits(x, DepthOf(wire', t)),
         \A u \in Threads \ {t} : DepthOf(wire', u) = DepthOf(wire, u),
         current' \in {"mpd", "podcast"}, rebuild' \in {rebuild, NoThread, t},
         rebuild' = t => PlayFollows(x, 0, DepthOf(wire', t))
  PROVE  WireInv'
<1>1. todo' \in [Threads -> Seq(Ops)] /\ todo'[t] = x
      /\ \A u \in Threads \ {t} : todo'[u] = todo[u]
  BY DEF WireInv, Fits
<1>2. \A u \in Threads : Fits(todo'[u], DepthOf(wire', u))
  BY <1>1 DEF WireInv
<1>3. ASSUME rebuild' # NoThread
      PROVE  rebuild' \in Threads /\ PlayFollows(todo'[rebuild'], 0, DepthOf(wire', rebuild'))
  <2>1. CASE rebuild' = t
    BY <1>1, <2>1
  <2>2. CASE rebuild' # t
    <3>1. rebuild' = rebuild /\ rebuild # NoThread /\ rebuild \in Threads \ {t}
      BY <1>3, <2>2 DEF WireInv
    <3> QED  BY <1>1, <3>1 DEF WireInv
  <2> QED  BY <2>1, <2>2
<1> QED  BY <1>1, <1>2, <1>3 DEF WireInv

\* An exception leaves as many blocks as its thread is in, or fewer.
LEMMA Raises ==
  ASSUME WireInv, NEW t \in Threads, NEW held \in Locks, Fits(todo[t], DepthOf(held, t)),
         \A u \in Threads \ {t} : DepthOf(held, u) = DepthOf(wire, u),
         Raise(t, held), current' = current,
         rebuild' = IF rebuild = t THEN NoThread ELSE rebuild
  PROVE  WireInv'
<1> DEFINE s == todo[t]
           d == DepthOf(held, t)
<1>1. PICK n \in 1..Len(s) : CaughtAt(s, n) /\ todo' = [todo EXCEPT ![t] = SubSeq(@, n + 1, Len(@))]
                             /\ wire' = Exit(held, WireLeft(s, n))
  BY DEF Raise
<1> DEFINE rest == SubSeq(s, n + 1, Len(s))
<1>2. s \in Seq(Ops) /\ Len(s) \in Nat /\ d \in Nat /\ Fits(s, d)
  BY Depths, LenProperties DEF Fits
<1>3. todo' = [todo EXCEPT ![t] = rest]
  BY <1>1 DEF WireInv
<1>4. rest \in Seq(Ops) /\ Len(rest) = Len(s) - n /\ Follows(rest, s, n, Len(rest))
  <2>1. \A i \in (n + 1)..Len(s) : s[i] \in Ops
    BY <1>2, ElementOfSeq
  <2>2. /\ rest \in Seq(Ops)
        /\ Len(rest) = IF n + 1 <= Len(s) THEN Len(s) - (n + 1) + 1 ELSE 0
        /\ \A i \in 1..(Len(s) - (n + 1) + 1) : rest[i] = s[(n + 1) + i - 1]
    BY <1>2, <2>1, SubSeqProperties
  <2> HIDE DEF rest, s
  <2>4. n \in 1..Len(s)
    OBVIOUS
  <2>3. Len(rest) = Len(s) - n
    BY <1>2, <2>2, <2>4
  <2> QED  BY <1>1, <1>2, <2>2, <2>3 DEF Follows
<1> HIDE DEF rest, s, d
<1>5. WireLeft(s, n) \in 0..d
  <2>1. WireLeft(s, 0) = 0 /\ WireLeft(s, n) \in Int
    BY <1>1, <1>2, LeftType
  <2>2. WireLeft(s, n) <= d
    BY <1>1, <1>2 DEF Fits
  <2>3. WireLeft(s, 0) <= WireLeft(s, n)
    BY <1>1, <1>2 DEF Fits, CaughtAt
  <2> QED  BY <1>2, <2>1, <2>2, <2>3
<1>6. /\ wire' \in Locks /\ DepthOf(wire', t) = d - WireLeft(s, n)
      /\ \A u \in Threads \ {t} : DepthOf(wire', u) = DepthOf(held, u)
  BY <1>1, <1>5, Exits DEF d
<1>7. n \in 0..Len(s) /\ d \in Int
  BY <1>1, <1>2
<1>8. Fits(rest, d - WireLeft(s, n))
  BY <1>2, <1>4, <1>7, FitsDrop
<1>9. current' \in {"mpd", "podcast"} /\ rebuild' \in {rebuild, NoThread, t} /\ rebuild' # t
  BY WireAssumption DEF WireInv
<1>10. \A u \in Threads \ {t} : DepthOf(wire', u) = DepthOf(wire, u)
  BY <1>6
<1> QED  BY <1>3, <1>6, <1>8, <1>9, <1>10, OneThread

\* A thread goes on to its next operation, is first given others to do, or starts anew.
LEMMA GoesOn ==
  ASSUME WireInv, NEW t \in Threads, ~Idle(t), Head(todo[t]) \notin {"wire+", "wire-"},
         todo' = Next1(t), wire' = wire, current' \in {"mpd", "podcast"},
         \/ rebuild' = rebuild /\ Head(todo[t]) # "play"
         \/ rebuild' = NoThread
         \/ rebuild' = t /\ Head(todo[t]) = "clear"
  PROVE  WireInv'
<1> DEFINE s == todo[t]
           d == DepthOf(wire, t)
<1>1. d \in Nat /\ Fits(s, d) /\ s # <<>> /\ wire' \in Locks
  BY Depths DEF WireInv, Idle
<1>2. todo' = [todo EXCEPT ![t] = Tail(s)] /\ DepthOf(wire', t) = d
  BY DEF Next1, WireInv
<1>3. rebuild = t => PlayFollows(s, 0, d)
  BY WireAssumption DEF WireInv
<1> HIDE DEF s, d
<1>4. Head(s) \notin {"wire+", "wire-"} /\ (rebuild' = t => Head(s) = "clear" \/ (rebuild = t /\ Head(s) # "play"))
  BY WireAssumption DEF s
<1>5. WireLeft(s, 1) = 0 /\ d - 0 = d
  BY <1>1, <1>4, TailFits
<1>6. /\ Fits(Tail(s), d - WireLeft(s, 1))
      /\ Head(s) # "play" /\ PlayFollows(s, 0, d) => PlayFollows(Tail(s), 0, d - WireLeft(s, 1))
      /\ Head(s) = "clear" => PlayFollows(Tail(s), 0, d - WireLeft(s, 1))
  BY <1>1, TailFits
<1>7. Fits(Tail(s), d) /\ (rebuild' = t => PlayFollows(Tail(s), 0, d))
  BY <1>3, <1>4, <1>5, <1>6
<1>8. \A u \in Threads \ {t} : DepthOf(wire', u) = DepthOf(wire, u)
  OBVIOUS
<1> QED  BY <1>1, <1>2, <1>7, <1>8, OneThread

\* A thread that is given a whole program to do first keeps the invariant,
LEMMA DoesFirst ==
  ASSUME WireInv, NEW t \in Threads, ~Idle(t), NEW p, Whole(p, 0),
         Head(todo[t]) \notin {"wire+", "wire-", "play"},
         todo' = [todo EXCEPT ![t] = p \o Tail(@)],
         UNCHANGED <<wire, current, rebuild>>
  PROVE  WireInv'
<1> DEFINE s == todo[t]
           d == DepthOf(wire, t)
           x == p \o Tail(s)
<1>1. d \in Nat /\ Fits(s, d) /\ s # <<>> /\ wire' \in Locks
  BY Depths DEF WireInv, Idle
<1>2. todo' = [todo EXCEPT ![t] = x] /\ DepthOf(wire', t) = d
  BY DEF WireInv
<1>3. rebuild = t => PlayFollows(s, 0, d)
  BY WireAssumption DEF WireInv
<1>4. Head(s) \notin {"wire+", "wire-", "play"}
  OBVIOUS
<1> HIDE DEF s, d
<1>5. WireLeft(s, 1) = 0 /\ d - 0 = d
  BY <1>1, <1>4, TailFits
<1>6. /\ Fits(Tail(s), d - WireLeft(s, 1))
      /\ Head(s) # "play" /\ PlayFollows(s, 0, d) => PlayFollows(Tail(s), 0, d - WireLeft(s, 1))
  BY <1>1, TailFits
<1>7. Fits(Tail(s), d) /\ (rebuild = t => PlayFollows(Tail(s), 0, d))
  BY <1>3, <1>4, <1>5, <1>6
<1>8. Fits(x, d) /\ (rebuild = t => PlayFollows(x, 0, d))
  BY <1>1, <1>7, WholeFirst
<1>9. current' \in {"mpd", "podcast"} /\ rebuild' \in {rebuild, NoThread, t} /\ (rebuild' = t => rebuild = t)
      /\ \A u \in Threads \ {t} : DepthOf(wire', u) = DepthOf(wire, u)
  BY DEF WireInv
<1> HIDE DEF x
<1> QED  BY <1>1, <1>2, <1>8, <1>9, OneThread

\* and so does an idle one, which cannot be the one that rebuilds the queue.
LEMMA StartsAnew ==
  ASSUME WireInv, NEW t \in Threads, NEW p, Whole(p, 0)
  PROVE  /\ Fits(p, DepthOf(wire, t))
         /\ Idle(t) => rebuild # t
         /\ /\ Idle(t) /\ todo' = [todo EXCEPT ![t] = p] /\ UNCHANGED <<wire, current, rebuild>>
            => WireInv'
<1>1. Fits(p, DepthOf(wire, t))
  <2>1. DepthOf(wire, t) \in Int /\ 0 <= DepthOf(wire, t) /\ 0 \in Int
    BY Depths DEF WireInv
  <2> QED  BY <2>1, WholeFits, FitsMore
<1>2. ASSUME Idle(t) PROVE rebuild # t
  <2> SUFFICES ASSUME rebuild = t PROVE FALSE
    OBVIOUS
  <2>1. PlayFollows(todo[t], 0, DepthOf(wire, t)) /\ Len(todo[t]) = 0
    BY <1>2, WireAssumption DEF WireInv, Idle
  <2> QED  BY <2>1 DEF PlayFollows
<1>3. ASSUME Idle(t), todo' = [todo EXCEPT ![t] = p], UNCHANGED <<wire, current, rebuild>>
      PROVE  WireInv'
  <2>1. wire' \in Locks /\ DepthOf(wire', t) = DepthOf(wire, t)
        /\ current' \in {"mpd", "podcast"} /\ rebuild' \in {rebuild, NoThread, t} /\ rebuild' # t
        /\ \A u \in Threads \ {t} : DepthOf(wire', u) = DepthOf(wire, u)
    BY <1>2, <1>3 DEF WireInv
  <2>2. Fits(p, DepthOf(wire', t))
    BY <1>1, <2>1
  <2> QED  BY <1>3, <2>1, <2>2, OneThread
<1> QED  BY <1>1, <1>2, <1>3

\* Every step of a thread that is not a caller's decision keeps the invariant.
LEMMA StepKeepsWireInv ==
  ASSUME WireInv, NEW t \in Threads, Step(t)
  PROVE  WireInv'
<1> DEFINE s == todo[t]
           d == DepthOf(wire, t)
<1>1. d \in Nat /\ Fits(s, d) /\ wire \in Locks /\ current \in {"mpd", "podcast"}
  BY Depths DEF WireInv
<1>2. rebuild = t => PlayFollows(s, 0, d)
  BY WireAssumption DEF WireInv
<1>3. CASE EnterPlugs(t)
  BY <1>1, <1>3, GoesOn DEF EnterPlugs, At
<1>4. CASE ExitPlugs(t)
  BY <1>1, <1>4, GoesOn DEF ExitPlugs, At
<1>5. CASE Command(t)
  BY <1>1, <1>5, GoesOn DEF Command, At
<1>6. CASE Clear(t)
  BY <1>1, <1>6, GoesOn DEF Clear, At
<1>7. CASE StartQueue(t)
  BY <1>1, <1>7, GoesOn DEF StartQueue, At
<1>8. CASE Ask(t)
  <2>1. CASE todo' = Next1(t)
    BY <1>1, <1>8, <2>1, GoesOn DEF Ask, At
  <2>2. CASE todo' = [todo EXCEPT ![t] = Locked(<<"cmd">>) \o Tail(@)]
    <3>1. Whole(Locked(<<"cmd">>), 0)
      BY ProgramsAreWhole DEF Block, Control
    <3> QED  BY <1>8, <2>2, <3>1, DoesFirst DEF Ask, At
  <2> QED  BY <1>8, <2>1, <2>2 DEF Ask
<1>9. ASSUME At(t, "wire+") \/ At(t, "wire-"), todo' = Next1(t), wire' \in Locks,
             DepthOf(wire', t) = d - WireLeft(s, 1),
             \A u \in Threads \ {t} : DepthOf(wire', u) = DepthOf(wire, u),
             current' = current, rebuild' = rebuild
      PROVE  WireInv'
  <2>1. s # <<>> /\ Head(s) # "play" /\ todo' = [todo EXCEPT ![t] = Tail(s)]
    BY <1>9 DEF At, Idle, Next1, WireInv
  <2>2. rebuild' \in {rebuild, NoThread, t} /\ current' \in {"mpd", "podcast"}
    BY <1>1, <1>9
  <2> HIDE DEF s, d
  <2>3. Fits(Tail(s), d - WireLeft(s, 1)) /\ (rebuild = t => PlayFollows(Tail(s), 0, d - WireLeft(s, 1)))
    BY <1>1, <1>2, <2>1, TailFits
  <2> QED  BY <1>9, <2>1, <2>2, <2>3, OneThread
<1>10. CASE EnterWire(t)
  <2>1. At(t, "wire+") /\ s # <<>> /\ Head(s) = "wire+"
    BY <1>10 DEF EnterWire, At, Idle
  <2>2. WireLeft(s, 1) = -1
    BY <1>1, <2>1, TailFits
  <2>3. /\ wire' \in Locks /\ DepthOf(wire', t) = d + 1
        /\ \A u \in Threads \ {t} : DepthOf(wire', u) = DepthOf(wire, u)
    BY <1>1, <1>10, Enters DEF EnterWire
  <2>4. DepthOf(wire', t) = d - WireLeft(s, 1)
    BY <1>1, <2>2, <2>3
  <2> QED  BY <1>9, <1>10, <2>1, <2>3, <2>4 DEF EnterWire
<1>11. CASE ExitWire(t)
  <2>1. At(t, "wire-") /\ s # <<>> /\ Head(s) = "wire-"
    BY <1>11 DEF ExitWire, At, Idle
  <2>2. WireLeft(s, 1) = 1 /\ 1 <= d
    BY <1>1, <2>1, TailFits
  <2>3. 1 \in 0..d
    BY <1>1, <2>2
  <2>4. /\ wire' \in Locks /\ DepthOf(wire', t) = d - 1
        /\ \A u \in Threads \ {t} : DepthOf(wire', u) = DepthOf(wire, u)
    BY <1>1, <1>11, <2>3, Exits DEF ExitWire
  <2>5. DepthOf(wire', t) = d - WireLeft(s, 1)
    BY <2>2, <2>4
  <2> QED  BY <1>9, <1>11, <2>1, <2>4, <2>5 DEF ExitWire
<1>12. CASE CommandRaises(t)
  BY <1>1, <1>12, Raises DEF CommandRaises
<1>13. CASE ReconnectRaises(t)
  <2> DEFINE held == Enter(wire, t)
  <2>1. /\ held \in Locks /\ DepthOf(held, t) = d + 1
        /\ \A u \in Threads \ {t} : DepthOf(held, u) = DepthOf(wire, u)
    BY <1>1, <1>13, Enters DEF ReconnectRaises
  <2>2. /\ rebuild' = IF rebuild = t THEN NoThread ELSE rebuild
        /\ current' = current
    BY <1>13 DEF ReconnectRaises
  <2>3. CASE t = "poll"
    <3>1. wire' = held /\ todo' = [todo EXCEPT ![t] = <<"dead">>]
      BY <1>13, <2>3 DEF ReconnectRaises
    <3>2. Whole(<<"dead">>, 0)
      BY SingleIsBlock DEF Ops
    <3> DEFINE x == <<"dead">>
    <3> HIDE DEF x, held
    <3>3. Fits(x, DepthOf(held, t))
      <4>1. 0 \in Int /\ DepthOf(held, t) \in Int /\ 0 <= DepthOf(held, t)
        BY <1>1, <2>1
      <4> QED  BY <3>2, <4>1, WholeFits, FitsMore DEF x
    <3>4. rebuild' \in {rebuild, NoThread, t} /\ rebuild' # t /\ current' \in {"mpd", "podcast"}
      BY <1>1, <2>2, WireAssumption
    <3>5. todo' = [todo EXCEPT ![t] = x]
      BY <3>1 DEF x
    <3> QED  BY <2>1, <3>1, <3>3, <3>4, <3>5, OneThread
  <2>4. CASE t # "poll"
    <3>1. Raise(t, held)
      BY <1>13, <2>4 DEF ReconnectRaises
    <3> HIDE DEF held
    <3>2. Fits(todo[t], DepthOf(held, t))
      <4>1. d \in Int /\ DepthOf(held, t) \in Int /\ d <= DepthOf(held, t)
        BY <1>1, <2>1
      <4> QED  BY <1>1, <4>1, FitsMore
    <3> QED  BY <2>1, <2>2, <3>1, <3>2, Raises
  <2> QED  BY <2>3, <2>4
<1> QED  BY <1>3, <1>4, <1>5, <1>6, <1>7, <1>8, <1>10, <1>11, <1>12, <1>13 DEF Step, EnterLock, Go

\* No thread leaves a block it is not in, and a queue that was cleared is started
\* before its clearer leaves the wire.
LEMMA WireInvariant == WireSpec => []WireInv
<1>1. WireInit => WireInv
  <2> SUFFICES ASSUME WireInit PROVE WireInv
    OBVIOUS
  <2> DEFINE none == <<>>
  <2>1. todo = [t \in Threads |-> none] /\ none \in Seq(Ops) /\ Len(none) = 0
    BY DEF WireInit
  <2> HIDE DEF none
  <2>2. wire \in Locks /\ \A t \in Threads : DepthOf(wire, t) = 0
    BY WireAssumption DEF WireInit, Free, Locks, DepthOf
  <2>3. Fits(none, 0)
    <3>1. 1..Len(none) = {} /\ 0..Len(none) = {0}
      BY <2>1
    <3>2. WireLeft(none, 0) = 0
      BY LeftType
    <3> QED  BY <2>1, <3>1, <3>2 DEF Fits
  <2> QED  BY <2>1, <2>2, <2>3 DEF WireInit, WireInv
<1>2. WireInv /\ [WireNext]_wireVars => WireInv'
  <2> SUFFICES ASSUME WireInv, [WireNext]_wireVars PROVE WireInv'
    OBVIOUS
  <2> USE DEF At
  <2>1. CASE Poll
    <3>1. PICK ops \in Polls : todo' = [todo EXCEPT !["poll"] = ops]
      BY <2>1 DEF Poll
    <3>2. Whole(ops, 0) /\ "poll" \in Threads
      BY ProgramsAreWhole DEF Threads
    <3> QED  BY <2>1, <3>1, <3>2, StartsAnew DEF Poll
  <2>2. ASSUME NEW t \in Threads, Step(t) PROVE WireInv'
    BY <2>2, StepKeepsWireInv
  <2>3. ASSUME NEW c \in Callers, Begin(c) PROVE WireInv'
    <3>1. Block(<<"method">>, 0)
      BY SingleIsBlock DEF Ops
    <3>2. Whole(Call(<<"method">>), 0) /\ c \in Threads
      BY <3>1, CallIsBlock DEF Block, Threads
    <3> QED  BY <2>3, <3>2, StartsAnew DEF Begin
  <2>4. ASSUME NEW c \in Callers, Method(c) PROVE WireInv'
    <3>1. PICK ops \in Operations : todo' = [todo EXCEPT ![c] = ops \o Tail(@)]
      BY <2>4 DEF Method
    <3>2. Whole(ops, 0) /\ c \in Threads
      BY ProgramsAreWhole DEF Threads
    <3> QED  BY <2>4, <3>1, <3>2, DoesFirst DEF Method
  <2>5. ASSUME NEW c \in Callers, NEW w \in Stoppers, Fork(c, w) PROVE WireInv'
    <3>1. c \in Threads /\ w \in Threads /\ c # w
      BY <2>5 DEF Fork, Idle, Threads
    <3> DEFINE s == todo[c]
               p == StopOf(current)
               d == DepthOf(wire, c)
    <3>2. todo' = [todo EXCEPT ![c] = Tail(s), ![w] = p] /\ wire' = wire /\ current' = current
          /\ rebuild' = rebuild
      BY <2>5, <3>1 DEF Fork, WireInv
    <3>3. Fits(s, d) /\ s # <<>> /\ Head(s) = "fork" /\ d \in Nat
      BY <2>5, <3>1, Depths DEF Fork, WireInv, Idle
    <3>4. rebuild = c => PlayFollows(s, 0, d)
      BY <3>1, WireAssumption DEF WireInv
    <3>5. Whole(p, 0)
      BY ProgramsAreWhole
    <3>6. Fits(p, DepthOf(wire, w)) /\ rebuild # w
      BY <2>5, <3>1, <3>5, StartsAnew DEF Fork
    <3> HIDE DEF s, p, d
    <3>7. Fits(Tail(s), d) /\ (rebuild = c => PlayFollows(Tail(s), 0, d))
      <4>1. WireLeft(s, 1) = 0 /\ d - 0 = d
        BY <3>3, TailFits
      <4>2. /\ Fits(Tail(s), d - WireLeft(s, 1))
            /\ Head(s) # "play" /\ PlayFollows(s, 0, d) => PlayFollows(Tail(s), 0, d - WireLeft(s, 1))
        BY <3>3, TailFits
      <4> QED  BY <3>3, <3>4, <4>1, <4>2
    <3>8. Tail(s) \in Seq(Ops) /\ p \in Seq(Ops)
      BY <3>5, <3>7 DEF Fits, Whole
    <3>9. /\ todo' \in [Threads -> Seq(Ops)] /\ todo'[c] = Tail(s) /\ todo'[w] = p
          /\ \A u \in Threads : u # c /\ u # w => todo'[u] = todo[u]
      BY <3>1, <3>2, <3>8 DEF WireInv
    <3>10. \A u \in Threads : Fits(todo'[u], DepthOf(wire', u))
      BY <3>2, <3>6, <3>7, <3>9 DEF WireInv, d
    <3>11. rebuild' # NoThread =>
             rebuild' \in Threads /\ PlayFollows(todo'[rebuild'], 0, DepthOf(wire', rebuild'))
      BY <3>2, <3>6, <3>7, <3>9 DEF WireInv, d
    <3> QED  BY <3>2, <3>9, <3>10, <3>11 DEF WireInv
  <2>6. ASSUME NEW c \in Callers, NEW backend \in {"mpd", "podcast"}, Activate(c, backend)
        PROVE  WireInv'
    <3>1. c \in Threads /\ ~Idle(c) /\ Head(todo[c]) \notin {"wire+", "wire-", "play"}
      BY <2>6 DEF Activate, Threads
    <3>2. CASE current = backend
      <4>1. todo' = Next1(c)
        BY <2>6, <3>2 DEF Activate, Next1
      <4>2. wire' = wire /\ current' \in {"mpd", "podcast"} /\ rebuild' = rebuild
        BY <2>6 DEF Activate, WireInv
      <4> QED  BY <3>1, <4>1, <4>2, GoesOn
    <3>3. CASE current # backend
      <4> DEFINE hand == <<"fork", "join", SwapTo(backend)>>
                 p == PauseOf(current) \o hand
      <4>1. hand \in Seq(Ops) /\ Len(hand) = 3
            /\ \A i \in 1..3 : hand[i] \notin {"wire+", "wire-", "clear"}
        BY DEF Ops, SwapTo
      <4>2. todo' = [todo EXCEPT ![c] = p \o Tail(@)]
        BY <2>6, <3>3 DEF Activate
      <4> HIDE DEF hand
      <4>3. Whole(hand, 0)
        BY <4>1, PlainIsWhole
      <4>4. Whole(p, 0)
        BY <4>3, ProgramsAreWhole, WholeJoin
      <4> HIDE DEF p
      <4>5. UNCHANGED <<wire, current, rebuild>>
        BY <2>6 DEF Activate
      <4> QED  BY <3>1, <4>2, <4>4, <4>5, DoesFirst
    <3> QED  BY <3>2, <3>3
  <2>7. ASSUME NEW c \in Callers, NEW backend \in {"mpd", "podcast"}, Swap(c, backend)
        PROVE  WireInv'
    <3>1. c \in Threads /\ ~Idle(c) /\ Head(todo[c]) \notin {"wire+", "wire-", "play"}
      BY <2>7 DEF Swap, SwapTo, Threads
    <3> QED  BY <2>7, <3>1, GoesOn DEF Swap
  <2>8. ASSUME NEW c \in Callers, Join(c) PROVE WireInv'
    <3>1. c \in Threads /\ ~Idle(c) /\ Head(todo[c]) \notin {"wire+", "wire-", "play"}
      BY <2>8 DEF Join, Threads
    <3>2. wire' = wire /\ current' \in {"mpd", "podcast"} /\ rebuild' = rebuild
      BY <2>8 DEF Join, WireInv
    <3> QED  BY <2>8, <3>1, <3>2, GoesOn DEF Join
  <2>9. CASE UNCHANGED wireVars
    BY <2>9 DEF wireVars, WireInv
  <2>10. Callers \subseteq Threads /\ Stoppers \cup {"poll"} \subseteq Threads
    BY DEF Threads
  <2> QED
    BY <2>1, <2>2, <2>3, <2>4, <2>5, <2>6, <2>7, <2>8, <2>9, <2>10 DEF WireNext, Decide
<1>3. QED
  BY <1>1, <1>2, PTL DEF WireSpec

\* Between the clear of MPD's queue and the play of the new one no other thread
\* holds the wire: for any callers and stoppers, however the coordinator switches
\* meanwhile, whatever raises, and however many reconnects leave the lock taken.
THEOREM QueuesAreRebuiltWhole == WireSpec => []QueueRebuiltWhole
<1>1. WireInv => QueueRebuiltWhole
  <2> SUFFICES ASSUME WireInv, rebuild # NoThread PROVE wire.owner = rebuild
    BY DEF QueueRebuiltWhole
  <2> DEFINE d == DepthOf(wire, rebuild)
  <2>1. PICK k \in (0 + 1)..Len(todo[rebuild]) :
          todo[rebuild][k] = "play" /\ \A i \in 0..k : WireLeft(todo[rebuild], i) < d
    BY DEF WireInv, PlayFollows
  <2>2. 0 < d
    BY <2>1, LeftType
  <2> QED  BY <2>2 DEF DepthOf
<1>2. QED
  BY <1>1, WireInvariant, PTL

\* Together: MPD's queue is never commanded while it is rebuilt and the folder to
\* resume is never lost, in every behaviour of MPD's player.
THEOREM MpdKeepsItsPromises == Spec => [](QueueRebuiltWhole /\ ResumeTargetSurvives)
<1>1. Init => WireInit /\ StoreInit
  BY DEF Init
<1>2. [Next]_vars => [WireNext]_wireVars /\ [StoreNext]_storeVars
  BY DEF Next, vars, wireVars, storeVars, coverVars
<1>3. Spec => Init /\ [][Next]_vars
  BY PTL DEF Spec
<1>4. Spec => WireSpec /\ StoreSpec
  BY <1>1, <1>2, <1>3, PTL DEF WireSpec, StoreSpec
<1>5. QED
  BY <1>4, QueuesAreRebuiltWhole, ResumeTargetsSurvive, PTL
=============================================================================
