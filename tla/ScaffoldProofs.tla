--------------------------- MODULE ScaffoldProofs ---------------------------
(***************************************************************************)
(* Theorems about pvc new and pvc validate, for any services, processes    *)
(* and drafts and any site.  The first three leave open what               *)
(* resolve_service makes of a file (Resolution); the last one is about it. *)
(***************************************************************************)
EXTENDS Scaffold, TLAPS, FiniteSetTheorems

\* What these proofs need of the types.
Shape ==
  /\ files = [s \in Services |-> files[s]]
  /\ checked \subseteq Services
  /\ pc = [p \in Procs |-> pc[p]]
  /\ job = [p \in Procs |-> job[p]]
  /\ mine = [p \in Procs |-> mine[p]]
  /\ todo \in [Procs -> SUBSET Services]
  /\ unread \in [Procs -> SUBSET Services]
  /\ untouched \in [Procs -> SUBSET Services]
  /\ clash \in [Procs -> BOOLEAN]
  /\ \A p \in Procs : pc[p] \notin {"idle", "next", "created"} => job[p] \in Services

\* Where its file has not changed, the service of a validate is as it found
\* it, and resolvable.
AsFound ==
  \A p \in Procs : job[p] \in untouched[p] /\ pc[p] \in {"listing", "reading"} =>
    mine[p] = files[job[p]] /\ Good(job[p])

Hosts(s) == Resolution[s][files[s]].hosts

\* A validate of s has passed o by, as a sibling there was not or one that it
\* has read, and neither s has changed since nor has a conflict been found.
Passing(p, s, o) ==
  pc[p] = "reading" /\ job[p] = s /\ s \in untouched[p] /\ o \notin unread[p] /\ ~clash[p]

\* s is validated, or so far against o.
Looked(s, o) == s \in checked \/ \E p \in Procs : Passing(p, s, o)

\* Of two services that each passed the other by, the later one has seen the
\* file of the earlier as it is.
Apart ==
  /\ \A s \in checked : Good(s)
  /\ \A s, o \in Services : s # o /\ Looked(s, o) /\ Looked(o, s) => ~Conflict(Hosts(s), Hosts(o))

Inv == Shape /\ AsFound /\ Apart

LEMMA ConflictSymmetric == \A m, n : Conflict(m, n) <=> Conflict(n, m)
  BY DEF Conflict, Clash

-----------------------------------------------------------------------------
LEMMA ListedServices == Listed \in SUBSET Services
  BY DEF Listed

\* Types.
LEMMA ShapeStep ==
  ASSUME Shape, [Next]_vars
  PROVE  Shape'
<1>1. ASSUME NEW s \in Services, Save(s) PROVE Shape'
  <2>1. PICK f : Becomes(s, f)
    BY <1>1 DEF Save
  <2>2. UNCHANGED <<pc, job, todo, mine, unread, clash>>
    BY <1>1 DEF Save, local
  <2>q. QED
    BY <2>1, <2>2 DEF Becomes, Shape
<1>2. ASSUME NEW p \in Procs, Stop(p) PROVE Shape'
  BY <1>2, ListedServices DEF Stop, Goto, Forget, Shape
<1>3. ASSUME NEW p \in Procs, LoadDone(p) PROVE Shape'
  BY <1>3, ListedServices DEF LoadDone, Goto, Shape
<1>4. ASSUME NEW p \in Procs, Open(p) PROVE Shape'
  BY <1>4, ListedServices DEF Open, Goto, Becomes, local, Shape
<1>5. ASSUME NEW p \in Procs, Write(p) PROVE Shape'
  BY <1>5, ListedServices DEF Write, Goto, Becomes, local, Shape
<1>6. ASSUME NEW p \in Procs, NEW names \in SUBSET Services, Validate(p, names) PROVE Shape'
  BY <1>6, ListedServices DEF Validate, Goto, Shape
<1>7. ASSUME NEW p \in Procs, NEW s \in Services, LoadOwn(p, s) PROVE Shape'
  <2>1. CASE Good(s)
    <3>1. /\ todo' = [todo EXCEPT ![p] = @ \ {s}] /\ UNCHANGED <<files, checked, unread, clash>>
          /\ pc' = [pc EXCEPT ![p] = "listing"] /\ job' = [job EXCEPT ![p] = s]
          /\ mine' = [mine EXCEPT ![p] = files[s]]
          /\ untouched' = [untouched EXCEPT ![p] = {s}]
      BY <2>1, <1>7 DEF LoadOwn, Goto
    <3>2. todo' \in [Procs -> SUBSET Services]
      BY <3>1 DEF Shape
    <3>3. untouched' \in [Procs -> SUBSET Services]
      BY <3>1 DEF Shape
    <3>q. QED
      BY <3>1, <3>2, <3>3 DEF Shape
  <2>2. CASE ~Good(s)
    BY <2>2, <1>7 DEF LoadOwn, Shape
  <2>q. QED
    BY <2>1, <2>2
<1>8. ASSUME NEW p \in Procs, NEW s \in Services, LoadSibling(p, s) PROVE Shape'
  BY <1>8, ListedServices DEF LoadSibling, Shape
<1>9. ASSUME NEW p \in Procs, NEW s \in Services, Scan(p, s) PROVE Shape'
  BY <1>9, ListedServices DEF Scan, Shape
<1>10. ASSUME NEW p \in Procs, NEW s \in Services, NEW ks \in KeyLists, New(p, s, ks) PROVE Shape'
  BY <1>10, ListedServices DEF New, Goto, Shape
<1>11. ASSUME UNCHANGED vars PROVE Shape'
  BY <1>11 DEF vars, local, Shape
<1>12. ASSUME NEW p \in Procs, ListSiblings(p) \/ ListAll(p) PROVE Shape'
  BY <1>12, ListedServices DEF ListSiblings, ListAll, Goto, Shape
<1>q. QED
  BY <1>1, <1>2, <1>3, <1>4, <1>5, <1>6, <1>7, <1>8, <1>9, <1>10, <1>11, <1>12 DEF
    Next

\* A file that changes is no longer untouched.
LEMMA AsFoundStep ==
  ASSUME Shape, AsFound, [Next]_vars
  PROVE  AsFound'
<1>1. ASSUME NEW s \in Services, Save(s) PROVE AsFound'
  <2>1. PICK f : Becomes(s, f)
    BY <1>1 DEF Save
  <2>2. UNCHANGED <<pc, job, mine>>
    BY <1>1 DEF Save, local
  <2>q. QED
    BY <2>1, <2>2 DEF Becomes, Shape, AsFound, Good
<1>2. ASSUME NEW p \in Procs, Stop(p) PROVE AsFound'
  BY <1>2, ListedServices DEF Stop, Goto, Forget, Shape, AsFound, Good
<1>3. ASSUME NEW p \in Procs, LoadDone(p) PROVE AsFound'
  BY <1>3, ListedServices DEF LoadDone, Goto, Shape, AsFound, Good
<1>4. ASSUME NEW p \in Procs, Open(p) PROVE AsFound'
  BY <1>4, ListedServices DEF Open, Goto, Becomes, local, Shape, AsFound,
    Good
<1>5. ASSUME NEW p \in Procs, Write(p) PROVE AsFound'
  BY <1>5, ListedServices DEF Write, Goto, Becomes, local, Shape, AsFound,
    Good
<1>6. ASSUME NEW p \in Procs, NEW names \in SUBSET Services, Validate(p, names) PROVE AsFound'
  BY <1>6, ListedServices DEF Validate, Goto, Shape, AsFound, Good
<1>7. ASSUME NEW p \in Procs, NEW s \in Services, LoadOwn(p, s) PROVE AsFound'
  <2>1. CASE Good(s)
    <3>1. /\ job' = [job EXCEPT ![p] = s] /\ mine' = [mine EXCEPT ![p] = files[s]]
          /\ untouched' = [untouched EXCEPT ![p] = {s}] /\ pc' = [pc EXCEPT ![p] = "listing"]
          /\ UNCHANGED files
      BY <2>1, <1>7 DEF LoadOwn, Goto
    <3>q. QED
      BY <2>1, <3>1 DEF AsFound, Shape, Good
  <2>2. CASE ~Good(s)
    BY <2>2, <1>7 DEF LoadOwn, Shape, AsFound, Good
  <2>q. QED
    BY <2>1, <2>2
<1>8. ASSUME NEW p \in Procs, NEW s \in Services, LoadSibling(p, s) PROVE AsFound'
  BY <1>8, ListedServices DEF LoadSibling, Shape, AsFound, Good
<1>9. ASSUME NEW p \in Procs, NEW s \in Services, Scan(p, s) PROVE AsFound'
  BY <1>9, ListedServices DEF Scan, Shape, AsFound, Good
<1>10. ASSUME NEW p \in Procs, NEW s \in Services, NEW ks \in KeyLists, New(p, s, ks) PROVE AsFound'
  BY <1>10, ListedServices DEF New, Goto, Shape, AsFound, Good
<1>11. ASSUME UNCHANGED vars PROVE AsFound'
  BY <1>11 DEF vars, local, Shape, AsFound, Good
<1>12. ASSUME NEW p \in Procs, ListSiblings(p) \/ ListAll(p) PROVE AsFound'
  BY <1>12, ListedServices DEF ListSiblings, ListAll, Goto, Shape, AsFound, Good
<1>q. QED
  BY <1>1, <1>2, <1>3, <1>4, <1>5, <1>6, <1>7, <1>8, <1>9, <1>10, <1>11, <1>12 DEF
    Next

-----------------------------------------------------------------------------
\* Of the services that have passed each other by, none is without a manifest.
LEMMA LookedGood ==
  ASSUME Shape, AsFound, Apart, NEW s, NEW o, Looked(s, o)
  PROVE  Good(s) /\ files[s] # None /\ s \in Services
<1>1. Good(s)
  BY DEF Looked, Passing, Apart, AsFound
<1>2. s \in Services
  BY DEF Looked, Passing, Shape
<1>q. QED
  BY <1>1, <1>2 DEF Good, Parsed

\* A step that lets no service pass another by, and changes only files of
\* services that have passed none.
LEMMA Fewer ==
  ASSUME Shape, AsFound, Apart,
         \A s, o : Looked(s, o)' => Looked(s, o) /\ files'[s] = files[s]
  PROVE  Apart'
<1>1. ASSUME NEW s \in checked' PROVE Good(s)'
  <2>1. Looked(s, s)'
    BY <1>1 DEF Looked
  <2>2. Good(s) /\ files'[s] = files[s]
    BY <2>1, LookedGood
  <2>q. QED
    BY <2>2 DEF Good
<1>2. ASSUME NEW s \in Services, NEW o \in Services, s # o, Looked(s, o)', Looked(o, s)'
      PROVE  ~Conflict(Hosts(s), Hosts(o))'
  <2>1. Looked(s, o) /\ Looked(o, s) /\ files'[s] = files[s] /\ files'[o] = files[o]
    BY <1>2
  <2>q. QED
    BY <1>2, <2>1 DEF Apart, Hosts
<1>q. QED
  BY <1>1, <1>2 DEF Apart

\* Services that pass one another by have no identity in common.
LEMMA ApartStep ==
  ASSUME Shape, AsFound, Apart, [Next]_vars
  PROVE  Apart'
<1>1. ASSUME NEW s \in Services, Save(s) PROVE Apart'
  <2>1. PICK f : Becomes(s, f)
    BY <1>1 DEF Save
  <2>2. UNCHANGED <<pc, job, unread, clash>>
    BY <1>1 DEF Save, local
  <2>3. \A a, b : Looked(a, b)' => Looked(a, b) /\ files'[a] = files[a]
    BY <2>1, <2>2 DEF Becomes, Looked, Passing, Shape
  <2>q. QED
    BY <2>3, Fewer
<1>2. ASSUME NEW p \in Procs, Stop(p) PROVE Apart'
  <2>1. \A a, b : Looked(a, b)' => Looked(a, b) /\ files'[a] = files[a]
    BY <1>2 DEF Stop, Goto, Forget, Looked, Passing, Shape
  <2>q. QED
    BY <2>1, Fewer
<1>3. ASSUME NEW p \in Procs, LoadDone(p) PROVE Apart'
  <2>1. \A a, b : Looked(a, b)' => Looked(a, b)
    <3>1. \A a \in checked' : a \in checked \/ (a = job[p] /\ ~clash[p] /\ a \in untouched[p])
      BY <1>3 DEF LoadDone
    <3>2. \A q \in Procs : pc'[q] = "reading" =>
            /\ q # p /\ pc[q] = "reading" /\ job'[q] = job[q] /\ clash'[q] = clash[q]
            /\ untouched'[q] = untouched[q] /\ unread'[q] = unread[q]
      BY <1>3 DEF LoadDone, Goto, Shape
    <3>3. \A a, b, q : q \in Procs /\ Passing(q, a, b)' => Passing(q, a, b)
      BY <3>2 DEF Passing
    <3>4. pc[p] = "reading" /\ unread[p] = {}
      BY <1>3 DEF LoadDone
    <3>q. QED
      BY <3>1, <3>3, <3>4 DEF Looked, Passing
  <2>2. UNCHANGED files
    BY <1>3 DEF LoadDone
  <2>q. QED
    BY <2>1, <2>2, Fewer
<1>4. ASSUME NEW p \in Procs, Open(p) PROVE Apart'
  <2>1. \A a, b : Looked(a, b)' => Looked(a, b) /\ files'[a] = files[a]
    BY <1>4 DEF Open, Goto, Becomes, local, Looked, Passing, Shape
  <2>q. QED
    BY <2>1, Fewer
<1>5. ASSUME NEW p \in Procs, Write(p) PROVE Apart'
  <2>1. \A a, b : Looked(a, b)' => Looked(a, b) /\ files'[a] = files[a]
    BY <1>5 DEF Write, Goto, Becomes, local, Looked, Passing, Shape
  <2>q. QED
    BY <2>1, Fewer
<1>6. ASSUME NEW p \in Procs, NEW names \in SUBSET Services, Validate(p, names) PROVE Apart'
  <2>1. \A a, b : Looked(a, b)' => Looked(a, b) /\ files'[a] = files[a]
    BY <1>6 DEF Validate, Goto, Looked, Passing, Shape
  <2>q. QED
    BY <2>1, Fewer
<1>7. ASSUME NEW p \in Procs, NEW s \in Services, LoadOwn(p, s) PROVE Apart'
  <2>1. CASE ~Good(s)
    <3>1. UNCHANGED <<files, checked, pc, job, clash, unread, untouched>>
      BY <2>1, <1>7 DEF LoadOwn
    <3>2. \A a, b : Looked(a, b)' => Looked(a, b) /\ files'[a] = files[a]
      BY <3>1 DEF Looked, Passing
    <3>q. QED
      BY <3>2, Fewer
  <2>2. CASE Good(s)
    <3>1. /\ UNCHANGED <<files, checked, clash, unread>> /\ pc[p] = "next"
          /\ pc' = [pc EXCEPT ![p] = "listing"] /\ job' = [job EXCEPT ![p] = s]
          /\ untouched' = [untouched EXCEPT ![p] = {s}]
      BY <2>2, <1>7 DEF LoadOwn, Goto
    <3>2. \A a, b : Looked(a, b)' => Looked(a, b) /\ files'[a] = files[a]
      BY <3>1 DEF Looked, Passing, Shape
    <3>q. QED
      BY <3>2, Fewer
  <2>q. QED
    BY <2>1, <2>2
<1>8. ASSUME NEW p \in Procs, NEW s \in Services, LoadSibling(p, s) PROVE Apart'
  <2>1. /\ UNCHANGED <<files, checked, untouched, pc, job>> /\ pc[p] = "reading"
        /\ unread' = [unread EXCEPT ![p] = @ \ {s}]
    BY <1>8 DEF LoadSibling
  <2>2. /\ \A q \in Procs \ {p} : clash'[q] = clash[q]
        /\ ~clash'[p] => ~clash[p] /\ ~(Good(s) /\ Opposed(p, s))
    <3>1. clash' = [clash EXCEPT ![p] = clash[p] \/ (Good(s) /\ Opposed(p, s))]
      BY <1>8 DEF LoadSibling
    <3>q. QED
      BY <3>1, Zenon DEF Shape
  <2>3. \A q \in Procs : q # p => unread'[q] = unread[q]
    BY <2>1 DEF Shape
  <2>4. \A a, b : Looked(a, b)' => Looked(a, b) \/
          (a = job[p] /\ b = s /\ a \in untouched[p] /\ ~(Good(s) /\ Opposed(p, s)))
    BY <2>1, <2>2, <2>3 DEF Looked, Passing, Shape
  <2>5. ASSUME NEW a \in Services, NEW b \in Services, a # b, Looked(a, b)', Looked(b, a)'
        PROVE  ~Conflict(Hosts(a), Hosts(b))
    <3>1. ASSUME NEW c \in Services, NEW d \in Services, c # d, Looked(d, c)', ~Looked(c, d),
                 Looked(c, d)'
          PROVE  ~Conflict(Hosts(c), Hosts(d))
      <4>1. c = job[p] /\ d = s /\ c \in untouched[p] /\ ~(Good(s) /\ Opposed(p, s))
        BY <2>4, <3>1
      <4>2. Good(d)
        BY <2>4, <3>1, <4>1, LookedGood
      <4>3. mine[p] = files[c]
        BY <2>1, <4>1 DEF AsFound
      <4>q. QED
        BY <4>1, <4>2, <4>3 DEF Opposed, Hosts
    <3>2. CASE Looked(a, b) /\ Looked(b, a)
      BY <2>5, <3>2 DEF Apart
    <3>3. CASE ~Looked(a, b)
      BY <2>5, <3>1, <3>3
    <3>4. CASE ~Looked(b, a)
      BY <2>5, <3>1, <3>4, ConflictSymmetric
    <3>q. QED
      BY <3>2, <3>3, <3>4
  <2>q. QED
    BY <2>1, <2>5 DEF Apart, Hosts, Good
<1>9. ASSUME NEW p \in Procs, NEW s \in Services, Scan(p, s) PROVE Apart'
  <2>1. \A a, b : Looked(a, b)' => Looked(a, b) /\ files'[a] = files[a]
    BY <1>9 DEF Scan, Looked, Passing, Shape
  <2>q. QED
    BY <2>1, Fewer
<1>10. ASSUME NEW p \in Procs, NEW s \in Services, NEW ks \in KeyLists, New(p, s, ks) PROVE Apart'
  <2>1. \A a, b : Looked(a, b)' => Looked(a, b) /\ files'[a] = files[a]
    BY <1>10 DEF New, Goto, Looked, Passing, Shape
  <2>q. QED
    BY <2>1, Fewer
<1>11. ASSUME UNCHANGED vars PROVE Apart'
  BY <1>11 DEF vars, local, Apart, Looked, Passing, Hosts, Good
<1>12. ASSUME NEW p \in Procs, ListSiblings(p) PROVE Apart'
  <2>1. /\ UNCHANGED <<files, checked, job, clash, untouched>> /\ pc[p] = "listing"
        /\ pc' = [pc EXCEPT ![p] = "reading"]
        /\ unread' = [unread EXCEPT ![p] = Listed \ {job[p]}]
    BY <1>12 DEF ListSiblings, Goto
  <2>2. \A a, b : Looked(a, b)' => Looked(a, b) \/ (a = job[p] /\ b \notin Listed \ {job[p]})
    BY <2>1 DEF Looked, Passing, Shape
  <2>3. \A a, b \in Services : a # b /\ Looked(a, b)' /\ Looked(b, a)' =>
          Looked(a, b) /\ Looked(b, a)
    BY <2>2, LookedGood DEF Listed
  <2>q. QED
    BY <2>1, <2>3 DEF Apart, Hosts, Good
<1>13. ASSUME NEW p \in Procs, ListAll(p) PROVE Apart'
  <2>1. \A a, b : Looked(a, b)' => Looked(a, b) /\ files'[a] = files[a]
    BY <1>13 DEF ListAll, Goto, Looked, Passing, Shape
  <2>q. QED
    BY <2>1, Fewer
<1>q. QED
  BY <1>1, <1>2, <1>3, <1>4, <1>5, <1>6, <1>7, <1>8, <1>9, <1>10, <1>11, <1>12, <1>13 DEF
    Next

LEMMA InvInit == Init => Inv
  BY DEF Init, Inv, Shape, AsFound, Apart, Looked, Passing, Hosts

LEMMA InvStep == Inv /\ [Next]_vars => Inv'
  BY ShapeStep, AsFoundStep, ApartStep DEF Inv

LEMMA Invariance == Spec => []Inv
  BY InvInit, InvStep, PTL DEF Spec

\* Two services that were each validated since their files last changed claim
\* no identity in common, however the two commands' reads, edits and new
\* manifests interleave (load_service reads its own file before the siblings).
THEOREM ValidatedStayApart == Spec => []ValidatedApart
<1>1. Inv => ValidatedApart
  BY DEF Inv, Shape, Apart, Looked, Hosts, ValidatedApart
<1>q. QED
  BY <1>1, Invariance, PTL

-----------------------------------------------------------------------------
(* The vm_ids of a new manifest.                                           *)

\* A finite set of numbers has a greatest one.
LEMMA Greatest ==
  ASSUME NEW T \in SUBSET Int, IsFiniteSet(T), T # {}
  PROVE  \E n \in T : \A m \in T : m <= n
<1> DEFINE Above(n) == {m \in T : n < m}
           Tails == {Above(n) : n \in T}
<1>1. Tails \subseteq FiniteSubsetsOf(T) /\ Tails # {}
  <2>1. ASSUME NEW n \in T PROVE Above(n) \in FiniteSubsetsOf(T)
    <3>1. Above(n) \in SUBSET T
      OBVIOUS
    <3>2. IsFiniteSet(Above(n))
      BY <3>1, FS_Subset
    <3>q. QED
      BY <3>1, <3>2 DEF FiniteSubsetsOf
  <2>q. QED
    BY <2>1
<1>2. IsWellFoundedOn(StrictSubsetOrdering(T), FiniteSubsetsOf(T))
  BY FS_StrictSubsetOrderingWellFounded
<1>3. PICK U \in Tails : \A V \in Tails : <<V, U>> \notin StrictSubsetOrdering(T)
  <2> HIDE DEF Tails
  <2>q. QED
    BY <1>1, <1>2, WFMin
<1>4. PICK n \in T : U = Above(n)
  OBVIOUS
<1>5. ASSUME NEW m \in T, n < m PROVE FALSE
  <2>1. Above(m) \subseteq U /\ m \in U /\ m \notin Above(m)
    <3>1. m \in Int /\ n \in Int /\ \A k \in T : k \in Int
      OBVIOUS
    <3>2. \A k \in T : m < k => n < k
      BY <1>5, <3>1
    <3>3. Above(m) \subseteq Above(n)
      BY <3>2
    <3>4. m \in Above(n) /\ m \notin Above(m)
      BY <1>5, <3>1
    <3> HIDE DEF Above
    <3>q. QED
      BY <1>4, <3>3, <3>4
  <2>2. Above(m) \in SUBSET T /\ U \in SUBSET T
    BY <1>4
  <2>3. <<Above(m), U>> \in StrictSubsetOrdering(T)
    <3> HIDE DEF Above
    <3>q. QED
      BY <2>1, <2>2 DEF StrictSubsetOrdering
  <2>4. Above(m) \in Tails
    OBVIOUS
  <2>q. QED
    BY <1>3, <2>3, <2>4
<1>q. QED
  BY <1>5

\* A file whose vm_ids can be counted through, within the bound.
Counted(f) == IsFiniteSet(Numbers(f)) /\ \A n \in Numbers(f) : n \in Int /\ n <= MaxVmId

LEMMA UnparsedCounted == ASSUME NEW f, ~Parsed(f) PROVE Counted(f)
  BY FS_EmptySet DEF Counted, Numbers

LEMMA DraftCounted ==
  ASSUME NEW s \in Services, NEW f \in Drafts[s] \cup {None} PROVE Counted(f)
<1>1. CASE ~Parsed(f)
  BY <1>1, UnparsedCounted
<1>2. CASE Parsed(f)
  <2> DEFINE D == {j \in DOMAIN f.hosts : ~f.hosts[j].quoted}
             g == [k \in D |-> f.hosts[k].vm_id]
  <2>1. f \in Drafts[s]
    BY <1>2 DEF Parsed
  <2>2. IsFiniteSet(D)
    BY <1>2, <2>1, DraftsAssumption, FS_Subset
  <2>3. Numbers(f) = {f.hosts[k].vm_id : k \in D}
    BY <1>2 DEF Numbers
  <2>4. g \in Surjection(D, Numbers(f))
    BY <2>3 DEF Surjection
  <2>5. IsFiniteSet(Numbers(f))
    BY <2>2, <2>4, FS_Surjection
  <2>6. \A n \in Numbers(f) : n \in Int /\ n <= MaxVmId
    BY <1>2, <2>1, <2>3, DraftsAssumption
  <2>q. QED
    BY <2>5, <2>6 DEF Counted
<1>q. QED
  BY <1>1, <1>2

LEMMA ScaffoldCounted ==
  ASSUME NEW ks \in Seq(Keys), NEW n \in Nat, n + Len(ks) - 1 <= MaxVmId
  PROVE  Counted(Manifest0(ks, n))
<1> DEFINE f == Manifest0(ks, n)
<1>1. Len(ks) \in Nat /\ DOMAIN ks = 1..Len(ks) /\ MaxVmId \in Nat
  BY FilesAssumption
<1>2. f.hosts = [k \in ToSet(ks) |->
        [vm_id |-> n + (CHOOSE i \in DOMAIN ks : ks[i] = k) - 1, quoted |-> FALSE,
         name |-> None, set |-> [roles |-> {}, vars |-> NoVars]]]
  BY DEF Manifest0
<1>3. ASSUME NEW m \in Numbers(f) PROVE m \in n..(n + Len(ks) - 1)
  <2>1. CASE ~Parsed(f)
    BY <1>3, <2>1 DEF Numbers
  <2>2. CASE Parsed(f)
    <3>1. PICK k \in DOMAIN f.hosts : m = f.hosts[k].vm_id
      <4> HIDE DEF f
      <4>q. QED
        BY <1>3, <2>2 DEF Numbers
    <3>2. k \in ToSet(ks) /\ m = n + (CHOOSE i \in DOMAIN ks : ks[i] = k) - 1
      BY <1>2, <3>1
    <3>3. \E i \in DOMAIN ks : ks[i] = k
      BY <3>2 DEF ToSet
    <3>4. (CHOOSE i \in DOMAIN ks : ks[i] = k) \in 1..Len(ks)
      BY <1>1, <3>3
    <3>q. QED
      BY <1>1, <3>2, <3>4
  <2>q. QED
    BY <2>1, <2>2
<1>4. IsFiniteSet(n..(n + Len(ks) - 1))
  BY <1>1, FS_Interval
<1>5. IsFiniteSet(Numbers(f))
  <2> HIDE DEF f
  <2>q. QED
    BY <1>3, <1>4, FS_Subset
<1>6. \A m \in Numbers(f) : m \in Int /\ m <= MaxVmId
  BY <1>1, <1>3
<1>q. QED
  BY <1>5, <1>6 DEF Counted

\* The scan of a file ends with the greatest number seen so far.
LEMMA HighestIs ==
  ASSUME NEW f, Counted(f), NEW least \in 0..MaxVmId
  PROVE  /\ Highest(f, least) \in 0..MaxVmId
         /\ least <= Highest(f, least)
         /\ \A n \in Numbers(f) : n <= Highest(f, least)
<1> DEFINE T == Numbers(f) \cup {least}
<1>1. T \in SUBSET Int /\ T # {} /\ IsFiniteSet(T)
  BY FS_AddElement DEF Counted
<1>2. \E n \in T : \A m \in T : m <= n
  <2> HIDE DEF T
  <2>q. QED
    BY <1>1, Greatest
<1>3. Highest(f, least) \in T /\ \A m \in T : m <= Highest(f, least)
  BY <1>2 DEF Highest
<1>4. \A n \in T : n <= MaxVmId
  BY FilesAssumption DEF Counted
<1>q. QED
  BY <1>1, <1>3, <1>4, FilesAssumption

\* A pvc new on its way: its keys and vm_ids are within bounds, and every file
\* that has not changed since it was listed has been counted or is still to be.
Making(p) == pc[p] \in {"making", "scanning", "opened", "created"}
Counting(p) ==
  /\ Making(p) => keys[p] \in KeyLists \ {<<>>} /\ Start - 1 <= highest[p]
  /\ pc[p] \in {"opened", "created"} =>
       highest[p] + Len(keys[p]) <= MaxVmId /\ unread[p] = {}
  /\ Making(p) /\ pc[p] # "making" => \A o \in untouched[p] \ (unread[p] \cup {job[p]}) :
       \A n \in Numbers(files[o]) : n <= highest[p]

CountInv ==
  /\ TypeOK
  /\ \A s \in Services : Counted(files[s])
  /\ \A p \in Procs : Counting(p)

LEMMA TypeInit == Init => TypeOK
<1> SUFFICES ASSUME Init PROVE TypeOK
  OBVIOUS
<1>1. 0 \in 0..MaxVmId
  BY FilesAssumption
<1>2. FALSE \in BOOLEAN
  OBVIOUS
<1>q. QED
  BY <1>1, <1>2 DEF Init, TypeOK

LEMMA CountInit == Init => CountInv
<1> SUFFICES ASSUME Init PROVE CountInv
  OBVIOUS
<1>1. \A s \in Services : Counted(files[s])
  BY UnparsedCounted DEF Init, Parsed
<1>2. \A p \in Procs : Counting(p)
  BY DEF Init, Counting, Making
<1>q. QED
  BY <1>1, <1>2, TypeInit DEF CountInv

\* What a file that is there holds.
LEMMA FileType ==
  ASSUME TypeOK, NEW s \in Services, Good(s) PROVE files[s] \in Contents /\ files[s] # None
  BY DEF TypeOK, Good, Parsed

LEMMA KeysType ==
  ASSUME TypeOK, NEW p \in Procs, Counting(p), Making(p)
  PROVE  /\ keys[p] \in Seq(Keys) /\ Len(keys[p]) \in Nat \ {0} /\ DOMAIN keys[p] = 1..Len(keys[p])
         /\ highest[p] \in Nat
<1>1. keys[p] \in Seq(Keys) /\ keys[p] # <<>>
  BY FilesAssumption DEF Counting
<1>q. QED
  BY <1>1, FilesAssumption DEF TypeOK

LEMMA TypeStep ==
  ASSUME CountInv, [Next]_vars
  PROVE  TypeOK'
<1> USE DEF CountInv
<1>1. ASSUME NEW s \in Services, Save(s) PROVE TypeOK'
  <2>1. PICK f \in Drafts[s] \cup {None} : Becomes(s, f)
    BY <1>1 DEF Save
  <2>2. f \in Contents \cup {None, Blank, Broken}
    BY DEF Contents, Parsed
  <2>3. UNCHANGED <<pc, local>>
    BY <1>1 DEF Save
  <2>q. QED
    BY <2>1, <2>2, <2>3 DEF Becomes, local, TypeOK
<1>2. ASSUME NEW p \in Procs, Stop(p) PROVE TypeOK'
  <2>1. 0 \in 0..MaxVmId
    BY FilesAssumption
  <2>2. clash' \in [Procs -> BOOLEAN]
    BY <1>2 DEF Stop, Forget, TypeOK
  <2>q. QED
    BY <1>2, <2>1, <2>2 DEF Stop, Goto, Forget, TypeOK
<1>3. ASSUME NEW p \in Procs, LoadDone(p) PROVE TypeOK'
  BY <1>3 DEF LoadDone, Goto, TypeOK
<1>4. ASSUME NEW p \in Procs, Open(p) PROVE TypeOK'
  BY <1>4 DEF Open, Goto, Becomes, local, TypeOK
<1>5. ASSUME NEW p \in Procs, Write(p) PROVE TypeOK'
  <2>1. Making(p) /\ Counting(p) /\ pc[p] = "opened" /\ job[p] \in Services
    BY <1>5 DEF Write, Making, TypeOK
  <2>2. highest[p] + 1 \in Start..MaxVmId
    BY <2>1, KeysType, FilesAssumption DEF Counting
  <2>3. Manifest0(keys[p], highest[p] + 1) \in Contents
    BY <2>1, <2>2 DEF Counting, Contents, Scaffolds
  <2>q. QED
    BY <1>5, <2>1, <2>3 DEF Write, Goto, Becomes, local, TypeOK
<1>6. ASSUME NEW p \in Procs, NEW names \in SUBSET Services, Validate(p, names) PROVE TypeOK'
  BY <1>6 DEF Validate, Goto, TypeOK
<1>7. ASSUME NEW p \in Procs, NEW s \in Services, LoadOwn(p, s) PROVE TypeOK'
  <2>1. CASE Good(s)
    <3>1. /\ todo' = [todo EXCEPT ![p] = @ \ {s}]
          /\ UNCHANGED <<files, checked, unread, clash, highest, keys>>
          /\ pc' = [pc EXCEPT ![p] = "listing"] /\ job' = [job EXCEPT ![p] = s]
          /\ mine' = [mine EXCEPT ![p] = files[s]]
          /\ untouched' = [untouched EXCEPT ![p] = {s}]
      BY <2>1, <1>7 DEF LoadOwn, Goto
    <3>q. QED
      BY <2>1, <3>1, FileType DEF TypeOK
  <2>2. CASE ~Good(s)
    BY <2>2, <1>7 DEF LoadOwn, TypeOK
  <2>q. QED
    BY <2>1, <2>2
<1>8. ASSUME NEW p \in Procs, NEW s \in Services, LoadSibling(p, s) PROVE TypeOK'
  <2>1. clash' \in [Procs -> BOOLEAN]
    BY <1>8 DEF LoadSibling, TypeOK
  <2>q. QED
    BY <1>8, <2>1 DEF LoadSibling, TypeOK
<1>9. ASSUME NEW p \in Procs, NEW s \in Services, Scan(p, s) PROVE TypeOK'
  <2>1. Highest(files[s], highest[p]) \in 0..MaxVmId
    BY HighestIs DEF TypeOK
  <2>q. QED
    BY <1>9, <2>1 DEF Scan, TypeOK
<1>10. ASSUME NEW p \in Procs, NEW s \in Services, NEW ks \in KeyLists, New(p, s, ks) PROVE TypeOK'
  <2>1. Start - 1 \in 0..MaxVmId
    BY FilesAssumption
  <2>q. QED
    BY <1>10, <2>1 DEF New, Goto, TypeOK
<1>11. ASSUME UNCHANGED vars PROVE TypeOK'
  BY <1>11 DEF vars, local, TypeOK
<1>12. ASSUME NEW p \in Procs, ListSiblings(p) \/ ListAll(p) PROVE TypeOK'
  <2>1. Listed \in SUBSET Services /\ Listed \ {job[p]} \in SUBSET Services
    BY ListedServices
  <2>2. CASE ListSiblings(p)
    BY <2>1, <2>2 DEF ListSiblings, Goto, TypeOK
  <2>3. CASE ListAll(p)
    BY <2>1, <2>3 DEF ListAll, Goto, TypeOK
  <2>q. QED
    BY <1>12, <2>2, <2>3
<1>q. QED
  BY <1>1, <1>2, <1>3, <1>4, <1>5, <1>6, <1>7, <1>8, <1>9, <1>10, <1>11, <1>12 DEF Next

\* A command counts as before where neither it nor a file it relies on moves.
LEMMA CountingStays ==
  ASSUME NEW p \in Procs, Counting(p),
         \/ ~Making(p)'
         \/ pc'[p] = pc[p] /\ job'[p] = job[p] /\ keys'[p] = keys[p]
            /\ highest'[p] = highest[p] /\ unread'[p] = unread[p],
         untouched'[p] \subseteq untouched[p],
         \A o \in untouched'[p] : files'[o] = files[o]
  PROVE  Counting(p)'
  BY DEF Counting, Making

\* A file that becomes f is counted, and no command takes it for untouched.
LEMMA BecomesCounts ==
  ASSUME CountInv, NEW s \in Services, NEW f, Becomes(s, f), Counted(f)
  PROVE  /\ \A o \in Services : Counted(files'[o])
         /\ \A p \in Procs : /\ untouched'[p] \subseteq untouched[p]
                             /\ \A o \in untouched'[p] : files'[o] = files[o]
<1>1. files' = [files EXCEPT ![s] = f] /\ untouched' = [p \in Procs |-> untouched[p] \ {s}]
  BY DEF Becomes
<1>2. \A o \in Services : Counted(files'[o])
  BY <1>1 DEF CountInv, TypeOK
<1>3. \A p \in Procs : untouched'[p] = untouched[p] \ {s} /\ untouched[p] \subseteq Services
  BY <1>1 DEF CountInv, TypeOK
<1>q. QED
  BY <1>1, <1>2, <1>3 DEF CountInv, TypeOK

LEMMA CountStep ==
  ASSUME CountInv, [Next]_vars
  PROVE  CountInv'
<1> USE DEF CountInv
<1>a. TypeOK'
  BY TypeStep
<1> DEFINE Fns == /\ pc = [p \in Procs |-> pc[p]] /\ job = [p \in Procs |-> job[p]]
                  /\ keys = [p \in Procs |-> keys[p]] /\ unread = [p \in Procs |-> unread[p]]
                  /\ highest = [p \in Procs |-> highest[p]]
                  /\ untouched = [p \in Procs |-> untouched[p]]
<1>b. Fns
  BY DEF TypeOK
<1>1. ASSUME NEW s \in Services, Save(s) PROVE CountInv'
  <2>1. PICK f \in Drafts[s] \cup {None} : Becomes(s, f)
    BY <1>1 DEF Save
  <2>2. UNCHANGED <<pc, local>>
    BY <1>1 DEF Save
  <2>q. QED
    BY <1>a, <2>1, <2>2, DraftCounted, BecomesCounts, CountingStays DEF local
<1>2. ASSUME NEW p \in Procs, Stop(p) PROVE CountInv'
  <2>1. \A q \in Procs : \/ ~Making(q)'
                         \/ pc'[q] = pc[q] /\ job'[q] = job[q] /\ keys'[q] = keys[q]
                            /\ highest'[q] = highest[q] /\ unread'[q] = unread[q]
    BY <1>b, <1>2 DEF Stop, Goto, Forget, Making
  <2>2. \A q \in Procs : untouched'[q] \subseteq untouched[q]
    BY <1>b, <1>2 DEF Stop, Forget
  <2>3. UNCHANGED files
    BY <1>2 DEF Stop
  <2>q. QED
    BY <1>a, <2>1, <2>2, <2>3, CountingStays DEF Counted
<1>3. ASSUME NEW p \in Procs, \/ LoadDone(p) \/ ListSiblings(p)
                              \/ \E s \in Services : LoadSibling(p, s) \/ LoadOwn(p, s)
                              \/ \E names \in SUBSET Services : Validate(p, names)
      PROVE  CountInv'
  <2>1. UNCHANGED <<files, highest, keys>> /\ ~Making(p) /\ ~Making(p)'
    BY <1>b, <1>3 DEF LoadDone, ListSiblings, LoadSibling, LoadOwn, Validate, Goto, Making
  <2>2. ASSUME NEW q \in Procs, q # p
        PROVE  pc'[q] = pc[q] /\ job'[q] = job[q] /\ unread'[q] = unread[q]
               /\ untouched'[q] = untouched[q]
    <3>1. CASE LoadDone(p) \/ ListSiblings(p)
      BY <1>b, <2>2, <3>1 DEF LoadDone, ListSiblings, Goto
    <3>2. ASSUME NEW s \in Services, LoadSibling(p, s) \/ LoadOwn(p, s)
          PROVE  pc'[q] = pc[q] /\ job'[q] = job[q] /\ unread'[q] = unread[q]
                 /\ untouched'[q] = untouched[q]
      BY <1>b, <2>2, <3>2 DEF LoadSibling, LoadOwn, Goto
    <3>3. ASSUME NEW names \in SUBSET Services, Validate(p, names)
          PROVE  pc'[q] = pc[q] /\ job'[q] = job[q] /\ unread'[q] = unread[q]
                 /\ untouched'[q] = untouched[q]
      BY <1>b, <2>2, <3>3 DEF Validate, Goto
    <3>q. QED
      BY <1>3, <3>1, <3>2, <3>3
  <2>3. Counting(p)'
    BY <2>1 DEF Counting, Making
  <2>4. \A q \in Procs : Counting(q)'
    BY <2>1, <2>2, <2>3, CountingStays
  <2>q. QED
    BY <1>a, <2>1, <2>4 DEF Counted
<1>4. ASSUME NEW p \in Procs, Open(p) PROVE CountInv'
  <2>1. /\ Becomes(job[p], Blank) /\ pc[p] = "scanning" /\ unread[p] = {}
        /\ highest[p] + Len(keys[p]) <= MaxVmId
        /\ pc' = [pc EXCEPT ![p] = "opened"] /\ UNCHANGED <<job, keys, highest, unread>>
    BY <1>4 DEF Open, Goto, local
  <2>2. job[p] \in Services /\ Counted(Blank)
    BY <2>1, UnparsedCounted DEF TypeOK, Parsed
  <2>3. /\ \A o \in Services : Counted(files'[o])
        /\ \A q \in Procs : /\ untouched'[q] \subseteq untouched[q]
                            /\ \A o \in untouched'[q] : files'[o] = files[o]
    BY <2>1, <2>2, BecomesCounts
  <2>4. Counting(p)'
    BY <1>b, <2>1, <2>3 DEF Counting, Making
  <2>5. \A q \in Procs : q # p => Counting(q)'
    BY <1>b, <2>1, <2>3, CountingStays
  <2>q. QED
    BY <1>a, <2>3, <2>4, <2>5 DEF Counted
<1>5. ASSUME NEW p \in Procs, Write(p) PROVE CountInv'
  <2>1. /\ Becomes(job[p], Manifest0(keys[p], highest[p] + 1)) /\ pc[p] = "opened"
        /\ pc' = [pc EXCEPT ![p] = "created"] /\ UNCHANGED <<job, keys, highest, unread>>
    BY <1>5 DEF Write, Goto, local
  <2>2. job[p] \in Services /\ Counted(Manifest0(keys[p], highest[p] + 1))
    <3>1. Making(p) /\ highest[p] + Len(keys[p]) <= MaxVmId
      BY <2>1 DEF Counting, Making
    <3>2. keys[p] \in Seq(Keys) /\ highest[p] + 1 \in Nat
          /\ highest[p] + 1 + Len(keys[p]) - 1 <= MaxVmId
      BY <3>1, KeysType, FilesAssumption
    <3>q. QED
      BY <2>1, <3>2, ScaffoldCounted DEF TypeOK
  <2>3. /\ \A o \in Services : Counted(files'[o])
        /\ \A q \in Procs : /\ untouched'[q] \subseteq untouched[q]
                            /\ \A o \in untouched'[q] : files'[o] = files[o]
    BY <2>1, <2>2, BecomesCounts
  <2>4. Counting(p)'
    BY <1>b, <2>1, <2>3 DEF Counting, Making
  <2>5. \A q \in Procs : q # p => Counting(q)'
    BY <1>b, <2>1, <2>3, CountingStays
  <2>q. QED
    BY <1>a, <2>3, <2>4, <2>5 DEF Counted
<1>6. ASSUME NEW p \in Procs, NEW s \in Services, Scan(p, s) PROVE CountInv'
  <2>1. /\ pc[p] = "scanning" /\ unread' = [unread EXCEPT ![p] = @ \ {s}]
        /\ highest' = [highest EXCEPT ![p] = Highest(files[s], @)]
        /\ UNCHANGED <<files, untouched, pc, job, keys>>
    BY <1>6 DEF Scan
  <2>2. highest[p] \in 0..MaxVmId
    BY DEF TypeOK
  <2>3. /\ highest'[p] \in 0..MaxVmId /\ highest[p] <= highest'[p]
        /\ \A n \in Numbers(files[s]) : n <= highest'[p]
    BY <1>b, <2>1, <2>2, HighestIs
  <2>4. ASSUME NEW o \in untouched[p] \ (unread'[p] \cup {job[p]}), NEW n \in Numbers(files[o])
        PROVE  n <= highest'[p]
    <3>1. CASE o = s
      BY <2>3, <2>4, <3>1
    <3>2. CASE o # s
      <4>1. o \notin unread[p]
        BY <1>b, <2>1, <2>4, <3>2
      <4>2. n <= highest[p]
        BY <2>1, <2>4, <4>1 DEF Counting, Making
      <4>3. o \in Services
        BY DEF TypeOK
      <4>4. n \in Int
        BY <2>4, <4>3 DEF Counted
      <4>q. QED
        BY <2>2, <2>3, <4>2, <4>4
    <3>q. QED
      BY <3>1, <3>2
  <2>5. Start - 1 <= highest'[p]
    BY <2>1, <2>2, <2>3, FilesAssumption DEF Counting, Making
  <2>6. Counting(p)'
    BY <2>1, <2>4, <2>5 DEF Counting, Making
  <2>7. \A q \in Procs : q # p => Counting(q)'
    BY <1>b, <2>1, CountingStays
  <2>q. QED
    BY <1>a, <2>1, <2>6, <2>7 DEF Counted
<1>7. ASSUME NEW p \in Procs, NEW s \in Services, NEW ks \in KeyLists, New(p, s, ks)
      PROVE  CountInv'
  <2>1. /\ ks # <<>> /\ pc' = [pc EXCEPT ![p] = "making"] /\ job' = [job EXCEPT ![p] = s]
        /\ keys' = [keys EXCEPT ![p] = ks] /\ highest' = [highest EXCEPT ![p] = Start - 1]
        /\ UNCHANGED <<files, unread, untouched>>
    BY <1>7 DEF New, Goto
  <2>2. Counting(p)'
    BY <1>b, <2>1, FilesAssumption DEF Counting, Making
  <2>3. \A q \in Procs : q # p => Counting(q)'
    BY <1>b, <2>1, CountingStays
  <2>q. QED
    BY <1>a, <2>1, <2>2, <2>3 DEF Counted
<1>8. ASSUME NEW p \in Procs, ListAll(p) PROVE CountInv'
  <2>1. /\ pc[p] = "making" /\ pc' = [pc EXCEPT ![p] = "scanning"]
        /\ unread' = [unread EXCEPT ![p] = Listed]
        /\ untouched' = [untouched EXCEPT ![p] = Listed] /\ UNCHANGED <<files, job, keys, highest>>
    BY <1>8 DEF ListAll, Goto
  <2>2. Counting(p)'
    BY <1>b, <2>1 DEF Counting, Making
  <2>3. \A q \in Procs : q # p => Counting(q)'
    BY <1>b, <2>1, CountingStays
  <2>q. QED
    BY <1>a, <2>1, <2>2, <2>3 DEF Counted
<1>9. ASSUME UNCHANGED vars PROVE CountInv'
  BY <1>a, <1>9, CountingStays DEF vars, local, Counted
<1>q. QED
  BY <1>1, <1>2, <1>3, <1>4, <1>5, <1>6, <1>7, <1>8, <1>9 DEF Next

LEMMA CountInvariance == Spec => []CountInv
  BY CountInit, CountStep, PTL DEF Spec

\* The variables have their types in every state: in particular, what a scan
\* has counted never exceeds the bound, and what is written is a manifest.
THEOREM ScaffoldTypeCorrect == Spec => []TypeOK
<1>1. CountInv => TypeOK
  BY DEF CountInv
<1>q. QED
  BY <1>1, CountInvariance, PTL

\* pvc new gives out vm_ids that no manifest had which has stayed as it was
\* since the services were listed, whether it resolves or not (next_free_vm_id
\* passes over no file that it can read).
THEOREM NewIdsAreFresh == Spec => []FreshIds
<1>1. CountInv => FreshIds
  <2> SUFFICES ASSUME CountInv, NEW p \in Procs, pc[p] = "created",
                      NEW o \in untouched[p] \ {job[p]}, NEW n \in Numbers(files[o])
               PROVE  n \notin NewIds(p)
    BY DEF FreshIds
  <2>1. Making(p) /\ unread[p] = {} /\ n <= highest[p]
    BY DEF CountInv, Counting, Making
  <2>2. highest[p] \in Nat /\ DOMAIN keys[p] = 1..Len(keys[p])
    BY <2>1, KeysType DEF CountInv
  <2>3. n \in Int
    BY DEF CountInv, TypeOK, Counted
  <2>q. QED
    BY <2>1, <2>2, <2>3 DEF NewIds
<1>q. QED
  BY <1>1, CountInvariance, PTL

-----------------------------------------------------------------------------
(* resolve_service.                                                        *)

\* What merging one layer does to the fields.
LEMMA PutDomain ==
  ASSUME NEW m, NEW l
  PROVE  DOMAIN Put(m, l) = DOMAIN m \cup DOMAIN l
  BY DEF Put

\* A field that the layer sets, other than roles and vars, and one that it
\* does not set.
LEMMA PutField ==
  ASSUME NEW m, NEW l, NEW f \in DOMAIN m \cup DOMAIN l
  PROVE  /\ f \in DOMAIN l /\ f \notin {"roles", "vars"} => Put(m, l)[f] = l[f]
         /\ f \notin DOMAIN l => Put(m, l)[f] = m[f]
  BY DEF Put

\* The roles and the variables that a layer has.
RolesIn(l) == IF "roles" \in DOMAIN l THEN l.roles ELSE {}
VarsIn(l) == IF "vars" \in DOMAIN l THEN l.vars ELSE NoVars

LEMMA PutRoles ==
  ASSUME NEW m, NEW l, "roles" \in DOMAIN m
  PROVE  Put(m, l).roles = m.roles \cup RolesIn(l)
<1>1. CASE "roles" \in DOMAIN l
  BY <1>1 DEF Put, RolesIn
<1>2. CASE "roles" \notin DOMAIN l
  BY <1>2 DEF Put, RolesIn
<1>q. QED
  BY <1>1, <1>2

LEMMA PutVars ==
  ASSUME NEW m, NEW l, "vars" \in DOMAIN m
  PROVE  /\ DOMAIN Put(m, l).vars = DOMAIN m.vars \cup DOMAIN VarsIn(l)
         /\ \A v \in DOMAIN m.vars \cup DOMAIN VarsIn(l) :
              Put(m, l).vars[v] = IF v \in DOMAIN VarsIn(l) THEN VarsIn(l)[v] ELSE m.vars[v]
<1>1. CASE "vars" \in DOMAIN l
  <2>1. VarsIn(l) = l.vars
    BY <1>1 DEF VarsIn
  <2>2. Put(m, l).vars = [v \in DOMAIN l.vars \cup DOMAIN m.vars |->
          IF v \in DOMAIN l.vars THEN l.vars[v] ELSE m.vars[v]]
    BY <1>1 DEF Put
  <2>q. QED
    BY <2>1, <2>2
<1>2. CASE "vars" \notin DOMAIN l
  <2>1. Put(m, l).vars = m.vars
    BY <1>2 DEF Put
  <2>2. DOMAIN VarsIn(l) = {}
    BY <1>2 DEF VarsIn, NoVars
  <2>q. QED
    BY <2>1, <2>2
<1>q. QED
  BY <1>1, <1>2

\* The field of the highest layer that sets it.
LEMMA MostSpecificIs ==
  ASSUME NEW ls, DOMAIN ls = 1..5, NEW f, NEW i \in 1..5, f \in DOMAIN ls[i],
         \A j \in 1..5 : j > i => f \notin DOMAIN ls[j]
  PROVE  MostSpecific(ls, f) = ls[i][f]
<1> DEFINE set == {j \in DOMAIN ls : f \in DOMAIN ls[j]}
           top(j) == j \in set /\ \A n \in set : n <= j
<1>1. top(i)
  OBVIOUS
<1>2. \A j : top(j) => j = i
  OBVIOUS
<1>3. (CHOOSE j : top(j)) = i
  BY <1>1, <1>2
<1>4. (CHOOSE j \in set : \A n \in set : n <= j) = (CHOOSE j : top(j))
  OBVIOUS
<1>q. QED
  BY <1>3, <1>4 DEF MostSpecific
\* Settings m are those of the first n of the layers ls: Layered, as the
\* merging goes on.
SoFar(m, ls, n) ==
  /\ DOMAIN m = {"roles", "vars"} \cup UNION {DOMAIN ls[i] : i \in 1..n}
  /\ m.roles = UNION {RolesIn(ls[i]) : i \in 1..n}
  /\ DOMAIN m.vars = UNION {DOMAIN VarsIn(ls[i]) : i \in 1..n}
  /\ \A v : \A i \in 1..n :
       v \in DOMAIN VarsIn(ls[i]) /\ (\A j \in i+1..n : v \notin DOMAIN VarsIn(ls[j])) =>
         m.vars[v] = VarsIn(ls[i])[v]
  /\ \A f : \A i \in 1..n :
       f \in DOMAIN ls[i] \ {"roles", "vars"} /\ (\A j \in i+1..n : f \notin DOMAIN ls[j]) =>
         m[f] = ls[i][f]

LEMMA OneLayerMore ==
  ASSUME NEW m, NEW ls, NEW n \in Nat, SoFar(m, ls, n)
  PROVE  SoFar(Put(m, ls[n+1]), ls, n+1)
<1> DEFINE l == ls[n+1]
           p == Put(m, l)
<1>0. 1..(n+1) = (1..n) \cup {n+1}
  OBVIOUS
<1>1. DOMAIN p = {"roles", "vars"} \cup UNION {DOMAIN ls[i] : i \in 1..(n+1)}
  <2>1. DOMAIN p = DOMAIN m \cup DOMAIN l
    BY PutDomain
  <2> HIDE DEF p
  <2>q. QED
    BY <1>0, <2>1 DEF SoFar
<1>2. p.roles = UNION {RolesIn(ls[i]) : i \in 1..(n+1)}
  <2>1. p.roles = m.roles \cup RolesIn(l)
    BY PutRoles DEF SoFar
  <2>q. QED
    BY <1>0, <2>1 DEF SoFar
<1>3. DOMAIN p.vars = DOMAIN m.vars \cup DOMAIN VarsIn(l)
  BY PutVars DEF SoFar
<1>4. DOMAIN p.vars = UNION {DOMAIN VarsIn(ls[i]) : i \in 1..(n+1)}
  BY <1>0, <1>3 DEF SoFar
<1>5. ASSUME NEW v, NEW i \in 1..(n+1), v \in DOMAIN VarsIn(ls[i]),
             \A j \in i+1..n+1 : v \notin DOMAIN VarsIn(ls[j])
      PROVE  p.vars[v] = VarsIn(ls[i])[v]
  <2>1. p.vars[v] = IF v \in DOMAIN VarsIn(l) THEN VarsIn(l)[v] ELSE m.vars[v]
    <3>1. "vars" \in DOMAIN m /\ v \in DOMAIN p.vars
      BY <1>4, <1>5 DEF SoFar
    <3>q. QED
      BY <1>3, <3>1, PutVars
  <2>2. CASE i = n+1
    BY <1>5, <2>1, <2>2
  <2>3. CASE i # n+1
    <3>1. i \in 1..n /\ n+1 \in i+1..n+1 /\ \A j \in i+1..n : j \in i+1..n+1
      BY <2>3
    <3>2. m.vars[v] = VarsIn(ls[i])[v]
      BY <1>5, <3>1 DEF SoFar
    <3>3. v \notin DOMAIN VarsIn(l)
      BY <1>5, <3>1
    <3>q. QED
      BY <2>1, <3>2, <3>3
  <2>q. QED
    BY <2>2, <2>3
<1>6. ASSUME NEW f, NEW i \in 1..(n+1), f \in DOMAIN ls[i] \ {"roles", "vars"},
             \A j \in i+1..n+1 : f \notin DOMAIN ls[j]
      PROVE  p[f] = ls[i][f]
  <2>1. CASE i = n+1
    BY <1>6, <2>1, PutField
  <2>2. CASE i # n+1
    <3>1. i \in 1..n /\ n+1 \in i+1..n+1 /\ \A j \in i+1..n : j \in i+1..n+1
      BY <2>2
    <3>2. m[f] = ls[i][f] /\ f \in DOMAIN m
      BY <1>6, <3>1 DEF SoFar
    <3>3. f \notin DOMAIN l
      BY <1>6, <3>1
    <3>q. QED
      BY <3>2, <3>3, PutField
  <2>q. QED
    BY <2>1, <2>2
<1>q. QED
  BY <1>1, <1>2, <1>4, <1>5, <1>6 DEF SoFar

LEMMA MergedSoFar ==
  ASSUME NEW raw, NEW k
  PROVE  SoFar(Merged(raw, k), Layers(raw, k), 5)
<1> DEFINE ls == Layers(raw, k)
           m0 == [f \in {"roles", "vars"} |-> IF f = "roles" THEN {} ELSE NoVars]
           m1 == Put(m0, ls[1])
           m2 == Put(m1, ls[2])
           m3 == Put(m2, ls[3])
           m4 == Put(m3, ls[4])
           m5 == Put(m4, ls[5])
<1>1. SoFar(m0, ls, 0)
  BY DEF SoFar, NoVars
<1>2. SoFar(m1, ls, 1)
  BY <1>1, OneLayerMore, 0 + 1 = 1
<1>3. SoFar(m2, ls, 2)
  BY <1>2, OneLayerMore, 1 + 1 = 2
<1>4. SoFar(m3, ls, 3)
  BY <1>3, OneLayerMore, 2 + 1 = 3
<1>5. SoFar(m4, ls, 4)
  BY <1>4, OneLayerMore, 3 + 1 = 4
<1>6. SoFar(m5, ls, 5)
  BY <1>5, OneLayerMore, 4 + 1 = 5
<1>q. QED
  BY <1>6 DEF Merged
\* The merged settings are those of the layers, for any file and host key.
LEMMA LayersRight == \A raw, k : Layered(raw, k)
<1> SUFFICES ASSUME NEW raw, NEW k PROVE Layered(raw, k)
  OBVIOUS
<1> DEFINE ls == Layers(raw, k)
           m == Merged(raw, k)
           varying == {i \in DOMAIN ls : "vars" \in DOMAIN ls[i]}
           vs == [i \in DOMAIN ls |-> IF i \in varying THEN ls[i].vars ELSE NoVars]
<1>1. DOMAIN ls = 1..5
  BY DEF Layers
<1>2. SoFar(m, ls, 5)
  BY MergedSoFar
<1> HIDE DEF ls, m
<1>3. \A i \in 1..5 : vs[i] = VarsIn(ls[i])
  BY <1>1 DEF VarsIn
<1>4. m.roles = UNION {ls[i].roles : i \in {j \in DOMAIN ls : "roles" \in DOMAIN ls[j]}}
  <2>1. m.roles = UNION {RolesIn(ls[i]) : i \in 1..5}
    BY <1>2 DEF SoFar
  <2>2. UNION {RolesIn(ls[i]) : i \in 1..5} =
          UNION {ls[i].roles : i \in {j \in 1..5 : "roles" \in DOMAIN ls[j]}}
    BY DEF RolesIn
  <2>q. QED
    BY <1>1, <2>1, <2>2
<1>5. DOMAIN m.vars = UNION {DOMAIN ls[i].vars : i \in varying}
  <2>1. DOMAIN m.vars = UNION {DOMAIN VarsIn(ls[i]) : i \in 1..5}
    BY <1>2 DEF SoFar
  <2>2. UNION {DOMAIN VarsIn(ls[i]) : i \in 1..5} = UNION {DOMAIN ls[i].vars : i \in varying}
    BY <1>1 DEF VarsIn, NoVars
  <2>q. QED
    BY <2>1, <2>2
\* The highest of the layers where something is so.
<1>6. ASSUME NEW S \in SUBSET (1..5), S # {}
      PROVE  \E i \in S : \A j \in 1..5 : j > i => j \notin S
  <2>1. CASE 5 \in S
    BY <2>1
  <2>2. CASE 5 \notin S /\ 4 \in S
    BY <2>2
  <2>3. CASE 5 \notin S /\ 4 \notin S /\ 3 \in S
    BY <2>3
  <2>4. CASE 5 \notin S /\ 4 \notin S /\ 3 \notin S /\ 2 \in S
    BY <2>4
  <2>5. CASE 5 \notin S /\ 4 \notin S /\ 3 \notin S /\ 2 \notin S
    <3>1. \A j \in S : j = 1
      <4>1. \A j \in 1..5 : j = 1 \/ j = 2 \/ j = 3 \/ j = 4 \/ j = 5
        OBVIOUS
      <4>q. QED
        BY <2>5, <4>1
    <3>2. PICK i \in S : TRUE
      BY <1>6
    <3>q. QED
      BY <3>1, <3>2
  <2>q. QED
    BY <2>1, <2>2, <2>3, <2>4, <2>5
<1>7. ASSUME NEW v \in DOMAIN m.vars PROVE m.vars[v] = MostSpecific(vs, v)
  <2> DEFINE S == {i \in 1..5 : v \in DOMAIN VarsIn(ls[i])}
  <2>1. S # {}
    BY <1>2, <1>7 DEF SoFar
  <2>2. PICK i \in S : \A j \in 1..5 : j > i => j \notin S
    BY <1>6, <2>1
  <2>3. m.vars[v] = VarsIn(ls[i])[v]
    <3>1. i \in 1..5 /\ v \in DOMAIN VarsIn(ls[i])
      OBVIOUS
    <3>2. \A j \in i+1..5 : v \notin DOMAIN VarsIn(ls[j])
      BY <2>2, <3>1
    <3>q. QED
      BY <1>2, <3>1, <3>2 DEF SoFar
  <2>4. MostSpecific(vs, v) = vs[i][v]
    <3>1. DOMAIN vs = 1..5
      BY <1>1
    <3> HIDE DEF vs
    <3>q. QED
      BY <1>3, <2>2, <3>1, MostSpecificIs
  <2>q. QED
    BY <1>3, <2>3, <2>4
<1>8. ASSUME NEW f \in (UNION {DOMAIN ls[i] : i \in DOMAIN ls}) \ {"roles", "vars"}
      PROVE  m[f] = MostSpecific(ls, f)
  <2> DEFINE S == {i \in 1..5 : f \in DOMAIN ls[i]}
  <2>1. S # {}
    BY <1>1, <1>8
  <2>2. PICK i \in S : \A j \in 1..5 : j > i => j \notin S
    BY <1>6, <2>1
  <2>3. m[f] = ls[i][f]
    <3>1. i \in 1..5 /\ f \in DOMAIN ls[i] \ {"roles", "vars"}
      BY <1>8
    <3>2. \A j \in i+1..5 : f \notin DOMAIN ls[j]
      BY <2>2, <3>1
    <3>q. QED
      BY <1>2, <3>1, <3>2 DEF SoFar
  <2>4. MostSpecific(ls, f) = ls[i][f]
    BY <1>1, <2>2, MostSpecificIs
  <2>q. QED
    BY <2>3, <2>4
<1>q. QED
  BY <1>4, <1>5, <1>7, <1>8 DEF Layered, ls, m

\* A file that resolve_service accepts is a manifest as Manifest, and with it
\* Workflow, takes them.
LEMMA AcceptedRight ==
  ASSUME NEW s, NEW raw, Accepted(s, raw)
  PROVE  /\ Resolves(HostsOf(s, raw))
         /\ \A k \in DOMAIN raw.hosts : LET h == HostOf(s, k, raw) IN
              /\ h.mac \in Macs \cup {None}
              /\ h.address # None => \E i \in 1..5 : "gateway" \in DOMAIN Layers(raw, k)[i]
<1> DEFINE hosts == HostsOf(s, raw)
<1>1. DOMAIN hosts = DOMAIN raw.hosts /\ \A k \in DOMAIN raw.hosts : hosts[k] = HostOf(s, k, raw)
  BY DEF HostsOf
<1>2. ASSUME NEW k \in DOMAIN raw.hosts
      PROVE  /\ hosts[k].node \in SiteNodes
             /\ hosts[k].pci \X {hosts[k].node} \subseteq SiteMappings
             /\ HostOf(s, k, raw).mac \in Macs \cup {None}
             /\ HostOf(s, k, raw).address # None =>
                  \E i \in 1..5 : "gateway" \in DOMAIN Layers(raw, k)[i]
  <2> DEFINE m == Merged(raw, k)
             h == HostOf(s, k, raw)
  <2>1. HostFine(raw, k)
    BY DEF Accepted
  <2>2. /\ h.node = NodeOf(m) /\ h.mac = MacOf(m)
        /\ h.pci = {d.mapping : d \in ToSet(Devices(m))}
        /\ h.address = IF Static(m) THEN m.ip ELSE None
    BY DEF HostOf
  <2>3. DOMAIN m = {"roles", "vars"} \cup UNION {DOMAIN Layers(raw, k)[i] : i \in 1..5}
    <3>1. SoFar(m, Layers(raw, k), 5)
      BY MergedSoFar
    <3> HIDE DEF m
    <3>q. QED
      BY <3>1 DEF SoFar
  <2> HIDE DEF m, h
  <2>4. /\ NodeOf(m) \in SiteNodes /\ DevicesFine(m)
        /\ Static(m) => Field(m, "gateway") # None
        /\ Field(m, "mac") \in DOMAIN Upper \cup {None}
    BY <2>1 DEF HostFine, m
  <2>5. h.node \in SiteNodes
    BY <2>2, <2>4
  <2>6. h.pci \X {h.node} \subseteq SiteMappings
    BY <2>2, <2>4 DEF DevicesFine
  <2>7. h.mac \in Macs \cup {None}
    <3>1. CASE Field(m, "mac") \in DOMAIN Upper
      <4>1. MacOf(m) = Upper[m.mac] /\ m.mac \in DOMAIN Upper
        BY <3>1, UpperAssumption DEF MacOf, Field
      <4>q. QED
        BY <2>2, <4>1, UpperAssumption
    <3>2. CASE Field(m, "mac") \notin DOMAIN Upper
      BY <2>2, <2>4, <3>2 DEF MacOf
    <3>q. QED
      BY <3>1, <3>2
  <2>8. h.address # None => \E i \in 1..5 : "gateway" \in DOMAIN Layers(raw, k)[i]
    BY <2>2, <2>3, <2>4 DEF Field
  <2>q. QED
    BY <1>1, <2>5, <2>6, <2>7, <2>8 DEF h
<1>3. \A j, k \in DOMAIN hosts : j # k => ~Clash(hosts[j], hosts[k])
  BY DEF Accepted, Duplicates, Clash
<1>q. QED
  BY <1>1, <1>2, <1>3 DEF Resolves

\* Whatever the operator and the commands do, a manifest on disk resolves to
\* the settings of its layers (resolve_service, _merge_layers) and, if it is
\* accepted, to one that two-service checks and Workflow may rely on.
THEOREM ResolvesRight == Spec => []ResolutionAgrees
<1>1. TypeOK => ResolutionAgrees
  <2> SUFFICES ASSUME TypeOK, NEW s \in Services, Parsed(files[s])
               PROVE  Resolution[s][files[s]].right
    BY DEF ResolutionAgrees
  <2>1. files[s] \in Contents
    BY DEF TypeOK, Parsed
  <2>2. ResolvedRight(s, files[s])
    BY LayersRight, AcceptedRight DEF ResolvedRight
  <2>q. QED
    BY <2>1, <2>2 DEF Resolution
<1>q. QED
  BY <1>1, ScaffoldTypeCorrect, PTL
=============================================================================
