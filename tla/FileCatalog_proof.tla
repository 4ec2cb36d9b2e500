------------------------- MODULE FileCatalog_proof -------------------------
(***************************************************************************)
(* Proofs about FileCatalog, for any files and roots, any size of the      *)
(* journal and any number of changes: what a scan says of the files is no  *)
(* older than what the client had reported when the query began, although  *)
(* most of the files are not read again.                                   *)
(*                                                                         *)
(* Between the server and the worker there is the journal of the server    *)
(* and a copy of it, made when the query began.  What the worker keeps is  *)
(* right up to what the server's journal names (CatalogFollows,            *)
(* CacheFollows); when a query begins, that becomes a fact about its copy  *)
(* (BeforeScan); the scan uses what the copy allows (Scan); and what the   *)
(* scan leaves behind is of the copy's revision, from which on the         *)
(* server's journal was watched all the time (TaskFollows).                *)
(***************************************************************************)
EXTENDS FileCatalog, SequenceTheorems, WellFoundedInduction, TLAPS

-----------------------------------------------------------------------------
(* The types                                                               *)

(* What a file has come to, by path: of some of the files.                 *)
Tables == UNION {[S -> Nat] : S \in SUBSET Paths}

Journals == [floor : Nat, latest : Nat, paths : Tables]

Message ==
    [type : {"event"}, path : Paths, kind : {"created", "changed", "deleted"}, at : Nat]
    \cup {Accepted, Obsolete}

Revision == Nat \cup {None}

Task ==
    [other : BOOLEAN, subject : Subjects \cup {None}, phase : {"resolve", "catalog", "scan"},
     revision : Revision, events : Journals, folders : SUBSET Roots, open : SUBSET Paths,
     due : [Paths -> Nat], read : Nat, files : SUBSET Paths, todo : SUBSET Paths,
     reuse : BOOLEAN, previous : Revision, found : Tables]

Catalogs ==
    [revision : Nat, folders : SUBSET Roots, open : SUBSET Paths, files : SUBSET Paths]

(* A journal that ends at `now'.                                           *)
JournalAt(j, now) ==
    /\ j \in Journals
    /\ j.floor <= now /\ j.latest = now
    /\ \A p \in DOMAIN j.paths : j.paths[p] <= now

(* The disk and the client: an event announces a content the file has had. *)
ClientOK ==
    /\ disk \in [Paths -> Seq(BOOLEAN)]
    /\ \A p \in Paths : Len(disk[p]) >= 1
    /\ watched \subseteq Roots
    /\ inbox \in Seq(Message)
    /\ \A i \in DOMAIN inbox : IsEvent(inbox[i]) =>
         inbox[i].at \in 2..Len(disk[inbox[i].path])

(* The server: the journal ends at the present revision, which is that of  *)
(* the files when events are trusted.                                      *)
ServerOK ==
    /\ folders \subseteq Roots /\ open \subseteq Paths
    /\ epoch \in Nat
    /\ JournalAt(journal, epoch)
    /\ revision \in {None, epoch}

-----------------------------------------------------------------------------
(* The inductive invariant                                                 *)

(* While events are trusted the client watches the roots, and so it does   *)
(* when an acceptance the server is going to believe is under way.         *)
Watching ==
    /\ revision # None => folders \subseteq watched
    /\ \A i \in DOMAIN inbox : inbox[i] = Accepted => revision = None /\ folders \subseteq watched
    /\ \A i, j \in DOMAIN inbox : inbox[i] = Accepted /\ inbox[j] = Accepted => i = j

(* The journal can tell what became of the files since revision r.         *)
Follows(r) == revision # None /\ r # None /\ journal.floor <= r

(* While events are not trusted, nothing kept is of a time the journal     *)
(* still knows: it will not be used once they are trusted again.           *)
Lost(r) == revision = None /\ r # None => journal.floor > r

(* Since the query began, nothing the journal can follow happened to a     *)
(* file it does not name.                                                  *)
TaskFollows ==
    task # None /\ Follows(task.revision) =>
      /\ task.folders = folders /\ task.open = open
      /\ \A p \in Paths : RootOf[p] \in folders /\ p \notin ChangedPaths(journal, task.revision)
           => Due(p) <= task.due[p]

(* From the content `from' on there was an instant at which p was, or was  *)
(* not, on the disk, as `files' says.                                      *)
FoundIn(d, p, from, files) == \E i \in from..Len(d[p]) : d[p][i] = (p \in files)

(* The catalog is right about every file the journal does not name.        *)
CatalogFollows ==
    catalog # None /\ Follows(catalog.revision)
      /\ catalog.folders = folders /\ catalog.open = open =>
        \A p \in Paths \ open :
          RootOf[p] \in folders /\ p \notin ChangedPaths(journal, catalog.revision)
            => FoundIn(disk, p, Due(p), catalog.files)

(* So are the summaries.                                                   *)
CacheFollows ==
    Follows(cache.revision) =>
      \A p \in DOMAIN cache.entries \ Subjects :
        /\ RootOf[p] \in folders
        /\ p \notin ChangedPaths(journal, cache.revision) => Due(p) <= cache.entries[p]

(* Summaries that have a revision are of files in the catalog.             *)
CacheInCatalog ==
    cache.revision # None =>
      \A p \in DOMAIN cache.entries \ Subjects : p \in catalog.files

(* The journal the query began with can tell what the catalog misses.      *)
CatalogServes ==
    /\ catalog # None /\ task.revision # None
    /\ catalog.revision = task.revision \/ Knows(task.events, catalog.revision, task.revision)
    /\ catalog.folders = task.folders /\ catalog.open = task.open

Suspect(p) ==
    catalog.revision # task.revision /\ p \in ChangedPaths(task.events, catalog.revision)

(* What was true when the query began is still true before its scan.       *)
BeforeScan ==
    task # None /\ task.phase # "scan" =>
      /\ CatalogServes =>
           \A p \in Paths \ task.open : RootOf[p] \in task.folders /\ ~Suspect(p)
             => FoundIn(disk, p, task.due[p], catalog.files)
      /\ \A p \in DOMAIN cache.entries \ Subjects :
           ContentsUnchanged(task.events, p, cache.revision, task.revision)
             => task.due[p] <= cache.entries[p]

(* During the scan the inventory is right, the cache has no revision, and  *)
(* its summaries of the files visited so far, and of those that will not   *)
(* be read, are recent enough.                                             *)
Scan ==
    task # None /\ task.phase = "scan" =>
      /\ cache.revision = None
      /\ \A p \in Paths \ task.open : RootOf[p] \in task.folders
           => FoundIn(disk, p, task.due[p], task.files)
      /\ \A p \in task.files : RootOf[p] \in task.folders
      /\ task.todo \subseteq task.files \cup {task.subject}
      /\ task.revision # None => catalog.files = task.files
      /\ \A p \in DOMAIN cache.entries \ Subjects :
           /\ p \in task.files
           /\ p \notin task.todo \/ Reusable(p) => task.due[p] <= cache.entries[p]

(* What the worker has.  No revision it has kept is one the server has not *)
(* reached, or will trust again.                                           *)
CatalogOK ==
    /\ catalog # None =>
         /\ catalog \in Catalogs
         /\ catalog.revision <= epoch /\ Lost(catalog.revision)
         /\ \A p \in catalog.files : RootOf[p] \in catalog.folders
    /\ CatalogFollows

CacheOK ==
    /\ cache \in [revision : Revision, entries : Tables]
    /\ cache.revision # None => cache.revision <= epoch
    /\ Lost(cache.revision)
    /\ CacheFollows /\ CacheInCatalog

TaskOK ==
    /\ task # None =>
         /\ task \in Task
         /\ task.phase = "resolve" => task.subject \in Paths
         /\ task.revision # None => task.revision <= epoch
         /\ Lost(task.revision)
         /\ \A p \in Paths : task.due[p] \in 1..Len(disk[p])
    /\ TaskFollows /\ BeforeScan /\ Scan
    /\ SummariesAreCurrent

IInv == ClientOK /\ ServerOK /\ Watching /\ CatalogOK /\ CacheOK /\ TaskOK
-----------------------------------------------------------------------------
(* What is under way                                                       *)

EventsOf(q, p) == {i \in DOMAIN q : IsEvent(q[i]) /\ q[i].path = p}

DueIn(d, q, p) ==
    IF EventsOf(q, p) = {} THEN Len(d[p])
    ELSE q[CHOOSE i \in EventsOf(q, p) : \A j \in EventsOf(q, p) : i <= j].at - 1

(* Messages that announce contents the disk has had.                       *)
Reported(d, q) ==
    \A i \in DOMAIN q : IsEvent(q[i]) => q[i].at \in 2..Len(d[q[i].path])

(* A set of numbers that is not empty has a least one.                     *)
LEMMA Least ==
    ASSUME NEW T, T \subseteq Nat, T # {}
    PROVE  \E m \in T : \A i \in T : m <= i
<1>1. PICK m \in T : \A i \in T : ~ (<<i, m>> \in OpToRel(<, Nat))
  BY NatLessThanWellFounded, WFMin
<1>2. \A i \in T : ~ (i < m)
  BY <1>1 DEF OpToRel
<1> QED  BY <1>2

(* Due, of any disk and any messages.                                      *)
LEMMA DueOfState == \A p : Due(p) = DueIn(disk, inbox, p) /\ UnderWay(p) = EventsOf(inbox, p)
BY DEF Due, DueIn, UnderWay, EventsOf, Content

(* The first event of a file says how old its content may be.              *)
LEMMA FirstEvent ==
    ASSUME NEW d, NEW q, DOMAIN q \subseteq Nat, NEW p, NEW i \in EventsOf(q, p),
           \A j \in EventsOf(q, p) : i <= j
    PROVE  DueIn(d, q, p) = q[i].at - 1
<1> DEFINE T == EventsOf(q, p)
           m == CHOOSE k \in T : \A j \in T : k <= j
<1>1. T \subseteq Nat
  BY DEF EventsOf
<1>2. m \in T /\ \A j \in T : m <= j
  <2>1. \E k \in T : \A j \in T : k <= j
    OBVIOUS
  <2> HIDE DEF T
  <2> QED  BY <2>1
<1>3. m = i
  <2> HIDE DEF m
  <2> QED  BY <1>1, <1>2
<1>4. DueIn(d, q, p) = q[m].at - 1
  BY DEF DueIn
<1> QED  BY <1>3, <1>4

LEMMA FirstExists ==
    ASSUME NEW q, DOMAIN q \subseteq Nat, NEW p, EventsOf(q, p) # {}
    PROVE  \E i \in EventsOf(q, p) : \A j \in EventsOf(q, p) : i <= j
<1>1. EventsOf(q, p) \subseteq Nat
  BY DEF EventsOf
<1> QED  BY <1>1, Least

(* What is due is a content the file has had.                              *)
LEMMA DueInBounds ==
    ASSUME NEW d, NEW q, DOMAIN q \subseteq Nat, NEW p, Reported(d, q),
           Len(d[p]) \in Nat, Len(d[p]) >= 1
    PROVE  DueIn(d, q, p) \in 1..Len(d[p])
<1>1. CASE EventsOf(q, p) = {}
  BY <1>1 DEF DueIn
<1>2. CASE EventsOf(q, p) # {}
  <2>1. PICK i \in EventsOf(q, p) : \A j \in EventsOf(q, p) : i <= j
    BY <1>2, FirstExists
  <2>2. q[i].at \in 2..Len(d[p])
    BY DEF EventsOf, Reported
  <2>3. DueIn(d, q, p) = q[i].at - 1
    BY <2>1, FirstEvent
  <2> QED  BY <2>2, <2>3
<1> QED  BY <1>1, <1>2

(* Reading messages that are not about a file changes nothing for it, and  *)
(* nor does anything that leaves its events alone.                         *)
Shifted(q, r, n, p) ==
    /\ DOMAIN q \subseteq Nat /\ DOMAIN r \subseteq Nat
    /\ \A i \in EventsOf(q, p) : i > n /\ i - n \in EventsOf(r, p)
    /\ \A i \in EventsOf(r, p) : i + n \in EventsOf(q, p) /\ r[i].at = q[i + n].at

LEMMA DueStays ==
    ASSUME NEW d, NEW q, NEW r, NEW n \in Nat, NEW p, Shifted(q, r, n, p)
    PROVE  DueIn(d, r, p) = DueIn(d, q, p)
<1>0. /\ DOMAIN q \subseteq Nat /\ DOMAIN r \subseteq Nat
      /\ \A i \in EventsOf(q, p) : i > n /\ i - n \in EventsOf(r, p)
      /\ \A i \in EventsOf(r, p) : i + n \in EventsOf(q, p) /\ r[i].at = q[i + n].at
  BY DEF Shifted
<1>1. CASE EventsOf(q, p) = {}
  <2>1. EventsOf(r, p) = {}
    BY <1>0, <1>1
  <2> QED  BY <1>1, <2>1 DEF DueIn
<1>2. CASE EventsOf(q, p) # {}
  <2>0. EventsOf(q, p) \subseteq Nat /\ EventsOf(r, p) \subseteq Nat
    BY <1>0 DEF EventsOf
  <2>1. PICK i \in EventsOf(q, p) : \A j \in EventsOf(q, p) : i <= j
    BY <1>0, <1>2, FirstExists
  <2>2. i - n \in EventsOf(r, p) /\ r[i - n].at = q[i].at
    <3>1. i - n \in EventsOf(r, p) /\ (i - n) + n = i
      BY <1>0, <2>0
    <3> QED  BY <1>0, <3>1
  <2>3. ASSUME NEW j \in EventsOf(r, p)
        PROVE  i - n <= j
    BY <1>0, <2>0, <2>1, <2>3
  <2>4. DueIn(d, r, p) = r[i - n].at - 1
    BY <1>0, <2>2, <2>3, FirstEvent
  <2>5. DueIn(d, q, p) = q[i].at - 1
    BY <1>0, <2>1, FirstEvent
  <2> QED  BY <2>2, <2>4, <2>5
<1> QED  BY <1>1, <1>2

(* A change that is reported at once leaves what is due as it was.         *)
LEMMA DueReported ==
    ASSUME NEW d, NEW e, NEW q, NEW r, NEW p, NEW n \in Nat,
           DOMAIN q = 1..n, DOMAIN r = 1..(n + 1),
           \A i \in 1..n : r[i] = q[i],
           IsEvent(r[n + 1]), r[n + 1].path = p, r[n + 1].at = Len(d[p]) + 1,
           Len(d[p]) \in Nat
    PROVE  DueIn(e, r, p) = DueIn(d, q, p)
<1>1. EventsOf(r, p) = EventsOf(q, p) \cup {n + 1}
  BY DEF EventsOf
<1>2. CASE EventsOf(q, p) = {}
  <2>1. DOMAIN r \subseteq Nat /\ n + 1 \in EventsOf(r, p)
    BY <1>1
  <2>2. \A j \in EventsOf(r, p) : n + 1 <= j
    BY <1>1, <1>2
  <2>3. DueIn(e, r, p) = r[n + 1].at - 1
    BY <2>1, <2>2, FirstEvent
  <2> QED  BY <1>2, <2>3 DEF DueIn
<1>3. CASE EventsOf(q, p) # {}
  <2>1. PICK i \in EventsOf(q, p) : \A j \in EventsOf(q, p) : i <= j
    BY <1>3, FirstExists
  <2>2. i \in 1..n
    BY DEF EventsOf
  <2>3. DueIn(e, r, p) = r[i].at - 1
    BY <1>1, <2>1, <2>2, FirstEvent
  <2>4. DueIn(d, q, p) = q[i].at - 1
    BY <2>1, FirstEvent
  <2> QED  BY <2>2, <2>3, <2>4
<1> QED  BY <1>2, <1>3

-----------------------------------------------------------------------------
(* Tables and the journal                                                  *)

(* Maps from some of the files to numbers.                                 *)
LEMMA TableOf ==
    ASSUME NEW f
    PROVE  f \in Tables <=> \E S \in SUBSET Paths : f \in [S -> Nat]
BY DEF Tables

LEMMA TableHas ==
    ASSUME NEW f \in Tables
    PROVE  /\ DOMAIN f \subseteq Paths
           /\ \A p \in DOMAIN f : f[p] \in Nat
BY TableOf

(* Inserting in a table.                                                   *)
LEMMA Inserted == ASSUME NEW f, NEW S, NEW c, NEW p \in S  PROVE Insert(f, S, c)[p] = c
BY DEF Insert

LEMMA Untouched ==
    ASSUME NEW f, NEW S, NEW c, NEW p \in DOMAIN f, p \notin S
    PROVE  Insert(f, S, c)[p] = f[p]
BY DEF Insert

LEMMA TableInsert ==
    ASSUME NEW f \in Tables, NEW S, S \subseteq Paths, NEW c \in Nat
    PROVE  /\ Insert(f, S, c) \in Tables
           /\ DOMAIN Insert(f, S, c) = S \cup DOMAIN f
<1>1. Insert(f, S, c) = [p \in S \cup DOMAIN f |-> IF p \in S THEN c ELSE f[p]]
  BY DEF Insert
<1>2. S \cup DOMAIN f \subseteq Paths /\ \A p \in DOMAIN f : f[p] \in Nat
  BY TableHas
<1>3. Insert(f, S, c) \in [S \cup DOMAIN f -> Nat]
  BY <1>1, <1>2
<1> QED  BY <1>1, <1>2, <1>3, TableOf

LEMMA TablePart ==
    ASSUME NEW f \in Tables, NEW S, S \subseteq DOMAIN f
    PROVE  /\ Restrict(f, S) \in Tables
           /\ DOMAIN Restrict(f, S) = S
           /\ \A p \in S : Restrict(f, S)[p] = f[p]
<1>1. Restrict(f, S) = [p \in S |-> f[p]]
  BY DEF Restrict
<1>2. Restrict(f, S) \in [S -> Nat] /\ S \subseteq Paths
  BY <1>1, TableHas
<1> QED  BY <1>1, <1>2, TableOf

LEMMA EmptyTable ==
    /\ NoEntries \in Tables /\ NoPaths \in Tables
    /\ DOMAIN NoEntries = {} /\ DOMAIN NoPaths = {}
<1>1. NoEntries \in [{} -> Nat] /\ NoPaths \in [{} -> Nat]
  BY DEF NoEntries, NoPaths
<1> QED  BY <1>1, TableOf DEF NoEntries, NoPaths

(* FileEvents::record: a revision the journal still follows has seen all   *)
(* the changes, and what was known to have changed still is.               *)
Remembers(new, now, j, changes) ==
    /\ JournalAt(new, now)
    /\ new.floor >= j.floor
    /\ changes = None => new.floor = now
    /\ new.floor < now =>
         \A r \in 0..(now - 1) : \A p : p \notin ChangedPaths(new, r) =>
           /\ p \notin ChangedPaths(j, r)
           /\ \A i \in DOMAIN changes : changes[i].path # p

LEMMA Recorded ==
    ASSUME NEW before \in Nat, NEW now, now = before + 1, NEW j, JournalAt(j, before),
           NEW changes, changes = None \/ \A i \in DOMAIN changes : changes[i].path \in Paths
    PROVE  Remembers(Record(j, now, changes), now, j, changes)
<1> DEFINE new == Record(j, now, changes)
           changed == {changes[i].path : i \in DOMAIN changes}
           paths == Insert(j.paths, changed, now)
           remembered == [j EXCEPT !.latest = now, !.paths = paths]
<1>0. /\ j.floor \in Nat /\ j.floor <= before /\ j.latest = before /\ j.paths \in Tables
      /\ j = [floor |-> j.floor, latest |-> j.latest, paths |-> j.paths]
      /\ \A p \in DOMAIN j.paths : j.paths[p] \in 0..before
  BY TableHas DEF JournalAt, Journals
<1>1. CASE new = Reset(now)
  <2>1. /\ new.floor = now /\ new.latest = now /\ new.paths = NoPaths
        /\ new = [floor |-> now, latest |-> now, paths |-> NoPaths]
    BY <1>1 DEF Reset
  <2>2. new \in Journals
    BY <2>1, EmptyTable DEF Journals
  <2>3. ~ new.floor < now /\ new.floor >= j.floor
    BY <1>0, <2>1
  <2>4. JournalAt(new, now)
    BY <2>1, <2>2, EmptyTable DEF JournalAt
  <2> QED  BY <2>1, <2>3, <2>4 DEF Remembers
<1>2. CASE changes # None /\ new = remembered
  <2>1. /\ new = [floor |-> j.floor, latest |-> now, paths |-> paths]
    BY <1>0, <1>2
  <2>2. changed \subseteq Paths
    BY <1>2
  <2>3. /\ paths \in Tables
        /\ DOMAIN paths = changed \cup DOMAIN j.paths
        /\ \A p \in changed : paths[p] = now
        /\ \A p \in DOMAIN j.paths : p \notin changed => paths[p] = j.paths[p]
    <3>1. now \in Nat /\ j.paths \in Tables
      BY <1>0
    <3> HIDE DEF changed
    <3>2. paths \in Tables /\ DOMAIN paths = changed \cup DOMAIN j.paths
      BY <2>2, <3>1, TableInsert
    <3>3. \A p \in changed : paths[p] = now
      BY Inserted
    <3>4. \A p \in DOMAIN j.paths : p \notin changed => paths[p] = j.paths[p]
      BY Untouched
    <3> QED  BY <3>2, <3>3, <3>4
  <2> HIDE DEF paths, changed, new
  <2>5. new.floor = j.floor /\ new.latest = now /\ new.paths = paths /\ new \in Journals
    BY <1>0, <2>1, <2>3 DEF Journals
  <2>4. \A p \in DOMAIN paths : paths[p] \in 0..now
    BY <1>0, <2>3
  <2>6. \A r \in 0..before : ChangedPaths(new, r) = ChangedPaths(j, r) \cup changed
    <3> TAKE r \in 0..before
    <3>1. \A p : p \in ChangedPaths(new, r) <=> p \in DOMAIN paths /\ paths[p] > r
      BY <2>5 DEF ChangedPaths
    <3>2. \A p : p \in ChangedPaths(j, r) <=> p \in DOMAIN j.paths /\ j.paths[p] > r
      BY DEF ChangedPaths
    <3> QED  BY <2>3, <3>1, <3>2
  <2>7. JournalAt(new, now)
    BY <1>0, <2>4, <2>5 DEF JournalAt
  <2>8. \A i \in DOMAIN changes : changes[i].path \in changed
    BY DEF changed
  <2>9. 0..(now - 1) = 0..before
    BY <1>0
  <2> QED  BY <1>0, <1>2, <2>5, <2>6, <2>7, <2>8, <2>9 DEF Remembers, new
<1>3. new = Reset(now) \/ (changes # None /\ new = remembered)
  BY DEF Record
<1> QED  BY <1>1, <1>2, <1>3

-----------------------------------------------------------------------------
(* The disk, the client and the server                                     *)

(* Events, and the answers that are none.                                  *)
LEMMA Messages ==
    /\ Accepted \in Message /\ Obsolete \in Message /\ Accepted # Obsolete
    /\ ~ IsEvent(Accepted) /\ ~ IsEvent(Obsolete)
    /\ \A m \in Message : IsEvent(m) => m.path \in Paths /\ m.at \in Nat
    /\ \A p \in Paths, at \in Nat, kind \in {"created", "changed", "deleted"} :
         /\ Event(p, kind, at) \in Message /\ IsEvent(Event(p, kind, at))
         /\ Event(p, kind, at).path = p /\ Event(p, kind, at).at = at
BY DEF Accepted, Obsolete, Message, IsEvent, Event

(* Due, after a step.                                                      *)
LEMMA DueNext == \A p : Due(p)' = DueIn(disk', inbox', p)
BY DEF Due, DueIn, UnderWay, EventsOf, Content

(* What the steps of the others mean for the worker: the disk only grows;  *)
(* what is lost stays lost; and if the journal still follows a revision,   *)
(* it did so before, and a file it does not name has no more to answer for *)
(* than before.                                                            *)
Evolution ==
    /\ epoch <= epoch'
    /\ \A p \in Paths : /\ Len(disk[p]) <= Len(disk'[p])
                        /\ \A i \in 1..Len(disk[p]) : disk'[p][i] = disk[p][i]
    /\ \A r \in 0..epoch : Lost(r) =>
         /\ Lost(r)'
         /\ Follows(r)' =>
              /\ Follows(r) /\ folders' = folders /\ open' = open
              /\ \A p \in Paths :
                   RootOf[p] \in folders /\ p \notin ChangedPaths(journal', r) =>
                     p \notin ChangedPaths(journal, r) /\ Due(p)' = Due(p)

(* A file changes, and its event is under way if it is watched.            *)
LEMMA FileChanged ==
    ASSUME ClientOK, ServerOK, Watching,
           NEW p \in Paths, NEW exists \in BOOLEAN, ChangeFile(p, exists)
    PROVE  ClientOK' /\ ServerOK' /\ Watching' /\ Evolution
<1> DEFINE n == Len(inbox)
           c == Len(disk[p])
           e == inbox'[n + 1]
<1>0. /\ inbox \in Seq(Message) /\ n \in Nat /\ DOMAIN inbox = 1..n
      /\ c \in Nat /\ c >= 1 /\ disk[p] \in Seq(BOOLEAN)
  BY DEF ClientOK
<1>1. /\ disk' = [disk EXCEPT ![p] = Append(disk[p], exists)]
      /\ UNCHANGED <<watched, serverVars>>
  BY DEF ChangeFile
<1>2. /\ disk' \in [Paths -> Seq(BOOLEAN)]
      /\ \A q \in Paths : q # p => disk'[q] = disk[q]
      /\ disk'[p] = Append(disk[p], exists)
      /\ Len(disk'[p]) = c + 1
      /\ \A i \in 1..c : disk'[p][i] = disk[p][i]
  BY <1>0, <1>1 DEF ClientOK
<1>3. \A q \in Paths : /\ Len(disk[q]) \in Nat /\ Len(disk[q]) <= Len(disk'[q]) /\ Len(disk'[q]) \in Nat
                       /\ \A i \in 1..Len(disk[q]) : disk'[q][i] = disk[q][i]
  BY <1>0, <1>2 DEF ClientOK
<1>4. ServerOK'
  BY <1>1 DEF ServerOK, serverVars
<1>5. /\ \A r : Follows(r)' <=> Follows(r)
      /\ \A r : Lost(r)' <=> Lost(r)
  BY <1>1 DEF Follows, Lost, serverVars
<1>6. CASE RootOf[p] \in watched
  <2>1. PICK kind \in {"created", "changed", "deleted"} :
          inbox' = Append(inbox, Event(p, kind, c + 1))
    BY <1>6 DEF ChangeFile, Content
  <2>2. /\ e = Event(p, kind, c + 1) /\ Len(inbox') = n + 1 /\ DOMAIN inbox' = 1..(n + 1)
        /\ inbox' \in Seq(Message) /\ \A i \in 1..n : inbox'[i] = inbox[i]
    <3>1. Event(p, kind, c + 1) \in Message
      BY <1>0, Messages
    <3> QED  BY <1>0, <2>1, <3>1
  <2>3. IsEvent(e) /\ e.path = p /\ e.at = c + 1
    BY <1>0, <2>2, Messages
  <2>4. ClientOK'
    <3> SUFFICES ASSUME NEW i \in 1..(n + 1), IsEvent(inbox'[i])
                 PROVE  inbox'[i].at \in 2..Len(disk'[inbox'[i].path])
      BY <1>0, <1>1, <1>2, <1>3, <2>2 DEF ClientOK
    <3>1. CASE i = n + 1
      BY <1>0, <1>2, <2>3, <3>1
    <3>2. CASE i \in 1..n
      <4>1. inbox'[i] = inbox[i] /\ inbox[i] \in Message
        BY <1>0, <2>2, <3>2
      <4>2. inbox[i].at \in 2..Len(disk[inbox[i].path]) /\ inbox[i].path \in Paths
        BY <1>0, <3>2, <4>1, Messages DEF ClientOK
      <4> QED  BY <1>3, <4>1, <4>2
    <3> QED  BY <1>0, <3>1, <3>2
  <2>5. Watching'
    <3>1. \A i \in 1..(n + 1) : ~ IsEvent(inbox'[i]) => i \in 1..n /\ inbox'[i] = inbox[i]
      BY <1>0, <2>2, <2>3
    <3>2. \A i \in 1..(n + 1) : inbox'[i] = Accepted => i \in 1..n /\ inbox[i] = Accepted
      BY <3>1, Messages
    <3>3. watched' = watched /\ folders' = folders /\ revision' = revision
      BY <1>1 DEF serverVars
    <3> QED  BY <1>0, <2>2, <3>2, <3>3 DEF Watching
  <2>6. \A q \in Paths : Due(q)' = Due(q)
    <3> TAKE q \in Paths
    <3>1. CASE q = p
      <4>1. DueIn(disk', inbox', p) = DueIn(disk, inbox, p)
        <5>1. /\ DOMAIN inbox = 1..n /\ DOMAIN inbox' = 1..(n + 1) /\ n \in Nat
              /\ \A i \in 1..n : inbox'[i] = inbox[i]
              /\ IsEvent(inbox'[n + 1]) /\ inbox'[n + 1].path = p
              /\ inbox'[n + 1].at = Len(disk[p]) + 1 /\ Len(disk[p]) \in Nat
          BY <1>0, <2>2, <2>3
        <5> HIDE DEF n
        <5> QED  BY <5>1, DueReported
      <4> QED  BY <3>1, <4>1, DueOfState, DueNext
    <3>2. CASE q # p
      <4>1. EventsOf(inbox', q) = EventsOf(inbox, q)
        BY <1>0, <2>2, <2>3, <3>2 DEF EventsOf
      <4>2. DueIn(disk', inbox', q) = DueIn(disk', inbox, q)
        <5>1. \A i \in EventsOf(inbox, q) : i > 0 /\ i - 0 = i /\ i + 0 = i /\ inbox'[i] = inbox[i]
          BY <1>0, <2>2 DEF EventsOf
        <5>2. Shifted(inbox, inbox', 0, q)
          BY <1>0, <2>2, <4>1, <5>1 DEF Shifted
        <5> QED  BY <5>2, DueStays
      <4>3. DueIn(disk', inbox, q) = DueIn(disk, inbox, q)
        BY <1>2, <3>2 DEF DueIn
      <4> QED  BY <4>2, <4>3, DueOfState, DueNext
    <3> QED  BY <3>1, <3>2
  <2>7. Evolution
    BY <1>1, <1>3, <1>5, <2>6 DEF Evolution, ServerOK, serverVars
  <2> QED  BY <1>4, <2>4, <2>5, <2>7
<1>7. CASE RootOf[p] \notin watched
  <2>1. inbox' = inbox
    BY <1>7 DEF ChangeFile
  <2>2. ClientOK'
    <3> SUFFICES ASSUME NEW i \in 1..n, IsEvent(inbox[i])
                 PROVE  inbox[i].at \in 2..Len(disk'[inbox[i].path])
      BY <1>0, <1>1, <1>2, <1>3, <2>1 DEF ClientOK, IsEvent
    <3>1. inbox[i] \in Message
      BY <1>0
    <3>2. inbox[i].at \in 2..Len(disk[inbox[i].path]) /\ inbox[i].path \in Paths
      BY <1>0, <3>1, Messages DEF ClientOK
    <3> QED  BY <1>3, <3>2
  <2>3. Watching'
    BY <1>1, <2>1 DEF Watching, serverVars, IsEvent, Accepted
  <2>4. \A q \in Paths : q # p => Due(q)' = Due(q)
    <3> TAKE q \in Paths
    <3>1. DueIn(disk', inbox', q) = DueIn(disk, inbox, q) \/ q = p
      BY <1>2, <2>1 DEF DueIn
    <3> QED  BY <3>1, DueOfState, DueNext
  <2>5. \A r : Follows(r) => RootOf[p] \notin folders
    BY <1>7 DEF Watching, Follows
  <2>6. \A r : Follows(r)' => \A q \in Paths : RootOf[q] \in folders => Due(q)' = Due(q)
    BY <1>5, <2>4, <2>5
  <2>7. Evolution
    BY <1>1, <1>3, <1>5, <2>6 DEF Evolution, ServerOK, serverVars
  <2> QED  BY <1>4, <2>2, <2>3, <2>7
<1> QED  BY <1>6, <1>7

(* The client watches other roots; but those of the workspace remain among *)
(* them while events are trusted, or are going to be.                      *)
LEMMA WatchChanged ==
    ASSUME ClientOK, ServerOK, Watching, NEW roots \in SUBSET Roots, Watch(roots)
    PROVE  ClientOK' /\ ServerOK' /\ Watching' /\ Evolution
<1> DEFINE n == Len(inbox)
           promised == \E i \in DOMAIN inbox : inbox[i] = Accepted
<1>0. /\ inbox \in Seq(Message) /\ n \in Nat /\ DOMAIN inbox = 1..n
      /\ UNCHANGED <<disk, serverVars>> /\ watched' = roots
  BY DEF ClientOK, Watch, Watches!Watch
<1>1. ServerOK'
  BY <1>0 DEF ServerOK, serverVars
<1>2. inbox' = inbox \/ (~promised /\ inbox' = Append(inbox, Accepted))
  BY DEF Watch
<1>3. /\ inbox' \in Seq(Message) /\ DOMAIN inbox' \subseteq 1..(n + 1) /\ DOMAIN inbox \subseteq DOMAIN inbox'
      /\ \A i \in DOMAIN inbox' :
           \/ i \in 1..n /\ inbox'[i] = inbox[i]
           \/ i = n + 1 /\ inbox'[i] = Accepted /\ ~promised
  BY <1>0, <1>2, Messages
<1>4. ClientOK'
  BY <1>0, <1>3, Messages DEF ClientOK
<1>5. /\ promised' \/ revision # None => folders \subseteq watched'
      /\ promised' => revision = None
  BY <1>0 DEF Watch, Watches!Watch, Watching
<1>6. Watching'
  <2>1. \A i, j \in DOMAIN inbox' : inbox'[i] = Accepted /\ inbox'[j] = Accepted => i = j
    BY <1>0, <1>3 DEF Watching
  <2> QED  BY <1>0, <1>5, <2>1 DEF Watching, serverVars
<1>7. \A r : (Follows(r)' <=> Follows(r)) /\ (Lost(r)' <=> Lost(r))
  BY <1>0 DEF Follows, Lost, serverVars
<1>8. \A r : Follows(r) => \A p \in Paths : Due(p)' = Due(p)
  <2>1. CASE revision = None
    BY <2>1 DEF Follows
  <2>2. CASE revision # None
    <3>1. inbox' = inbox
      BY <1>2, <1>5, <2>2 DEF promised
    <3> QED  BY <1>0, <3>1, DueOfState, DueNext
  <2> QED  BY <2>1, <2>2
<1>9. Evolution
  BY <1>0, <1>7, <1>8 DEF Evolution, ServerOK, ClientOK, serverVars
<1> QED  BY <1>1, <1>4, <1>6, <1>9

(* A revision is counted, and what the journal can tell is recorded.       *)
LEMMA Advanced ==
    ASSUME ServerOK, NEW changes,
           changes = None \/ \A i \in DOMAIN changes : changes[i].path \in Paths,
           epoch' = epoch + 1, journal' = Record(journal, epoch + 1, changes),
           revision' = None \/ (revision # None /\ revision' = epoch + 1),
           changes = None \/ (revision = None <=> revision' = None),
           folders' \subseteq Roots, open' \subseteq Paths
    PROVE  /\ ServerOK'
           /\ epoch <= epoch'
           /\ \A r \in 0..epoch : Lost(r) => Lost(r)'
           /\ \A r \in 0..epoch : Follows(r)' =>
                /\ Follows(r) /\ changes # None
                /\ \A p : p \notin ChangedPaths(journal', r) =>
                     /\ p \notin ChangedPaths(journal, r)
                     /\ \A i \in DOMAIN changes : changes[i].path # p
<1>0. epoch \in Nat /\ JournalAt(journal, epoch) /\ journal.floor \in Nat
  BY DEF ServerOK, JournalAt, Journals
<1>1. Remembers(journal', epoch', journal, changes)
  BY <1>0, Recorded
<1>2. journal'.floor \in Nat
  BY <1>1 DEF Remembers, JournalAt, Journals
<1>3. ServerOK'
  BY <1>0, <1>1 DEF ServerOK, Remembers
<1>4. ASSUME NEW r \in 0..epoch, Lost(r)  PROVE  Lost(r)'
  BY <1>0, <1>1, <1>2, <1>4 DEF Lost, Remembers
<1>5. ASSUME NEW r \in 0..epoch, Follows(r)'
      PROVE  /\ Follows(r) /\ changes # None
             /\ \A p : p \notin ChangedPaths(journal', r) =>
                  /\ p \notin ChangedPaths(journal, r)
                  /\ \A i \in DOMAIN changes : changes[i].path # p
  <2>1. journal'.floor <= r /\ revision' # None
    BY <1>5 DEF Follows
  <2>2. journal'.floor <= epoch /\ r \in Nat /\ journal.floor <= r
    BY <1>0, <1>1, <1>2, <2>1 DEF Remembers
  <2>3. Follows(r) /\ changes # None
    BY <1>0, <1>1, <2>1, <2>2, NoneAssumption DEF Follows, Remembers
  <2>4. journal'.floor < epoch' /\ r \in 0..(epoch' - 1)
    BY <1>0, <1>2, <1>5, <2>2
  <2>5. ASSUME NEW p, p \notin ChangedPaths(journal', r)
        PROVE  /\ p \notin ChangedPaths(journal, r)
               /\ \A i \in DOMAIN changes : changes[i].path # p
    BY <1>1, <2>4, <2>5 DEF Remembers
  <2> QED  BY <2>3, <2>5
<1> QED  BY <1>0, <1>3, <1>4, <1>5

(* A disk that is left alone.                                              *)
LEMMA DiskSame ==
    ASSUME ClientOK, UNCHANGED disk
    PROVE  \A p \in Paths : /\ Len(disk[p]) <= Len(disk'[p])
                            /\ \A i \in 1..Len(disk[p]) : disk'[p][i] = disk[p][i]
BY DEF ClientOK

(* The journal starts anew.                                                *)
LEMMA RevisionAdvanced ==
    ASSUME ClientOK, ServerOK, Watching,
           AdvanceFileRevision(None), UNCHANGED <<clientVars, folders>>, open' \subseteq Paths
    PROVE  ClientOK' /\ ServerOK' /\ Watching' /\ Evolution
<1>1. /\ epoch' = epoch + 1 /\ journal' = Record(journal, epoch + 1, None)
      /\ revision' = IF revision = None THEN None ELSE epoch + 1
      /\ UNCHANGED <<disk, watched, inbox>> /\ folders' = folders
  BY DEF AdvanceFileRevision, clientVars
<1>2. revision = None <=> revision' = None
  BY <1>1, NoneAssumption DEF ServerOK
<1>3. folders' \subseteq Roots
  BY <1>1 DEF ServerOK
<1>4. /\ ServerOK' /\ epoch <= epoch'
      /\ \A r \in 0..epoch : Lost(r) => Lost(r)'
      /\ \A r \in 0..epoch : ~ Follows(r)'
  BY <1>1, <1>2, <1>3, Advanced
<1>5. ClientOK'
  BY <1>1 DEF ClientOK, IsEvent
<1>6. Watching'
  BY <1>1, <1>2 DEF Watching, IsEvent, Accepted
<1>7. Evolution
  BY <1>1, <1>4, DiskSame DEF Evolution
<1> QED  BY <1>4, <1>5, <1>6, <1>7

(* Other folders: events are not trusted, and the journal starts anew.     *)
LEMMA FoldersChanged ==
    ASSUME ClientOK, ServerOK, Watching,
           NEW roots \in SUBSET Roots, DidChangeWorkspaceFolders(roots)
    PROVE  ClientOK' /\ ServerOK' /\ Watching' /\ Evolution
<1> DEFINE n == Len(inbox)
<1>0. inbox \in Seq(Message) /\ n \in Nat /\ DOMAIN inbox = 1..n
  BY DEF ClientOK
<1>1. /\ epoch' = epoch + 1 /\ journal' = Record(journal, epoch + 1, None)
      /\ revision' = None /\ folders' = roots /\ UNCHANGED <<disk, watched, open>>
      /\ inbox' = [i \in 1..n |-> IF inbox[i] = Accepted THEN Obsolete ELSE inbox[i]]
  BY <1>0 DEF DidChangeWorkspaceFolders
<1>2. /\ inbox' \in Seq(Message) /\ DOMAIN inbox' = 1..n
      /\ \A i \in 1..n : /\ inbox'[i] # Accepted
                         /\ IsEvent(inbox'[i]) <=> IsEvent(inbox[i])
                         /\ IsEvent(inbox[i]) => inbox'[i] = inbox[i]
  <2>1. \A i \in 1..n : inbox[i] \in Message
    BY <1>0
  <2>2. inbox' \in [1..n -> Message]
    BY <1>1, <2>1, Messages
  <2>3. inbox' \in Seq(Message)
    BY <1>0, <2>2
  <2>4. \A i \in 1..n : inbox'[i] = IF inbox[i] = Accepted THEN Obsolete ELSE inbox[i]
    BY <1>1
  <2> QED  BY <2>2, <2>3, <2>4, Messages
<1>3. open' \subseteq Paths /\ folders' \subseteq Roots
  BY <1>1 DEF ServerOK
<1>4. /\ ServerOK' /\ epoch <= epoch'
      /\ \A r \in 0..epoch : Lost(r) => Lost(r)'
      /\ \A r \in 0..epoch : ~ Follows(r)'
  BY <1>1, <1>3, Advanced
<1>5. ClientOK'
  BY <1>0, <1>1, <1>2 DEF ClientOK
<1>6. Watching'
  BY <1>0, <1>1, <1>2 DEF Watching
<1>7. Evolution
  BY <1>1, <1>4, DiskSame DEF Evolution
<1> QED  BY <1>4, <1>5, <1>6, <1>7

(* The first n messages are read.                                          *)
LEMMA MessagesRead ==
    ASSUME ClientOK, NEW n \in 0..Len(inbox), UNCHANGED <<disk, watched>>,
           inbox' \in Seq(Message), Len(inbox') = Len(inbox) - n,
           \A i \in 1..(Len(inbox) - n) : inbox'[i] = inbox[i + n]
    PROVE  /\ ClientOK'
           /\ \A p : (\A i \in 1..n : ~ (IsEvent(inbox[i]) /\ inbox[i].path = p))
                       => Due(p)' = Due(p)
<1> DEFINE m == Len(inbox) - n
<1>0. /\ inbox \in Seq(Message) /\ Len(inbox) \in Nat /\ n \in Nat /\ m \in Nat
      /\ DOMAIN inbox = 1..Len(inbox) /\ DOMAIN inbox' = 1..m
      /\ \A i \in 1..m : i + n \in 1..Len(inbox) /\ inbox'[i] = inbox[i + n]
      /\ \A i \in 1..Len(inbox) : i > n => i - n \in 1..m /\ (i - n) + n = i
  BY DEF ClientOK
<1>1. ClientOK'
  <2>1. ASSUME NEW i \in 1..m, IsEvent(inbox'[i])
        PROVE  inbox'[i].at \in 2..Len(disk'[inbox'[i].path])
    <3>1. i + n \in DOMAIN inbox /\ inbox'[i] = inbox[i + n]
      BY <1>0
    <3> QED  BY <2>1, <3>1 DEF ClientOK
  <2>2. UNCHANGED <<disk, watched>>
    OBVIOUS
  <2> QED  BY <1>0, <2>1, <2>2 DEF ClientOK
<1>2. ASSUME NEW p, \A i \in 1..n : ~ (IsEvent(inbox[i]) /\ inbox[i].path = p)
      PROVE  Due(p)' = Due(p)
  <2>1. \A i \in EventsOf(inbox, p) : i > n /\ i - n \in EventsOf(inbox', p)
    <3> TAKE i \in EventsOf(inbox, p)
    <3>1. i \in 1..Len(inbox) /\ IsEvent(inbox[i]) /\ inbox[i].path = p
      BY <1>0 DEF EventsOf
    <3>2. i > n
      BY <1>0, <1>2, <3>1
    <3>3. i - n \in 1..m /\ inbox'[i - n] = inbox[i]
      BY <1>0, <3>1, <3>2
    <3> QED  BY <1>0, <3>1, <3>2, <3>3 DEF EventsOf
  <2>2. \A i \in EventsOf(inbox', p) : i + n \in EventsOf(inbox, p) /\ inbox'[i].at = inbox[i + n].at
    BY <1>0 DEF EventsOf
  <2>3. Shifted(inbox, inbox', n, p)
    BY <1>0, <2>1, <2>2 DEF Shifted
  <2>4. DueIn(disk, inbox', p) = DueIn(disk, inbox, p)
    BY <1>0, <2>3, DueStays
  <2> QED  BY <2>4, DueOfState, DueNext
<1> QED  BY <1>1, <1>2

(* What the client reports is recorded.                                    *)
LEMMA EventsRecorded ==
    ASSUME ClientOK, ServerOK, Watching,
           NEW n \in DOMAIN inbox, DidChangeWatchedFiles(n)
    PROVE  ClientOK' /\ ServerOK' /\ Watching' /\ Evolution
<1> DEFINE m == Len(inbox) - n
           changes == SubSeq(inbox, 1, n)
<1>0. /\ inbox \in Seq(Message) /\ Len(inbox) \in Nat /\ n \in 1..Len(inbox) /\ m \in Nat
      /\ DOMAIN inbox = 1..Len(inbox) /\ \A i \in 1..Len(inbox) : inbox[i] \in Message
  BY DEF ClientOK
<1>1. /\ \A i \in 1..n : IsEvent(inbox[i])
      /\ epoch' = epoch + 1 /\ journal' = Record(journal, epoch + 1, changes)
      /\ revision' = IF revision = None THEN None ELSE epoch + 1
      /\ inbox' = SubSeq(inbox, n + 1, Len(inbox))
      /\ UNCHANGED <<disk, watched, folders, open>>
  BY DEF DidChangeWatchedFiles, AdvanceFileRevision
<1>2. /\ inbox' \in Seq(Message) /\ Len(inbox') = m
      /\ \A i \in 1..m : inbox'[i] = inbox[i + n]
  <2>1. /\ SubSeq(inbox, n + 1, Len(inbox)) \in Seq(Message)
        /\ Len(SubSeq(inbox, n + 1, Len(inbox))) =
             IF n + 1 <= Len(inbox) THEN Len(inbox) - (n + 1) + 1 ELSE 0
        /\ \A i \in 1..(Len(inbox) - (n + 1) + 1) :
             SubSeq(inbox, n + 1, Len(inbox))[i] = inbox[(n + 1) + i - 1]
    <3>1. \A i \in (n + 1)..Len(inbox) : inbox[i] \in Message
      BY <1>0
    <3>2. n + 1 \in Int /\ Len(inbox) \in Int
      BY <1>0
    <3> QED  BY <3>1, <3>2, SubSeqProperties
  <2> QED  BY <1>0, <1>1, <2>1
<1>3. /\ DOMAIN changes = 1..n
      /\ \A i \in 1..n : changes[i] = inbox[i]
  BY <1>0
<1> HIDE DEF m, changes
<1>4. \A i \in DOMAIN changes : changes[i].path \in Paths
  BY <1>0, <1>1, <1>3, Messages
<1>5. revision = None <=> revision' = None
  BY <1>1, NoneAssumption DEF ServerOK
<1>6. folders' \subseteq Roots /\ open' \subseteq Paths
  BY <1>1 DEF ServerOK
<1>7. /\ ServerOK'
      /\ epoch <= epoch'
      /\ \A r \in 0..epoch : Lost(r) => Lost(r)'
      /\ \A r \in 0..epoch : Follows(r)' =>
           /\ Follows(r) /\ changes # None
           /\ \A p : p \notin ChangedPaths(journal', r) =>
                /\ p \notin ChangedPaths(journal, r)
                /\ \A i \in DOMAIN changes : changes[i].path # p
  BY <1>1, <1>4, <1>5, <1>6, Advanced
<1>8. /\ ClientOK'
      /\ \A p : (\A i \in 1..n : ~ (IsEvent(inbox[i]) /\ inbox[i].path = p))
                  => Due(p)' = Due(p)
  <2>1. /\ n \in 0..Len(inbox) /\ UNCHANGED <<disk, watched>>
        /\ inbox' \in Seq(Message) /\ Len(inbox') = Len(inbox) - n
        /\ \A i \in 1..(Len(inbox) - n) : inbox'[i] = inbox[i + n]
    BY <1>0, <1>1, <1>2 DEF m
  <2> QED  BY <2>1, MessagesRead
<1>9. Watching'
  <2>1. \A i \in DOMAIN inbox' : i + n \in DOMAIN inbox /\ inbox'[i] = inbox[i + n]
    BY <1>0, <1>2 DEF m
  <2>2. DOMAIN inbox' \subseteq Nat
    BY <1>2
  <2>3. \A i, j \in DOMAIN inbox' : i + n = j + n => i = j
    BY <1>0, <2>2
  <2> QED  BY <1>1, <1>5, <2>1, <2>3 DEF Watching
<1>10. Evolution
  <2>1. \A p : (\A i \in DOMAIN changes : changes[i].path # p) => Due(p)' = Due(p)
    BY <1>3, <1>8
  <2>2. folders' = folders /\ open' = open
    BY <1>1
  <2> QED  BY <1>1, <1>7, <2>1, <2>2, DiskSame DEF Evolution
<1> QED  BY <1>7, <1>8, <1>9, <1>10

(* Events are trusted again: by then whatever was kept is lost.            *)
LEMMA ResponseRead ==
    ASSUME ClientOK, ServerOK, Watching, WatchResponse
    PROVE  ClientOK' /\ ServerOK' /\ Watching' /\ Evolution
<1> DEFINE m == Len(inbox) - 1
<1>0. /\ inbox \in Seq(Message) /\ Len(inbox) \in Nat /\ Len(inbox) >= 1
      /\ DOMAIN inbox = 1..Len(inbox) /\ Head(inbox) = inbox[1] /\ ~ IsEvent(inbox[1])
      /\ inbox' = Tail(inbox)
      /\ revision' = IF inbox[1] = Accepted THEN epoch ELSE revision
      /\ UNCHANGED <<disk, watched, epoch, journal, folders, open>>
  BY DEF ClientOK, WatchResponse
<1>1. /\ inbox' \in Seq(Message) /\ Len(inbox') = m /\ DOMAIN inbox' = 1..m
      /\ \A i \in 1..m : inbox'[i] = inbox[i + 1]
  BY <1>0
<1>2. ClientOK' /\ \A p : Due(p)' = Due(p)
  <2>1. \A i \in 1..1 : ~ IsEvent(inbox[i])
    BY <1>0
  <2>2. 1 \in 0..Len(inbox)
    BY <1>0
  <2> QED  BY <1>0, <1>1, <2>1, <2>2, MessagesRead
<1>3. ServerOK'
  BY <1>0 DEF ServerOK
<1>4. \A i \in DOMAIN inbox' : i \in Nat /\ i + 1 \in DOMAIN inbox /\ i + 1 # 1 /\ inbox'[i] = inbox[i + 1]
  BY <1>0, <1>1
<1>5. Watching'
  <2>1. \A i, j \in DOMAIN inbox' : inbox'[i] = Accepted /\ inbox'[j] = Accepted => i = j
    <3>1. \A i, j \in Nat : i + 1 = j + 1 => i = j
      OBVIOUS
    <3> QED  BY <1>4, <3>1 DEF Watching
  <2>2. CASE inbox[1] = Accepted
    <3>1. \A i \in DOMAIN inbox' : inbox'[i] # Accepted
      BY <1>0, <1>4, <2>2 DEF Watching
    <3> QED  BY <1>0, <2>1, <2>2, <3>1 DEF Watching
  <2>3. CASE inbox[1] # Accepted
    BY <1>0, <1>4, <2>1, <2>3 DEF Watching
  <2> QED  BY <2>2, <2>3
<1>6. Evolution
  <2>1. CASE inbox[1] = Accepted
    <3>1. revision = None
      BY <1>0, <2>1 DEF Watching
    <3>2. ASSUME NEW r \in 0..epoch, Lost(r)  PROVE  Lost(r)' /\ ~ Follows(r)'
      <4>1. r # None /\ journal.floor > r /\ r \in Nat /\ journal.floor \in Nat
        BY <3>1, <3>2, NoneAssumption DEF Lost, ServerOK, JournalAt, Journals
      <4> QED  BY <1>0, <4>1 DEF Lost, Follows
    <3> QED  BY <1>0, <3>2, DiskSame DEF Evolution, ServerOK
  <2>2. CASE inbox[1] # Accepted
    <3>1. \A r : (Follows(r)' <=> Follows(r)) /\ (Lost(r)' <=> Lost(r))
      BY <1>0, <2>2 DEF Follows, Lost
    <3> QED  BY <1>0, <1>2, <3>1, DiskSame DEF Evolution, ServerOK
  <2> QED  BY <2>1, <2>2
<1> QED  BY <1>2, <1>3, <1>5, <1>6

-----------------------------------------------------------------------------
(* What the worker has is as good after a step of the others as before.    *)

(* An instant that was there is still there.                               *)
LEMMA FoundLater ==
    ASSUME NEW d, NEW e, NEW p, NEW from, NEW since, NEW files,
           Len(d[p]) \in Nat, Len(e[p]) \in Nat, Len(d[p]) <= Len(e[p]),
           \A i \in 1..Len(d[p]) : e[p][i] = d[p][i],
           from \in Nat, since \in Nat, 1 <= since, since <= from,
           FoundIn(d, p, from, files)
    PROVE  FoundIn(e, p, since, files)
<1>1. PICK i \in from..Len(d[p]) : d[p][i] = (p \in files)
  BY DEF FoundIn
<1>2. i \in 1..Len(d[p]) /\ i \in since..Len(e[p])
  BY <1>1
<1>3. e[p][i] = (p \in files)
  BY <1>1, <1>2
<1> QED  BY <1>2, <1>3 DEF FoundIn

(* What is due is a content the file has had.                              *)
LEMMA DueTyped ==
    ASSUME ClientOK
    PROVE  \A p \in Paths : Due(p) \in 1..Len(disk[p])
<1> TAKE p \in Paths
<1>1. DOMAIN inbox \subseteq Nat /\ Reported(disk, inbox) /\ Len(disk[p]) \in Nat /\ Len(disk[p]) >= 1
  BY DEF ClientOK, Reported
<1>2. DueIn(disk, inbox, p) \in 1..Len(disk[p])
  BY <1>1, DueInBounds
<1> QED  BY <1>2, DueOfState

(* The invariant, after any such step.                                     *)
LEMMA Evolved ==
    ASSUME IInv, ClientOK', ServerOK', Watching', Evolution, UNCHANGED workerVars
    PROVE  IInv'
<1>0. /\ task' = task /\ catalog' = catalog /\ cache' = cache
      /\ ClientOK /\ ServerOK /\ CatalogOK /\ CacheOK /\ TaskOK
  BY DEF IInv, workerVars
<1>1. /\ epoch \in Nat /\ epoch' \in Nat /\ epoch <= epoch'
      /\ \A p \in Paths : /\ Len(disk[p]) \in Nat /\ Len(disk'[p]) \in Nat
                          /\ Len(disk[p]) <= Len(disk'[p])
                          /\ \A i \in 1..Len(disk[p]) : disk'[p][i] = disk[p][i]
      /\ \A p \in Paths : Due(p) \in 1..Len(disk[p])
  BY <1>0, DueTyped DEF Evolution, ClientOK, ServerOK
<1>2. ASSUME NEW r \in 0..epoch, Lost(r)
      PROVE  /\ revision' = None => journal'.floor > r
             /\ revision' # None /\ journal'.floor <= r =>
                  /\ Follows(r) /\ folders' = folders /\ open' = open
                  /\ \A p \in Paths :
                       RootOf[p] \in folders /\ p \notin ChangedPaths(journal', r) =>
                         p \notin ChangedPaths(journal, r) /\ Due(p)' = Due(p)
  <2>1. r # None
    BY <1>0, NoneAssumption DEF ServerOK
  <2>2. Lost(r)' /\ (Follows(r)' =>
              /\ Follows(r) /\ folders' = folders /\ open' = open
              /\ \A p \in Paths :
                   RootOf[p] \in folders /\ p \notin ChangedPaths(journal', r) =>
                     p \notin ChangedPaths(journal, r) /\ Due(p)' = Due(p))
    BY <1>2 DEF Evolution
  <2>3. revision' = None => journal'.floor > r
    BY <2>1, <2>2 DEF Lost
  <2>4. revision' # None /\ journal'.floor <= r => Follows(r)'
    BY <2>1 DEF Follows
  <2> QED  BY <2>2, <2>3, <2>4
<1>3. /\ task # None /\ task.revision # None => task.revision \in 0..epoch /\ Lost(task.revision)
      /\ catalog # None => catalog.revision \in 0..epoch /\ Lost(catalog.revision)
      /\ cache.revision # None => cache.revision \in 0..epoch
      /\ Lost(cache.revision)
  BY <1>0, <1>1 DEF CatalogOK, CacheOK, TaskOK, Task, Catalogs, Revision
<1>4. ASSUME task # None, NEW p \in Paths  PROVE  task.due[p] \in 1..Len(disk'[p])
  <2>1. task.due[p] \in 1..Len(disk[p])
    BY <1>0, <1>4 DEF TaskOK
  <2> QED  BY <1>1, <2>1
<1>5. /\ task # None /\ task.revision # None =>
           task.revision <= epoch' /\ (revision' = None => journal'.floor > task.revision)
      /\ catalog # None =>
           catalog.revision <= epoch' /\ (revision' = None => journal'.floor > catalog.revision)
      /\ cache.revision # None =>
           cache.revision <= epoch' /\ (revision' = None => journal'.floor > cache.revision)
  BY <1>1, <1>2, <1>3
<1>6. TaskFollows'
  <2> SUFFICES ASSUME task # None, revision' # None, task.revision # None,
                      journal'.floor <= task.revision
               PROVE  /\ task.folders = folders' /\ task.open = open'
                      /\ \A p \in Paths : RootOf[p] \in folders'
                           /\ p \notin ChangedPaths(journal', task.revision)
                             => Due(p)' <= task.due[p]
    BY <1>0 DEF TaskFollows, Follows
  <2>1. /\ Follows(task.revision) /\ folders' = folders /\ open' = open
        /\ \A p \in Paths :
             RootOf[p] \in folders /\ p \notin ChangedPaths(journal', task.revision) =>
               p \notin ChangedPaths(journal, task.revision) /\ Due(p)' = Due(p)
    BY <1>2, <1>3
  <2> QED  BY <1>0, <2>1 DEF TaskOK, TaskFollows
<1>7. CatalogFollows'
  <2> SUFFICES ASSUME catalog # None, revision' # None, journal'.floor <= catalog.revision,
                      catalog.folders = folders', catalog.open = open',
                      NEW p \in Paths \ open', RootOf[p] \in folders',
                      p \notin ChangedPaths(journal', catalog.revision)
               PROVE  FoundIn(disk', p, Due(p)', catalog.files)
    BY <1>0 DEF CatalogFollows, Follows
  <2>1. /\ Follows(catalog.revision) /\ folders' = folders /\ open' = open
        /\ RootOf[p] \in folders =>
             p \notin ChangedPaths(journal, catalog.revision) /\ Due(p)' = Due(p)
    BY <1>2, <1>3
  <2>2. FoundIn(disk, p, Due(p), catalog.files)
    BY <1>0, <2>1 DEF CatalogOK, CatalogFollows
  <2>3. FoundIn(disk', p, Due(p), catalog.files)
    BY <1>1, <2>2, FoundLater
  <2> QED  BY <2>1, <2>3
<1>8. CacheFollows'
  <2> SUFFICES ASSUME revision' # None, cache.revision # None, journal'.floor <= cache.revision,
                      NEW p \in DOMAIN cache.entries \ Subjects
               PROVE  /\ RootOf[p] \in folders'
                      /\ p \notin ChangedPaths(journal', cache.revision)
                           => Due(p)' <= cache.entries[p]
    BY <1>0 DEF CacheFollows, Follows
  <2>1. p \in Paths
    BY <1>0, TableHas DEF CacheOK
  <2>2. /\ Follows(cache.revision) /\ folders' = folders
        /\ RootOf[p] \in folders /\ p \notin ChangedPaths(journal', cache.revision) =>
             p \notin ChangedPaths(journal, cache.revision) /\ Due(p)' = Due(p)
    BY <1>2, <1>3, <2>1
  <2> QED  BY <1>0, <2>2 DEF CacheOK, CacheFollows
<1>9. CacheInCatalog'
  BY <1>0 DEF CacheOK, CacheInCatalog
<1>10. ASSUME task # None, NEW p \in Paths, NEW files, FoundIn(disk, p, task.due[p], files)
       PROVE  FoundIn(disk', p, task.due[p], files)
  <2>1. task.due[p] \in 1..Len(disk[p])
    BY <1>0, <1>10 DEF TaskOK
  <2> QED  BY <1>1, <1>10, <2>1, FoundLater
<1>11. BeforeScan'
  <2> SUFFICES ASSUME task # None, task.phase # "scan"
               PROVE  /\ CatalogServes =>
                           \A p \in Paths \ task.open : RootOf[p] \in task.folders /\ ~ Suspect(p)
                             => FoundIn(disk', p, task.due[p], catalog.files)
                      /\ \A p \in DOMAIN cache.entries \ Subjects :
                           ContentsUnchanged(task.events, p, cache.revision, task.revision)
                             => task.due[p] <= cache.entries[p]
    BY <1>0 DEF BeforeScan, CatalogServes, Suspect
  <2> QED  BY <1>0, <1>10 DEF TaskOK, BeforeScan
<1>12. Scan'
  <2> SUFFICES ASSUME task # None, task.phase = "scan"
               PROVE  \A p \in Paths \ task.open : RootOf[p] \in task.folders
                        => FoundIn(disk', p, task.due[p], task.files)
    BY <1>0 DEF TaskOK, Scan, Reusable, Entries
  <2> QED  BY <1>0, <1>10 DEF TaskOK, Scan
<1>13. SummariesAreCurrent'
  BY <1>0 DEF TaskOK, SummariesAreCurrent
<1>14. CatalogOK'
  BY <1>0, <1>5, <1>7 DEF CatalogOK, Lost
<1>15. CacheOK'
  BY <1>0, <1>5, <1>8, <1>9 DEF CacheOK, Lost
<1>16. TaskOK'
  BY <1>0, <1>4, <1>5, <1>6, <1>11, <1>12, <1>13 DEF TaskOK, Lost
<1> QED  BY <1>14, <1>15, <1>16 DEF IInv

-----------------------------------------------------------------------------
(* The worker                                                              *)

(* A step of the worker alone.                                             *)
LEMMA Framed ==
    ASSUME IInv, UNCHANGED <<clientVars, serverVars>>
    PROVE  /\ ClientOK' /\ ServerOK' /\ Watching'
           /\ \A r : (Lost(r)' <=> Lost(r)) /\ (Follows(r)' <=> Follows(r))
           /\ \A p : Due(p)' = Due(p)
           /\ UNCHANGED <<disk, epoch, journal, revision, folders, open>>
<1>1. UNCHANGED <<disk, watched, inbox, epoch, journal, revision, folders, open>>
  BY DEF clientVars, serverVars
<1>2. ClientOK' /\ ServerOK' /\ Watching'
  BY <1>1 DEF IInv, ClientOK, ServerOK, Watching, IsEvent, Accepted
<1>3. \A r : (Lost(r)' <=> Lost(r)) /\ (Follows(r)' <=> Follows(r))
  BY <1>1 DEF Lost, Follows
<1>4. \A p : Due(p)' = Due(p)
  BY <1>1, DueOfState, DueNext
<1> QED  BY <1>1, <1>2, <1>3, <1>4

(* What the worker leaves alone stays right.                               *)
LEMMA CatalogKept ==
    ASSUME IInv, UNCHANGED <<clientVars, serverVars>>, catalog' = catalog \/ catalog' = None
    PROVE  CatalogOK'
<1>1. CASE catalog' = catalog
  BY <1>1, Framed DEF IInv, CatalogOK, CatalogFollows, Lost, Follows
<1>2. CASE catalog' = None
  BY <1>2 DEF CatalogOK, CatalogFollows
<1> QED  BY <1>1, <1>2

(* A cache without a revision promises nothing.                            *)
LEMMA CacheUnversioned ==
    ASSUME IInv, cache' \in [revision : {None}, entries : Tables]
    PROVE  CacheOK'
<1>1. cache'.revision = None /\ cache' \in [revision : Revision, entries : Tables]
  BY DEF Revision
<1> QED  BY <1>1 DEF CacheOK, CacheFollows, CacheInCatalog, Lost, Follows

LEMMA CacheKept ==
    ASSUME IInv, UNCHANGED <<clientVars, serverVars, cache>>,
           catalog'.files = catalog.files
    PROVE  CacheOK'
<1>1. CacheFollows'
  BY Framed DEF IInv, CacheOK, CacheFollows, Follows
<1>2. CacheInCatalog'
  BY DEF IInv, CacheOK, CacheInCatalog
<1> QED  BY <1>1, <1>2, Framed DEF IInv, CacheOK, Lost

(* Without a query nothing is promised of one.                             *)
LEMMA TaskOver ==
    ASSUME task' = None
    PROVE  TaskOK'
BY DEF TaskOK, TaskFollows, BeforeScan, Scan, SummariesAreCurrent

(* The cache, and what it has of each file.                                *)
LEMMA CacheTyped ==
    ASSUME CacheOK
    PROVE  /\ cache.entries \in Tables /\ cache.revision \in Revision
           /\ cache = [revision |-> cache.revision, entries |-> cache.entries]
           /\ \A p \in DOMAIN cache.entries : p \in Paths /\ cache.entries[p] \in Nat
<1>1. cache \in [revision : Revision, entries : Tables]
  BY DEF CacheOK
<1>2. cache.entries \in Tables
  BY <1>1
<1> QED  BY <1>1, <1>2, TableHas

(* When a query begins, what the server's journal says is what its copy    *)
(* says.                                                                   *)
LEMMA TaskStarted ==
    ASSUME IInv, NEW subject \in Subjects \cup {None}, NEW other \in BOOLEAN,
           StartTask(subject, other)
    PROVE  IInv'
<1> DEFINE due == [p \in Paths |-> Due(p)]
           phase == IF subject = None THEN "catalog" ELSE "resolve"
<1>0. /\ UNCHANGED <<clientVars, serverVars>> /\ catalog' = catalog /\ cache' = cache
      /\ task' = [other |-> other, subject |-> subject, phase |-> phase,
                  revision |-> revision, events |-> journal, folders |-> folders, open |-> open,
                  due |-> due, read |-> 0, files |-> {}, todo |-> {}, reuse |-> FALSE,
                  previous |-> None, found |-> NoEntries]
  BY DEF StartTask
<1>1. /\ ClientOK' /\ ServerOK' /\ Watching' /\ CatalogOK' /\ CacheOK'
  BY <1>0, Framed, CatalogKept, CacheKept DEF IInv
<1>2. ClientOK /\ ServerOK /\ CatalogOK /\ CacheOK
  BY DEF IInv
<1>3. /\ due \in [Paths -> Nat] /\ \A p \in Paths : due[p] = Due(p) /\ Due(p) \in 1..Len(disk[p])
      /\ \A p \in Paths : Len(disk[p]) \in Nat
  BY <1>2, DueTyped DEF ClientOK
<1>4. /\ epoch \in Nat /\ JournalAt(journal, epoch) /\ revision \in {None, epoch}
      /\ folders \subseteq Roots /\ open \subseteq Paths /\ journal.latest = epoch
      /\ revision # None => Follows(revision)
  BY <1>2 DEF ServerOK, JournalAt, Follows
<1> HIDE DEF due
<1>5. task' \in Task
  <2>1. journal \in Journals /\ revision \in Revision /\ None \in Revision /\ phase \in {"resolve", "catalog", "scan"}
    BY <1>4 DEF JournalAt, Revision
  <2> HIDE DEF phase
  <2> QED  BY <1>0, <1>3, <1>4, <2>1, EmptyTable DEF Task
<1>6. /\ task'.revision = revision /\ task'.events = journal /\ task'.folders = folders
      /\ task'.open = open /\ task'.due = due /\ task'.found = NoEntries
      /\ task'.phase # "scan"
  BY <1>0
<1>7. Lost(revision)
  BY DEF Lost
<1>8. TaskFollows'
  BY <1>0, <1>3, <1>6, Framed, NoneAssumption DEF TaskFollows
<1>9. \A p : p \notin ChangedPaths(journal, epoch)
  <2>1. \A p \in DOMAIN journal.paths : journal.paths[p] \in Nat /\ journal.paths[p] <= epoch
    BY <1>4, TableHas DEF JournalAt, Journals
  <2> QED  BY <1>4, <2>1 DEF ChangedPaths
<1>10. ASSUME CatalogServes', NEW p \in Paths \ open, RootOf[p] \in folders, ~ Suspect(p)'
       PROVE  FoundIn(disk, p, due[p], catalog.files)
  <2>1. /\ catalog # None /\ revision # None /\ catalog.folders = folders /\ catalog.open = open
        /\ catalog.revision = revision \/ Knows(journal, catalog.revision, revision)
        /\ catalog.revision = revision \/ p \notin ChangedPaths(journal, catalog.revision)
    BY <1>0, <1>6, <1>10 DEF CatalogServes, Suspect
  <2>2. p \notin ChangedPaths(journal, catalog.revision)
    BY <1>4, <1>9, <2>1
  <2>3. catalog.revision \in Nat
    BY <1>2, <2>1 DEF CatalogOK, Catalogs
  <2>4. Follows(catalog.revision)
    BY <1>4, <2>1, <2>3, NoneAssumption DEF Follows, Knows
  <2> QED  BY <1>2, <1>3, <1>10, <2>1, <2>2, <2>4 DEF CatalogOK, CatalogFollows
<1>11. ASSUME NEW p \in DOMAIN cache.entries \ Subjects,
              ContentsUnchanged(journal, p, cache.revision, revision)
       PROVE  due[p] <= cache.entries[p]
  <2>1. /\ cache.revision # None /\ revision # None
        /\ cache.revision = revision
           \/ (Knows(journal, cache.revision, revision)
               /\ p \notin ChangedPaths(journal, cache.revision))
    BY <1>11 DEF ContentsUnchanged
  <2>2. cache.revision \in Nat /\ p \in Paths
    BY <1>2, <2>1, CacheTyped DEF Revision
  <2>3. p \notin ChangedPaths(journal, cache.revision) /\ Follows(cache.revision)
    BY <1>4, <1>9, <2>1, <2>2, NoneAssumption DEF Follows, Knows
  <2> QED  BY <1>2, <1>3, <2>2, <2>3 DEF CacheOK, CacheFollows
<1>12. BeforeScan'
  <2>1. disk' = disk
    BY <1>0, Framed
  <2> QED  BY <1>0, <1>6, <1>10, <1>11, <2>1 DEF BeforeScan
<1>13. Scan' /\ SummariesAreCurrent'
  BY <1>6, EmptyTable DEF Scan, SummariesAreCurrent
<1>14. TaskOK'
  <2>1. /\ task'.revision # None => task'.revision <= epoch
        /\ \A p \in Paths : task'.due[p] \in 1..Len(disk[p])
        /\ Lost(task'.revision)
        /\ task'.phase = "resolve" => task'.subject \in Paths
    BY <1>0, <1>3, <1>4, <1>6, <1>7, SubjectsAssumption
  <2>2. Lost(task.revision)'
    BY <1>0, <2>1, Framed DEF Lost
  <2>3. epoch' = epoch /\ disk' = disk
    BY <1>0, Framed
  <2> QED  BY <1>5, <1>8, <1>12, <1>13, <2>1, <2>2, <2>3 DEF TaskOK
<1> QED  BY <1>1, <1>14 DEF IInv

(* heading_references::Context::resolve.                                   *)
LEMMA SubjectResolved ==
    ASSUME IInv, ResolveSubject
    PROVE  IInv'
<1>0. /\ UNCHANGED <<clientVars, serverVars>> /\ catalog' = catalog /\ cache' = cache
      /\ task # None /\ task.phase = "resolve"
      /\ task' = None \/ task' = [task EXCEPT !.phase = "catalog", !.read = Content(task.subject)]
  BY DEF ResolveSubject
<1>1. ClientOK' /\ ServerOK' /\ Watching' /\ CatalogOK' /\ CacheOK'
  BY <1>0, Framed, CatalogKept, CacheKept
<1>2. CASE task' = None
  BY <1>1, <1>2, TaskOver DEF IInv
<1>3. CASE task' = [task EXCEPT !.phase = "catalog", !.read = Content(task.subject)] /\ task.subject \in Paths
  <2>0. TaskOK /\ task \in Task /\ Content(task.subject) \in Nat
    BY <1>0, <1>3 DEF IInv, TaskOK, ClientOK, Content
  <2>1. /\ task' \in Task /\ task'.phase = "catalog"
        /\ task'.revision = task.revision /\ task'.events = task.events
        /\ task'.folders = task.folders /\ task'.open = task.open
        /\ task'.due = task.due /\ task'.found = task.found
    BY <1>3, <2>0 DEF Task
  <2>2. /\ Lost(task.revision)' /\ (Follows(task.revision)' <=> Follows(task.revision))
        /\ epoch' = epoch /\ disk' = disk /\ journal' = journal
        /\ folders' = folders /\ open' = open /\ \A p : Due(p)' = Due(p)
    BY <1>0, <2>0, <2>1, Framed DEF TaskOK, Lost, Follows
  <2>3. TaskFollows'
    BY <1>0, <2>0, <2>1, <2>2 DEF TaskOK, TaskFollows
  <2>4. BeforeScan'
    <3>1. (CatalogServes' <=> CatalogServes) /\ \A p : Suspect(p)' <=> Suspect(p)
      BY <1>0, <2>1 DEF CatalogServes, Suspect
    <3>2. task.phase # "scan"
      BY <1>0
    <3> QED  BY <1>0, <2>0, <2>1, <2>2, <3>1, <3>2 DEF TaskOK, BeforeScan
  <2>5. Scan' /\ SummariesAreCurrent'
    BY <1>0, <2>0, <2>1 DEF TaskOK, Scan, SummariesAreCurrent
  <2>6. TaskOK'
    BY <1>0, <2>0, <2>1, <2>2, <2>3, <2>4, <2>5 DEF TaskOK
  <2> QED  BY <1>1, <2>6 DEF IInv
<1>4. task.subject \in Paths
  BY <1>0 DEF IInv, TaskOK
<1> QED  BY <1>0, <1>2, <1>3, <1>4

(* A query that ends without an answer leaves what was kept.               *)
LEMMA GivenUp ==
    ASSUME IInv, GiveUp
    PROVE  IInv'
<1>1. UNCHANGED <<clientVars, serverVars>> /\ catalog' = catalog /\ cache' = cache /\ task' = None
  BY DEF GiveUp
<1> QED  BY <1>1, Framed, CatalogKept, CacheKept, TaskOver DEF IInv

(* A cache whose catalog is gone has no revision.                          *)
LEMMA GenerationReplaced ==
    ASSUME CacheOK
    PROVE  NewGeneration \in [revision : {None}, entries : Tables] /\ NewGeneration.entries = cache.entries
BY CacheTyped DEF NewGeneration

(* A walk that fails leaves no catalog, and a cache without revision.      *)
LEMMA DiscoveryFailed ==
    ASSUME IInv, DiscoveryFails
    PROVE  IInv'
<1>1. UNCHANGED <<clientVars, serverVars>> /\ catalog' = None /\ cache' = NewGeneration /\ task' = None
  BY DEF DiscoveryFails
<1>2. CacheOK'
  BY <1>1, GenerationReplaced, CacheUnversioned DEF IInv
<1> QED  BY <1>1, <1>2, Framed, CatalogKept, TaskOver DEF IInv

(* An empty cache is as good as any.                                       *)
LEMMA BufferSearched ==
    ASSUME IInv, SearchOneBuffer
    PROVE  IInv'
<1>1. /\ UNCHANGED <<clientVars, serverVars>> /\ catalog' = catalog /\ task' = None
      /\ task # None /\ cache' = [revision |-> task.revision, entries |-> NoEntries]
  BY DEF SearchOneBuffer
<1>2. /\ task \in Task /\ (task.revision # None => task.revision <= epoch) /\ Lost(task.revision)
  BY <1>1 DEF IInv, TaskOK
<1>3. /\ cache' \in [revision : Revision, entries : Tables]
      /\ cache'.revision = task.revision /\ DOMAIN cache'.entries = {}
  BY <1>1, <1>2, EmptyTable DEF Task
<1>4. epoch' = epoch /\ Lost(cache.revision)'
  BY <1>1, <1>2, <1>3, Framed DEF Lost
<1>5. CacheOK'
  BY <1>2, <1>3, <1>4 DEF CacheOK, CacheFollows, CacheInCatalog
<1> QED  BY <1>1, <1>5, Framed, CatalogKept, TaskOver DEF IInv

(* The scan begins: whatever may be used without being read is recent      *)
(* enough, and is in the inventory.                                        *)
LEMMA ScanBegun ==
    ASSUME IInv, UNCHANGED <<clientVars, serverVars>>,
           task # None, task.phase = "catalog", ~ task.other,
           NEW files \in SUBSET Paths, NEW reused \in BOOLEAN,
           NEW known \in [revision : Revision, entries : Tables],
           BeginScan(files, reused, known), known.entries = cache.entries,
           \A p \in Paths \ task.open :
             RootOf[p] \in task.folders => FoundIn(disk, p, task.due[p], files),
           \A p \in files : RootOf[p] \in task.folders,
           task.revision # None => catalog'.files = files,
           reused /\ known.revision # None =>
             /\ known.revision = cache.revision
             /\ \A p \in DOMAIN cache.entries \ Subjects : p \in files
    PROVE  TaskOK' /\ CacheOK'
<1> DEFINE reuse == reused /\ task.revision # None /\ known.revision # None
           paths == files \cup ({task.subject} \cap Paths)
           left == IF reuse THEN known.entries
                   ELSE Restrict(known.entries, DOMAIN known.entries \cap paths)
<1>0. /\ task' = [task EXCEPT !.phase = "scan", !.files = files, !.todo = paths,
                              !.previous = known.revision, !.reuse = reuse]
      /\ cache' = [revision |-> None, entries |-> left]
  BY DEF BeginScan
<1>1. TaskOK /\ CacheOK /\ task \in Task /\ reuse \in BOOLEAN
  BY DEF IInv, TaskOK
<1>2. /\ left \in Tables
      /\ DOMAIN left \subseteq DOMAIN cache.entries
      /\ \A p \in DOMAIN left : left[p] = cache.entries[p]
      /\ ~ reuse => DOMAIN left \subseteq paths
  <2>1. cache.entries \in Tables
    BY <1>1, CacheTyped
  <2>2. CASE reuse
    BY <2>1, <2>2
  <2>3. CASE ~ reuse
    <3> DEFINE S == DOMAIN cache.entries \cap paths
    <3>1. left = Restrict(cache.entries, S)
      BY <2>3
    <3>2. S \subseteq DOMAIN cache.entries /\ S \subseteq paths
      OBVIOUS
    <3> HIDE DEF S, left, paths
    <3> QED  BY <2>1, <2>3, <3>1, <3>2, TablePart
  <2> QED  BY <2>2, <2>3
<1> HIDE DEF left
<1>3. CacheOK'
  <2>1. cache' \in [revision : {None}, entries : Tables]
    BY <1>0, <1>2
  <2> QED  BY <2>1, CacheUnversioned
<1>4. /\ task' \in Task
      /\ task'.phase = "scan" /\ task'.files = files /\ task'.todo = paths
      /\ task'.previous = known.revision /\ task'.reuse = reuse
      /\ task'.revision = task.revision /\ task'.events = task.events
      /\ task'.folders = task.folders /\ task'.open = task.open /\ task'.subject = task.subject
      /\ task'.due = task.due /\ task'.found = task.found
  <2>1. paths \in SUBSET Paths /\ known.revision \in Revision
    OBVIOUS
  <2> HIDE DEF paths, reuse
  <2> QED  BY <1>0, <1>1, <2>1 DEF Task
<1>5. reuse => reused /\ task.revision # None /\ known.revision # None
  OBVIOUS
<1>6. \A p \in files : p \in paths
  OBVIOUS
<1>7. \A p \in paths : p \in files \/ p = task.subject
  OBVIOUS
<1> HIDE DEF reuse, paths
<1>8. /\ Lost(task.revision)' /\ (Follows(task.revision)' <=> Follows(task.revision))
      /\ epoch' = epoch /\ disk' = disk /\ journal' = journal
      /\ folders' = folders /\ open' = open /\ \A p : Due(p)' = Due(p)
  BY <1>1, <1>4, Framed DEF TaskOK, Lost, Follows
<1>9. TaskFollows'
  BY <1>1, <1>4, <1>8 DEF TaskOK, TaskFollows
<1>10. ASSUME NEW p \in DOMAIN left \ Subjects
       PROVE  p \in files /\ p \in paths /\ (reuse =>
                (ContentsUnchanged(task.events, p, known.revision, task.revision)
                   => task.due[p] <= left[p]))
  <2>1. p \in DOMAIN cache.entries \ Subjects /\ left[p] = cache.entries[p]
    BY <1>2
  <2>2. CASE reuse
    <3>1. known.revision = cache.revision /\ p \in files
      BY <1>5, <2>1, <2>2
    <3>2. ContentsUnchanged(task.events, p, cache.revision, task.revision)
            => task.due[p] <= cache.entries[p]
      BY <1>1, <2>1 DEF TaskOK, BeforeScan
    <3> QED  BY <1>6, <2>1, <3>1, <3>2
  <2>3. CASE ~ reuse
    <3>1. p \in paths /\ p # task.subject
      <4>1. task.subject \in Subjects \cup {None}
        BY <1>1 DEF Task
      <4>2. p \in Paths
        BY <1>2, TableHas
      <4> QED  BY <1>2, <2>3, <4>1, <4>2, PathsAssumption, NoneAssumption
    <3> QED  BY <1>7, <2>3, <3>1
  <2> QED  BY <2>2, <2>3
<1>11. Scan'
  <2>1. cache'.revision = None /\ cache'.entries = left
    BY <1>0
  <2>2. ASSUME NEW p \in DOMAIN left \ Subjects
        PROVE  /\ p \in task'.files
               /\ p \notin task'.todo \/ Reusable(p)' => task'.due[p] <= left[p]
    <3>1. Reusable(p)' => reuse /\ ContentsUnchanged(task.events, p, known.revision, task.revision)
      BY <1>4 DEF Reusable
    <3> QED  BY <1>4, <1>10, <3>1
  <2>3. task'.todo \subseteq task'.files \cup {task'.subject}
    BY <1>4, <1>7
  <2> QED  BY <1>4, <1>8, <2>1, <2>2, <2>3 DEF Scan
<1>12. BeforeScan' /\ SummariesAreCurrent'
  BY <1>1, <1>4 DEF TaskOK, BeforeScan, SummariesAreCurrent
<1>13. TaskOK'
  BY <1>1, <1>4, <1>8, <1>9, <1>11, <1>12 DEF TaskOK
<1> QED  BY <1>3, <1>13

(* An inventory that is right for the query is right for the server.       *)
LEMMA CatalogStored ==
    ASSUME IInv, UNCHANGED <<clientVars, serverVars>>, task # None,
           catalog' \in Catalogs, catalog'.revision = task.revision, task.revision # None,
           catalog'.folders = task.folders, catalog'.open = task.open,
           \A p \in Paths \ task.open :
             RootOf[p] \in task.folders => FoundIn(disk, p, task.due[p], catalog'.files),
           \A p \in catalog'.files : RootOf[p] \in task.folders
    PROVE  CatalogOK'
<1>1. /\ TaskOK /\ ClientOK
      /\ epoch' = epoch /\ disk' = disk /\ journal' = journal /\ revision' = revision
      /\ folders' = folders /\ open' = open /\ \A p : Due(p)' = Due(p)
  BY Framed DEF IInv
<1>2. /\ task.revision <= epoch
      /\ revision = None => journal.floor > task.revision
  BY <1>1 DEF TaskOK, Lost
<1>3. CatalogFollows'
  <2> SUFFICES ASSUME Follows(task.revision), task.folders = folders, task.open = open,
                      NEW p \in Paths \ open, RootOf[p] \in folders,
                      p \notin ChangedPaths(journal, task.revision)
               PROVE  FoundIn(disk, p, Due(p), catalog'.files)
    BY <1>1 DEF CatalogFollows, Follows
  <2>1. Due(p) <= task.due[p]
    BY <1>1 DEF TaskOK, TaskFollows
  <2>2. /\ Due(p) \in 1..Len(disk[p]) /\ task.due[p] \in 1..Len(disk[p])
        /\ Len(disk[p]) \in Nat
    BY <1>1, DueTyped DEF TaskOK, ClientOK
  <2>3. FoundIn(disk, p, task.due[p], catalog'.files)
    OBVIOUS
  <2> QED  BY <2>1, <2>2, <2>3, FoundLater
<1> QED  BY <1>1, <1>2, <1>3 DEF CatalogOK, Lost

(* What is on the disk now is an instant not before the query.             *)
LEMMA FoundNow ==
    ASSUME ClientOK, TaskOK, task # None, NEW p \in Paths, NEW files, Exists(p) <=> p \in files
    PROVE  FoundIn(disk, p, task.due[p], files)
<1>1. /\ Len(disk[p]) \in Nat /\ Len(disk[p]) >= 1 /\ task.due[p] \in 1..Len(disk[p])
      /\ disk[p] \in Seq(BOOLEAN)
  BY DEF ClientOK, TaskOK
<1>2. disk[p][Len(disk[p])] \in BOOLEAN
  BY <1>1
<1>3. disk[p][Len(disk[p])] = (p \in files)
  BY <1>2 DEF Exists
<1>4. Len(disk[p]) \in task.due[p]..Len(disk[p])
  BY <1>1
<1> QED  BY <1>3, <1>4 DEF FoundIn

(* Catalog::sources, without a walk.                                       *)
LEMMA CatalogReused ==
    ASSUME IInv, ReuseCatalog
    PROVE  IInv'
<1>0. /\ UNCHANGED <<clientVars, serverVars>>
      /\ task # None /\ task.phase = "catalog" /\ SameInventory
      /\ catalog' = [catalog EXCEPT !.revision = task.revision]
      /\ BeginScan(catalog.files, TRUE, cache)
  BY DEF ReuseCatalog
<1>1. ClientOK /\ TaskOK /\ CacheOK /\ CatalogOK /\ task \in Task
  BY <1>0 DEF IInv, TaskOK
<1>2. /\ catalog # None /\ catalog \in Catalogs /\ task.revision \in Nat
      /\ catalog.folders = task.folders /\ catalog.open = task.open
      /\ \A p \in catalog.files : RootOf[p] \in task.folders
      /\ catalog.files \in SUBSET Paths
  BY <1>0, <1>1 DEF SameInventory, CatalogOK, Catalogs, Task, Revision
<1>3. /\ catalog' \in Catalogs /\ catalog'.revision = task.revision
      /\ catalog'.folders = task.folders /\ catalog'.open = task.open
      /\ catalog'.files = catalog.files
  BY <1>0, <1>2 DEF Catalogs
<1>4. ASSUME NEW p \in Paths \ task.open, RootOf[p] \in task.folders
      PROVE  FoundIn(disk, p, task.due[p], catalog.files)
  <2>1. CASE Suspect(p)
    <3>1. p \in catalog.files /\ Exists(p)
      BY <1>0, <1>2, <1>4, <2>1 DEF SameInventory, Suspect
    <3> QED  BY <1>0, <1>1, <1>4, <3>1, FoundNow
  <2>2. CASE ~ Suspect(p)
    <3>1. CatalogServes
      BY <1>0 DEF CatalogServes, SameInventory
    <3> QED  BY <1>0, <1>1, <1>4, <2>2, <3>1 DEF TaskOK, BeforeScan
  <2> QED  BY <2>1, <2>2
<1>5. CatalogOK'
  BY <1>0, <1>2, <1>3, <1>4, NoneAssumption, CatalogStored
<1>6. TaskOK' /\ CacheOK'
  <2>1. CASE task.other
    <3>1. task' = None /\ cache' = cache
      BY <1>0, <2>1 DEF BeginScan
    <3> QED  BY <1>0, <1>3, <3>1, TaskOver, CacheKept
  <2>2. CASE ~ task.other
    <3>1. cache \in [revision : Revision, entries : Tables]
      BY <1>1 DEF CacheOK
    <3>2. cache.revision # None => \A p \in DOMAIN cache.entries \ Subjects : p \in catalog.files
      BY <1>1 DEF CacheOK, CacheInCatalog
    <3> QED  BY <1>0, <1>2, <1>3, <1>4, <2>2, <3>1, <3>2, ScanBegun
  <2> QED  BY <2>1, <2>2
<1> QED  BY <1>0, <1>5, <1>6, Framed DEF IInv

(* Catalog::sources, with a walk.                                          *)
LEMMA CatalogDiscovered ==
    ASSUME IInv, Discover
    PROVE  IInv'
<1>0. /\ UNCHANGED <<clientVars, serverVars>>
      /\ task # None /\ task.phase = "catalog"
      /\ catalog' = IF task.revision = None THEN None
                    ELSE [revision |-> task.revision, folders |-> task.folders,
                          open |-> task.open, files |-> Discovered]
      /\ BeginScan(Discovered, FALSE, NewGeneration)
  BY DEF Discover
<1>1. ClientOK /\ TaskOK /\ CacheOK /\ task \in Task
  BY <1>0 DEF IInv, TaskOK
<1>2. /\ Discovered \in SUBSET Paths
      /\ \A p \in Discovered : RootOf[p] \in task.folders
  BY DEF Discovered
<1>3. ASSUME NEW p \in Paths \ task.open, RootOf[p] \in task.folders
      PROVE  FoundIn(disk, p, task.due[p], Discovered)
  <2>1. Exists(p) <=> p \in Discovered
    BY <1>3 DEF Discovered
  <2> QED  BY <1>0, <1>1, <1>3, <2>1, FoundNow
<1>4. task.revision # None =>
        /\ catalog' \in Catalogs /\ catalog'.revision = task.revision
        /\ catalog'.folders = task.folders /\ catalog'.open = task.open
        /\ catalog'.files = Discovered
  BY <1>0, <1>1, <1>2 DEF Catalogs, Task, Revision
<1>5. CatalogOK'
  <2>1. CASE task.revision = None
    BY <1>0, <2>1, CatalogKept
  <2>2. CASE task.revision # None
    BY <1>0, <1>2, <1>3, <1>4, <2>2, CatalogStored
  <2> QED  BY <2>1, <2>2
<1>6. NewGeneration \in [revision : {None}, entries : Tables] /\ NewGeneration.entries = cache.entries
  BY <1>1, GenerationReplaced
<1>7. TaskOK' /\ CacheOK'
  <2>1. CASE task.other
    <3>1. task' = None /\ cache' = NewGeneration
      BY <1>0, <2>1 DEF BeginScan
    <3> QED  BY <1>6, <3>1, TaskOver, CacheUnversioned
  <2>2. CASE ~ task.other
    <3>1. NewGeneration \in [revision : Revision, entries : Tables]
      BY <1>6 DEF Revision
    <3> QED  BY <1>0, <1>2, <1>3, <1>4, <1>6, <2>2, <3>1, ScanBegun
  <2> QED  BY <2>1, <2>2
<1> QED  BY <1>0, <1>5, <1>7, Framed DEF IInv

(* Files are visited in order, so there is a next one.                     *)
LEMMA NextFile ==
    ASSUME TaskOK, task # None, task.todo # {}
    PROVE  Visited \in task.todo /\ Visited \in Paths
<1>1. task.todo \subseteq Paths
  BY DEF TaskOK, Task
<1>2. \E p \in task.todo : \A q \in task.todo : p <= q
  BY <1>1, Least, PathsAssumption
<1> QED  BY <1>1, <1>2 DEF Visited

(* One file of the scan: what is answered and what is kept.                *)
Visits(p, answers, entries) ==
    /\ task' = [task EXCEPT !.todo = @ \ {p}, !.found = answers]
    /\ cache' = [cache EXCEPT !.entries = entries]
    /\ answers \in Tables /\ entries \in Tables
    /\ \A q \in DOMAIN answers \ Subjects : answers[q] >= task.due[q]
    /\ \A q \in DOMAIN entries \ Subjects :
         \/ q = p /\ p \in task.files /\ entries[p] >= task.due[p]
         \/ q # p /\ q \in DOMAIN cache.entries /\ entries[q] = cache.entries[q]

(* The invariant, after any such visit.                                    *)
LEMMA FileVisited ==
    ASSUME IInv, UNCHANGED <<clientVars, serverVars, catalog>>,
           task # None, task.phase = "scan", NEW p, NEW answers, NEW entries,
           Visits(p, answers, entries)
    PROVE  IInv'
<1>1. TaskOK /\ CacheOK /\ ClientOK /\ task \in Task /\ cache.revision = None
  BY DEF IInv, TaskOK, Scan
<1>2. /\ cache' \in [revision : {None}, entries : Tables] /\ cache'.entries = entries
      /\ cache'.revision = None
  BY <1>1, CacheTyped DEF Visits
<1>3. ClientOK' /\ ServerOK' /\ Watching' /\ CatalogOK' /\ CacheOK'
  BY <1>2, Framed, CatalogKept, CacheUnversioned
<1>4. /\ task' \in Task
      /\ task'.todo = task.todo \ {p} /\ task'.found = answers /\ task'.files = task.files
      /\ task'.phase = task.phase /\ task'.previous = task.previous /\ task'.reuse = task.reuse
      /\ task'.revision = task.revision /\ task'.events = task.events
      /\ task'.folders = task.folders /\ task'.open = task.open /\ task'.subject = task.subject
      /\ task'.due = task.due
  BY <1>1 DEF Visits, Task
<1>5. /\ Lost(task.revision)' /\ (Follows(task.revision)' <=> Follows(task.revision))
      /\ epoch' = epoch /\ disk' = disk /\ journal' = journal
      /\ folders' = folders /\ open' = open /\ \A q : Due(q)' = Due(q)
  BY <1>1, <1>4, Framed DEF TaskOK, Lost, Follows
<1>6. TaskFollows'
  BY <1>1, <1>4, <1>5 DEF TaskOK, TaskFollows
<1>7. ASSUME NEW q \in DOMAIN entries \ Subjects
      PROVE  /\ q \in task'.files
             /\ q \notin task'.todo \/ Reusable(q)' => task'.due[q] <= entries[q]
  <2>1. CASE q = p /\ p \in task.files /\ entries[p] >= task.due[p]
    <3>1. q \in Paths /\ entries[q] \in Nat /\ task.due[q] \in Nat
      BY <1>1, <1>7, TableHas DEF Visits, Task
    <3> QED  BY <1>4, <2>1, <3>1
  <2>2. CASE q # p /\ q \in DOMAIN cache.entries /\ entries[q] = cache.entries[q]
    <3>1. Reusable(q)' => Reusable(q)
      BY <1>4, <2>2 DEF Reusable, Entries
    <3>2. /\ q \in task.files
          /\ q \notin task.todo \/ Reusable(q) => task.due[q] <= cache.entries[q]
      BY <1>1, <1>7, <2>2 DEF TaskOK, Scan
    <3> QED  BY <1>4, <2>2, <3>1, <3>2
  <2> QED  BY <1>7, <2>1, <2>2 DEF Visits
<1>8. Scan'
  <2>1. catalog' = catalog
    OBVIOUS
  <2> QED  BY <1>1, <1>2, <1>4, <1>5, <1>7, <2>1 DEF TaskOK, Scan
<1>9. BeforeScan' /\ SummariesAreCurrent'
  BY <1>4 DEF BeforeScan, SummariesAreCurrent, Visits
<1>10. TaskOK'
  BY <1>1, <1>4, <1>5, <1>6, <1>8, <1>9 DEF TaskOK
<1> QED  BY <1>3, <1>10 DEF IInv

(* What each way to visit a file answers and keeps.                        *)
LEMMA Visiting ==
    ASSUME IInv, Visit
    PROVE  IInv'
<1> DEFINE p == Visited
           Answers(c) == Insert(task.found, {p}, c)
<1>0. /\ UNCHANGED <<clientVars, serverVars, catalog>>
      /\ task # None /\ task.phase = "scan" /\ task.todo # {}
      /\ UseSummary(p) \/ ReadFile(p) \/ FileIsGone(p) \/ VisitSubject(p)
  BY DEF Visit
<1>1. TaskOK /\ CacheOK /\ ClientOK /\ task \in Task /\ task.found \in Tables
  BY <1>0 DEF IInv, TaskOK, Task
<1>2. /\ p \in task.todo /\ p \in Paths
      /\ p # task.subject => p \in task.files
  <2>1. task.todo \subseteq task.files \cup {task.subject}
    BY <1>0, <1>1 DEF TaskOK, Scan
  <2> QED  BY <1>0, <1>1, <2>1, NextFile
<1>3. /\ Content(p) \in Nat /\ Content(p) >= task.due[p]
      /\ \A q \in Paths : task.due[q] \in Nat
  BY <1>0, <1>1, <1>2 DEF Content, ClientOK, TaskOK, Task
<1>4. cache.entries \in Tables /\ cache = [cache EXCEPT !.entries = cache.entries]
  BY <1>1, CacheTyped
<1> HIDE DEF p
<1>5. \A q \in DOMAIN task.found \ Subjects : task.found[q] >= task.due[q]
  BY <1>0, <1>1 DEF TaskOK, SummariesAreCurrent
<1>6. ASSUME NEW c \in Nat, p \in Subjects \/ c >= task.due[p]
      PROVE  /\ Answers(c) \in Tables
             /\ \A q \in DOMAIN Answers(c) \ Subjects : Answers(c)[q] >= task.due[q]
  <2>1. Answers(c) \in Tables /\ DOMAIN Answers(c) = {p} \cup DOMAIN task.found
    BY <1>1, <1>2, TableInsert
  <2>2. Answers(c)[p] = c
    BY Inserted
  <2>3. \A q \in DOMAIN task.found : q # p => Answers(c)[q] = task.found[q]
    BY Untouched
  <2> HIDE DEF Answers
  <2> QED  BY <1>5, <1>6, <2>1, <2>2, <2>3
<1>7. CASE UseSummary(p)
  <2>1. /\ Reusable(p) /\ p \in DOMAIN cache.entries /\ cache' = cache /\ p # task.subject
        /\ task' = [task EXCEPT !.todo = @ \ {p}, !.found = Answers(cache.entries[p])]
    BY <1>7 DEF UseSummary, Answer, Reusable, Entries
  <2>2. cache.entries[p] \in Nat
    BY <1>4, <2>1, TableHas
  <2>3. p \in Subjects \/ cache.entries[p] >= task.due[p]
    <3>1. p \in Subjects \/ task.due[p] <= cache.entries[p]
      BY <1>0, <1>1, <2>1 DEF TaskOK, Scan
    <3> QED  BY <1>2, <1>3, <2>2, <3>1
  <2> DEFINE answers == Answers(cache.entries[p])
  <2>4. answers \in Tables /\ \A q \in DOMAIN answers \ Subjects : answers[q] >= task.due[q]
    BY <1>6, <2>2, <2>3
  <2>5. cache' = [cache EXCEPT !.entries = cache.entries]
    BY <1>4, <2>1
  <2>6. \A q \in DOMAIN cache.entries \ Subjects :
           \/ q = p /\ p \in task.files /\ cache.entries[p] >= task.due[p]
           \/ q # p /\ q \in DOMAIN cache.entries
    BY <1>2, <2>1, <2>3
  <2>7. task' = [task EXCEPT !.todo = @ \ {p}, !.found = answers]
    BY <2>1
  <2> HIDE DEF answers
  <2>8. Visits(p, answers, cache.entries)
    BY <1>4, <2>4, <2>5, <2>6, <2>7 DEF Visits
  <2> QED  BY <1>0, <2>8, FileVisited
<1>8. CASE ReadFile(p)
  <2>1. /\ p \in task.files
        /\ task' = [task EXCEPT !.todo = @ \ {p}, !.found = Answers(Content(p))]
    BY <1>2, <1>8 DEF ReadFile, Answer
  <2> DEFINE answers == Answers(Content(p))
  <2>2. answers \in Tables /\ \A q \in DOMAIN answers \ Subjects : answers[q] >= task.due[q]
    BY <1>3, <1>6
  <2> HIDE DEF answers
  <2>3. PICK entries :
          /\ cache' = [cache EXCEPT !.entries = entries]
          /\ \/ entries = Insert(cache.entries, {p}, Content(p))
             \/ entries = Insert(NoEntries, {p}, Content(p))
             \/ entries = Restrict(cache.entries, DOMAIN cache.entries \ {p})
    BY <1>8 DEF ReadFile, SetEntries, Entries
  <2>4. /\ entries \in Tables
        /\ \A q \in DOMAIN entries :
             \/ q = p /\ entries[p] = Content(p)
             \/ q # p /\ q \in DOMAIN cache.entries /\ entries[q] = cache.entries[q]
    <3>1. CASE entries = Insert(cache.entries, {p}, Content(p))
      <4>1. entries \in Tables /\ DOMAIN entries = {p} \cup DOMAIN cache.entries
        BY <1>2, <1>3, <1>4, <3>1, TableInsert
      <4>2. entries[p] = Content(p)
        BY <3>1, Inserted
      <4>3. \A q \in DOMAIN cache.entries : q # p => entries[q] = cache.entries[q]
        BY <3>1, Untouched
      <4> QED  BY <4>1, <4>2, <4>3
    <3>2. CASE entries = Insert(NoEntries, {p}, Content(p))
      <4>1. entries \in Tables /\ DOMAIN entries = {p}
        <5>1. NoEntries \in Tables /\ DOMAIN NoEntries = {} /\ {p} \subseteq Paths
          BY <1>2, EmptyTable
        <5>2. entries \in Tables /\ DOMAIN entries = {p} \cup DOMAIN NoEntries
          BY <1>3, <3>2, <5>1, TableInsert
        <5> QED  BY <5>1, <5>2
      <4>2. entries[p] = Content(p)
        BY <3>2, Inserted
      <4> QED  BY <4>1, <4>2
    <3>3. CASE entries = Restrict(cache.entries, DOMAIN cache.entries \ {p})
      <4>1. DOMAIN cache.entries \ {p} \subseteq DOMAIN cache.entries
        OBVIOUS
      <4>2. /\ entries \in Tables /\ DOMAIN entries = DOMAIN cache.entries \ {p}
            /\ \A q \in DOMAIN cache.entries \ {p} : entries[q] = cache.entries[q]
        BY <1>4, <3>3, <4>1, TablePart
      <4> QED  BY <4>2
    <3> QED  BY <2>3, <3>1, <3>2, <3>3
  <2>5. Visits(p, answers, entries)
    BY <1>3, <2>1, <2>2, <2>3, <2>4 DEF Visits, answers
  <2> QED  BY <1>0, <2>5, FileVisited
<1>9. CASE FileIsGone(p)
  <2> DEFINE entries == Restrict(cache.entries, DOMAIN cache.entries \ {p})
  <2>1. /\ task' = [task EXCEPT !.todo = @ \ {p}] /\ cache' = [cache EXCEPT !.entries = entries]
    BY <1>9 DEF FileIsGone, SetEntries, Entries
  <2>2. task' = [task EXCEPT !.todo = @ \ {p}, !.found = task.found]
    BY <1>1, <2>1 DEF Task
  <2>3. DOMAIN cache.entries \ {p} \subseteq DOMAIN cache.entries
    OBVIOUS
  <2>4. /\ entries \in Tables /\ DOMAIN entries = DOMAIN cache.entries \ {p}
        /\ \A q \in DOMAIN cache.entries \ {p} : entries[q] = cache.entries[q]
    BY <1>4, <2>3, TablePart
  <2> HIDE DEF entries
  <2>5. Visits(p, task.found, entries)
    BY <1>1, <1>5, <2>1, <2>2, <2>4 DEF Visits
  <2> QED  BY <1>0, <2>5, FileVisited
<1>10. CASE VisitSubject(p)
  <2>1. /\ p = task.subject /\ cache' = cache
        /\ task' = [task EXCEPT !.todo = @ \ {p}, !.found = Answers(task.read)]
    BY <1>10 DEF VisitSubject, Answer
  <2>2. p \in Subjects /\ task.read \in Nat
    <3>1. task.subject \in Subjects \cup {None} /\ task.read \in Nat
      BY <1>1 DEF Task
    <3> QED  BY <1>2, <2>1, <3>1, PathsAssumption, NoneAssumption
  <2> DEFINE answers == Answers(task.read)
  <2>3. answers \in Tables /\ \A q \in DOMAIN answers \ Subjects : answers[q] >= task.due[q]
    BY <1>6, <2>2
  <2>4. task' = [task EXCEPT !.todo = @ \ {p}, !.found = answers]
    BY <2>1
  <2>5. cache' = [cache EXCEPT !.entries = cache.entries]
    BY <1>4, <2>1
  <2> HIDE DEF answers
  <2>6. Visits(p, answers, cache.entries)
    BY <1>4, <2>2, <2>3, <2>4, <2>5 DEF Visits
  <2> QED  BY <1>0, <2>6, FileVisited
<1> QED  BY <1>0, <1>7, <1>8, <1>9, <1>10

(* A complete scan: its revision is what its summaries are worth.          *)
LEMMA TaskFinished ==
    ASSUME IInv, FinishTask
    PROVE  IInv'
<1>1. /\ UNCHANGED <<clientVars, serverVars>> /\ catalog' = catalog /\ task' = None
      /\ task # None /\ task.phase = "scan" /\ task.todo = {}
      /\ cache' = [cache EXCEPT !.revision = task.revision]
  BY DEF FinishTask
<1>2. TaskOK /\ CacheOK /\ ClientOK /\ ServerOK /\ task \in Task
  BY <1>1 DEF IInv, TaskOK
<1>3. /\ cache' = [revision |-> task.revision, entries |-> cache.entries]
      /\ cache.entries \in Tables /\ task.revision \in Revision
      /\ task.revision # None => task.revision <= epoch
      /\ Lost(task.revision)
      /\ \A p \in DOMAIN cache.entries : p \in Paths /\ cache.entries[p] \in Nat
  BY <1>1, <1>2, CacheTyped DEF TaskOK, Task
<1>4. /\ cache'.revision = task.revision /\ cache'.entries = cache.entries
      /\ cache' \in [revision : Revision, entries : Tables]
  BY <1>3
<1>5. \A p \in DOMAIN cache.entries \ Subjects :
        /\ p \in task.files /\ RootOf[p] \in task.folders
        /\ task.due[p] <= cache.entries[p]
  BY <1>1, <1>2 DEF TaskOK, Scan
<1>6. /\ epoch' = epoch /\ journal' = journal /\ folders' = folders /\ revision' = revision
      /\ \A p : Due(p)' = Due(p)
  BY <1>1, Framed
<1>7. CacheFollows'
  <2> SUFFICES ASSUME Follows(task.revision), NEW p \in DOMAIN cache.entries \ Subjects
               PROVE  /\ RootOf[p] \in folders
                      /\ p \notin ChangedPaths(journal, task.revision) => Due(p) <= cache.entries[p]
    BY <1>4, <1>6 DEF CacheFollows, Follows
  <2>1. /\ task.folders = folders
        /\ RootOf[p] \in folders /\ p \notin ChangedPaths(journal, task.revision)
             => Due(p) <= task.due[p]
    BY <1>1, <1>2, <1>3 DEF TaskOK, TaskFollows
  <2>2. Due(p) \in Nat /\ task.due[p] \in Nat /\ cache.entries[p] \in Nat
    BY <1>2, <1>3, DueTyped DEF Task, ClientOK
  <2> QED  BY <1>5, <2>1, <2>2
<1>8. CacheInCatalog'
  <2>1. task.revision # None => catalog'.files = task.files
    BY <1>1, <1>2 DEF TaskOK, Scan
  <2> QED  BY <1>4, <1>5, <2>1 DEF CacheInCatalog
<1>9. CacheOK'
  BY <1>3, <1>4, <1>6, <1>7, <1>8 DEF CacheOK, Lost
<1> QED  BY <1>1, <1>9, Framed, CatalogKept, TaskOver DEF IInv

-----------------------------------------------------------------------------
(* The theorems                                                            *)

(* The invariant is inductive.                                             *)
LEMMA InitIInv == Init => IInv
<1> SUFFICES ASSUME Init  PROVE IInv
  OBVIOUS
<1>1. /\ disk \in [Paths -> {<<TRUE>>, <<FALSE>>}] /\ watched = {} /\ inbox = <<>>
      /\ epoch = 0 /\ journal = Reset(0) /\ revision = None /\ folders \in SUBSET Roots
      /\ open = {} /\ task = None /\ catalog = None /\ cache = EmptyCache
  BY DEF Init
<1>2. ClientOK
  <2>1. /\ \A p \in Paths : disk[p] = <<TRUE>> \/ disk[p] = <<FALSE>>
        /\ disk = [p \in Paths |-> disk[p]]
    BY <1>1
  <2>2. <<TRUE>> \in Seq(BOOLEAN) /\ <<FALSE>> \in Seq(BOOLEAN)
        /\ Len(<<TRUE>>) = 1 /\ Len(<<FALSE>>) = 1
    OBVIOUS
  <2>3. \A p \in Paths : disk[p] \in Seq(BOOLEAN) /\ Len(disk[p]) = 1
    BY <2>1, <2>2
  <2>4. disk \in [Paths -> Seq(BOOLEAN)]
    BY <2>1, <2>3
  <2>5. inbox \in Seq(Message) /\ DOMAIN inbox = {}
    BY <1>1
  <2> QED  BY <1>1, <2>3, <2>4, <2>5 DEF ClientOK
<1>3. ServerOK
  <2>1. JournalAt(journal, 0)
    BY <1>1, EmptyTable DEF Reset, JournalAt, Journals
  <2> QED  BY <1>1, <2>1 DEF ServerOK
<1>4. Watching
  BY <1>1 DEF Watching
<1>5. CatalogOK
  BY <1>1 DEF CatalogOK, CatalogFollows
<1>6. CacheOK
  BY <1>1, EmptyTable DEF CacheOK, EmptyCache, Revision, Lost, CacheFollows, Follows, CacheInCatalog
<1>7. TaskOK
  BY <1>1 DEF TaskOK, TaskFollows, BeforeScan, Scan, SummariesAreCurrent
<1> QED  BY <1>2, <1>3, <1>4, <1>5, <1>6, <1>7 DEF IInv

LEMMA NextIInv == IInv /\ [Next]_vars => IInv'
<1> SUFFICES ASSUME IInv, [Next]_vars  PROVE IInv'
  OBVIOUS
<1>0. ClientOK /\ ServerOK /\ Watching
  BY DEF IInv
<1>1. CASE Environment
  <2>1. UNCHANGED workerVars
    BY <1>1 DEF Environment, ChangeFile, Watch
  <2>2. ClientOK' /\ ServerOK' /\ Watching' /\ Evolution
    BY <1>0, <1>1, FileChanged, WatchChanged DEF Environment
  <2> QED  BY <2>1, <2>2, Evolved
<1>2. CASE Server
  <2>1. UNCHANGED workerVars
    BY <1>2 DEF Server, DidOpenOrClose, DidRenameFiles, DidChangeWorkspaceFolders,
                DidChangeWatchedFiles, WatchResponse
  <2>2. ASSUME NEW p \in Paths, DidOpenOrClose(p)
        PROVE  ClientOK' /\ ServerOK' /\ Watching' /\ Evolution
    <3>1. open' \subseteq Paths
      BY <1>0, <2>2 DEF DidOpenOrClose, ServerOK
    <3> QED  BY <1>0, <2>2, <3>1, RevisionAdvanced DEF DidOpenOrClose
  <2>3. CASE DidRenameFiles
    <3>1. open' \subseteq Paths
      BY <1>0, <2>3 DEF DidRenameFiles, ServerOK
    <3>2. ClientOK' /\ ServerOK' /\ Watching' /\ Evolution
      BY <1>0, <2>3, <3>1, RevisionAdvanced DEF DidRenameFiles
    <3> QED  BY <2>1, <3>2, Evolved
  <2>4. (ClientOK' /\ ServerOK' /\ Watching' /\ Evolution) \/ DidRenameFiles
    BY <1>0, <1>2, <2>2, FoldersChanged, EventsRecorded, ResponseRead DEF Server
  <2> QED  BY <2>1, <2>3, <2>4, Evolved
<1>3. CASE Worker
  BY <1>3, TaskStarted, SubjectResolved, CatalogReused, CatalogDiscovered, DiscoveryFailed,
     Visiting, TaskFinished, GivenUp, BufferSearched DEF Worker
<1>4. CASE UNCHANGED vars
  <2>1. UNCHANGED <<clientVars, serverVars>> /\ UNCHANGED workerVars
    BY <1>4 DEF vars
  <2>2. Evolution
    <3>1. UNCHANGED disk /\ epoch' = epoch /\ folders' = folders /\ open' = open /\ journal' = journal
          /\ epoch \in Nat
      BY <1>0, <2>1, Framed DEF ServerOK
    <3> QED  BY <1>0, <2>1, <3>1, DiskSame, Framed DEF Evolution
  <2> QED  BY <2>1, <2>2, Framed, Evolved
<1> QED  BY <1>1, <1>2, <1>3, <1>4 DEF Next

(* The invariant holds in every behaviour.                                *)
LEMMA Consistent == Spec => []IInv
BY InitIInv, NextIInv, PTL DEF Spec

(* SummariesAreCurrent (reference_index.rs: "Callers validate file-event   *)
(* revisions or current bytes before reusing"): what a scan says of a file *)
(* is about a content no older than what the client had reported when the  *)
(* query began, whether or not the file was read for it.                   *)
THEOREM AnswersAreCurrent == Spec => []SummariesAreCurrent
<1>1. IInv => SummariesAreCurrent
  BY DEF IInv, TaskOK
<1> QED  BY <1>1, Consistent, PTL

(* InventoryIsCurrent (Catalog::sources): the files a scan visits are      *)
(* those that were there at an instant not before that, although the       *)
(* directories are seldom walked again.                                    *)
THEOREM InventoryStaysCurrent == Spec => []InventoryIsCurrent
<1>1. IInv => InventoryIsCurrent
  BY DEF IInv, TaskOK, Scan, FoundIn, InventoryIsCurrent, Content
<1> QED  BY <1>1, Consistent, PTL

-----------------------------------------------------------------------------
(* The steps of FileWatch                                                  *)

Promised(q) == \E i \in DOMAIN q : q[i] = Accepted

LEMMA WatchSteps == IInv /\ [Next]_vars => [Watches!Next]_Watches!vars
<1> SUFFICES ASSUME IInv, [Next]_vars  PROVE [Watches!Next]_Watches!vars
  OBVIOUS
<1>0. /\ ClientOK /\ ServerOK /\ Watching
      /\ inbox \in Seq(Message) /\ Len(inbox) \in Nat /\ DOMAIN inbox = 1..Len(inbox)
  BY DEF IInv, ClientOK
<1>1. ASSUME UNCHANGED <<folders, watched>>, Promised(inbox') <=> Promised(inbox),
             revision' # None <=> revision # None
      PROVE  [Watches!Next]_Watches!vars
  BY <1>1 DEF Watches!vars, Promised
<1>2. ASSUME NEW p \in Paths, NEW exists \in BOOLEAN, ChangeFile(p, exists)
      PROVE  [Watches!Next]_Watches!vars
  <2>1. UNCHANGED <<folders, watched, revision>>
    BY <1>2 DEF ChangeFile, serverVars
  <2>2. \/ inbox' = inbox
        \/ \E kind \in {"created", "changed", "deleted"} :
             inbox' = Append(inbox, Event(p, kind, Content(p) + 1))
    BY <1>2 DEF ChangeFile
  <2>3. ASSUME NEW kind \in {"created", "changed", "deleted"},
               inbox' = Append(inbox, Event(p, kind, Content(p) + 1))
        PROVE  Promised(inbox') <=> Promised(inbox)
    <3>1. Event(p, kind, Content(p) + 1) \in Message /\ Event(p, kind, Content(p) + 1) # Accepted
      BY <1>0, Messages DEF Content, ClientOK
    <3>2. /\ DOMAIN inbox' = 1..(Len(inbox) + 1)
          /\ \A i \in 1..Len(inbox) : inbox'[i] = inbox[i]
          /\ inbox'[Len(inbox) + 1] # Accepted
      BY <1>0, <2>3, <3>1
    <3> QED  BY <1>0, <3>2 DEF Promised
  <2> QED  BY <1>1, <2>1, <2>2, <2>3
<1>3. ASSUME NEW roots \in SUBSET Roots, Watch(roots)
      PROVE  [Watches!Next]_Watches!vars
  BY <1>3 DEF Watch, Watches!Next
<1>4. ASSUME AdvanceFileRevision(None), UNCHANGED <<clientVars, folders>>
      PROVE  [Watches!Next]_Watches!vars
  <2>1. revision' # None <=> revision # None
    BY <1>0, <1>4, NoneAssumption DEF AdvanceFileRevision, ServerOK
  <2> QED  BY <1>1, <1>4, <2>1 DEF clientVars
<1>5. ASSUME NEW roots \in SUBSET Roots, DidChangeWorkspaceFolders(roots)
      PROVE  [Watches!Next]_Watches!vars
  <2>1. /\ folders' = roots /\ revision' = None /\ watched' = watched
        /\ inbox' = [i \in DOMAIN inbox |-> IF inbox[i] = Accepted THEN Obsolete ELSE inbox[i]]
    BY <1>5 DEF DidChangeWorkspaceFolders
  <2>2. ~ \E i \in DOMAIN inbox' : inbox'[i] = Accepted
    BY <2>1, Messages
  <2>3. Watches!ChangeFolders(roots)
    BY <2>1, <2>2 DEF Watches!ChangeFolders
  <2> QED  BY <2>3 DEF Watches!Next
<1>6. ASSUME NEW n \in DOMAIN inbox, DidChangeWatchedFiles(n)
      PROVE  [Watches!Next]_Watches!vars
  <2>1. /\ \A i \in 1..n : IsEvent(inbox[i])
        /\ revision' = IF revision = None THEN None ELSE epoch + 1
        /\ inbox' = SubSeq(inbox, n + 1, Len(inbox))
        /\ UNCHANGED <<watched, folders>>
    BY <1>6 DEF DidChangeWatchedFiles, AdvanceFileRevision
  <2>2. revision' # None <=> revision # None
    BY <1>0, <2>1, NoneAssumption DEF ServerOK
  <2> DEFINE m == Len(inbox) - n
  <2>3. n \in 1..Len(inbox) /\ m \in Nat
    BY <1>0
  <2>4. DOMAIN inbox' = 1..m /\ \A i \in 1..m : inbox'[i] = inbox[i + n]
    BY <1>0, <2>1, <2>3
  <2>5. \A i \in DOMAIN inbox : IsEvent(inbox[i]) \/ (i - n \in 1..m /\ (i - n) + n = i)
    BY <1>0, <2>1, <2>3
  <2>6. \A i \in 1..m : i + n \in DOMAIN inbox
    BY <1>0, <2>3
  <2>7. Promised(inbox') <=> Promised(inbox)
    BY <2>4, <2>5, <2>6, Messages DEF Promised
  <2> QED  BY <1>1, <2>1, <2>2, <2>7
<1>7. CASE WatchResponse
  <2>1. /\ Len(inbox) >= 1 /\ Head(inbox) = inbox[1]
        /\ inbox' = Tail(inbox)
        /\ revision' = IF inbox[1] = Accepted THEN epoch ELSE revision
        /\ UNCHANGED <<watched, folders>>
    BY <1>0, <1>7 DEF WatchResponse
  <2> DEFINE m == Len(inbox) - 1
  <2>2. DOMAIN inbox' = 1..m /\ \A i \in 1..m : inbox'[i] = inbox[i + 1]
    BY <1>0, <2>1
  <2>3. /\ \A i \in 1..m : i + 1 \in DOMAIN inbox /\ i + 1 # 1
        /\ \A i \in DOMAIN inbox : i = 1 \/ (i - 1 \in 1..m /\ (i - 1) + 1 = i)
        /\ 1 \in DOMAIN inbox
    BY <1>0, <2>1
  <2>4. CASE inbox[1] = Accepted
    <3>1. ~ \E i \in DOMAIN inbox' : inbox'[i] = Accepted
      BY <1>0, <2>2, <2>3, <2>4 DEF Watching
    <3>2. \E i \in DOMAIN inbox : inbox[i] = Accepted
      BY <2>3, <2>4
    <3>3. revision' # None
      BY <1>0, <2>1, <2>4, NoneAssumption DEF ServerOK
    <3>4. Watches!Trust
      BY <2>1, <3>1, <3>2, <3>3 DEF Watches!Trust
    <3> QED  BY <3>4 DEF Watches!Next
  <2>5. CASE inbox[1] # Accepted
    <3>1. Promised(inbox') <=> Promised(inbox)
      <4>1. ASSUME NEW i \in 1..m, inbox'[i] = Accepted  PROVE Promised(inbox)
        BY <2>2, <2>3, <4>1 DEF Promised
      <4>2. ASSUME NEW i \in DOMAIN inbox, inbox[i] = Accepted  PROVE Promised(inbox')
        <5>1. i - 1 \in 1..m /\ inbox'[i - 1] = inbox[(i - 1) + 1] /\ (i - 1) + 1 = i
          BY <2>2, <2>3, <2>5, <4>2
        <5> QED  BY <2>2, <4>2, <5>1 DEF Promised
      <4> HIDE DEF m
      <4> QED  BY <2>2, <4>1, <4>2 DEF Promised
    <3> QED  BY <1>1, <2>1, <2>5, <3>1
  <2> QED  BY <2>4, <2>5
<1>8. CASE Worker \/ UNCHANGED vars
  <2>1. UNCHANGED <<folders, watched, inbox, revision>>
    BY <1>8 DEF Worker, StartTask, ResolveSubject, ReuseCatalog, Discover, DiscoveryFails, Visit,
                FinishTask, GiveUp, SearchOneBuffer, vars, clientVars, serverVars
  <2> QED  BY <1>1, <2>1
<1>9. CASE Environment
  BY <1>2, <1>3, <1>9 DEF Environment
<1>10. CASE Server
  <2>1. ASSUME NEW p \in Paths, DidOpenOrClose(p)  PROVE [Watches!Next]_Watches!vars
    BY <1>4, <2>1 DEF DidOpenOrClose
  <2>2. CASE DidRenameFiles
    BY <1>4, <2>2 DEF DidRenameFiles
  <2> QED  BY <1>5, <1>6, <1>7, <1>10, <2>1, <2>2 DEF Server
<1> QED  BY <1>8, <1>9, <1>10 DEF Next

(* The promise of FileWatch is all that the reuse of files is built on:    *)
(* among file events and advancing revisions, folders that change void it, *)
(* and nothing but an acceptance that is not void yet makes the server     *)
(* trust events (watch_generation, watch_response, advance_file_revision). *)
THEOREM KeepsToFileWatch == Spec => Watches!Spec
<1>1. Init => Watches!Init
  BY DEF Init, Watches!Init
<1> QED  BY <1>1, WatchSteps, Consistent, PTL DEF Spec, Watches!Spec

=============================================================================
