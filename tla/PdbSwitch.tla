----------------------------- MODULE PdbSwitch -----------------------------
(***************************************************************************)
(* Which database of each cluster is active: the configuration in netconf,   *)
(* the copy of it that PdbSwitchJob keeps in memory and changes on request,  *)
(* and what the main loop has switched to.                                   *)
(*                                                                          *)
(* There is one job for all requests, each with a thread of its own, and no  *)
(* lock.  The copy is read from netconf when the job is made and not again:  *)
(* it is changed first, one cluster after another, and then saved as a       *)
(* whole, and a save that fails is not undone in it.                         *)
(***************************************************************************)
EXTENDS Naturals, FiniteSets, Sequences

CONSTANTS
    Clusters,   \* the clusters that names of databases speak of
    InFile,     \* those of the PDB configuration file
    Names,      \* names of databases
    First,      \* the first database of each cluster in the file
    Before,     \* what netconf may hold at first: configurations
    Requests,   \* the requests to switch
    Asks,       \* the list of each: databases and the clusters they are of
    Edits,      \* what an operator may set
    Relinked,   \* clusters that an insertion into the copy links anew: those of
                \* its bucket, or all when the table grows
    None,       \* a cluster that is not there
    Torn        \* a mixture of two names

ASSUME SwitchAssumption ==
    /\ InFile \subseteq Clusters
    /\ First \in [InFile -> Names]
    /\ Before \subseteq [Clusters -> Names \cup {None}]
    /\ Asks \in [Requests -> Seq([cluster : Clusters, name : Names])]
    /\ Edits \subseteq [cluster : Clusters, name : Names]
    /\ Relinked \subseteq Clusters
    /\ None # Torn /\ {None, Torn} \cap Names = {}

VARIABLES
    stored,     \* netconf: the active database of each cluster
    mem,        \* NetconfPdbInfo::m_, of the job
    active,     \* ConnectionManager: what has been switched to
    changed,    \* netconfPDBActive.IsChanged() of the main loop
    job,        \* where the thread of each request is
    entry,      \* the entry of its list that it is at in Reflect
    strayed     \* history: clusters whose copy has been missed by a save, or
                \* whose configuration by the copy

switch == <<stored, mem, active, changed, job, entry, strayed>>

Values == Names \cup {None, Torn}
Nothing == [c \in Clusters |-> None]

SwitchInit ==
    /\ stored \in Before
    /\ mem = Nothing /\ active = Nothing /\ changed = FALSE
    /\ job = [r \in Requests |-> "none"] /\ entry = [r \in Requests |-> 0]
    /\ strayed = {}

SwitchType ==
    /\ stored \in [Clusters -> Values]
    /\ mem \in [Clusters -> Values]
    /\ active \in [Clusters -> Values]
    /\ changed \in BOOLEAN
    /\ job \in [Requests -> {"none", "come", "assign", "insert", "save", "over"}]
    /\ entry \in [Requests -> Nat]
    /\ \A r \in Requests :
         /\ entry[r] <= Len(Asks[r])
         /\ job[r] \in {"assign", "insert"} => entry[r] > 0
    /\ strayed \subseteq Clusters

Goto(r, where) == job' = [job EXCEPT ![r] = where]

-----------------------------------------------------------------------------
\* The configuration is edited by an operator.
Edit ==
    /\ \E e \in Edits :
          /\ stored' = [stored EXCEPT ![e.cluster] = e.name]
          /\ strayed' = strayed \cup {e.cluster}
    /\ changed' = TRUE
    /\ UNCHANGED <<mem, active, job, entry>>

\* LoadConfig and SwitchActiveDB.
SwitchActive ==
    /\ active' = stored /\ changed' = FALSE
    /\ UNCHANGED <<stored, mem, job, entry, strayed>>

\* NetconfPdbInfo::Load.
LoadInfo ==
    /\ mem' = stored /\ strayed' = {}
    /\ UNCHANGED <<stored, active, changed, job, entry>>

\* The job is destroyed.
CopyGone ==
    /\ mem' = Nothing /\ strayed' = {}
    /\ UNCHANGED <<stored, active, changed, job, entry>>

\* The process is gone, and what it had in memory.
SwitchGone ==
    /\ mem' = Nothing /\ active' = Nothing /\ changed' = FALSE /\ strayed' = {}
    /\ job' = [r \in Requests |-> "none"] /\ entry' = [r \in Requests |-> 0]
    /\ UNCHANGED stored

\* SaveConfig(m_): the configuration is what the copy says.
Saved(m) == [c \in Clusters |-> IF m[c] = None THEN stored[c] ELSE m[c]]

\* PdbConsistInfo::Difference: the clusters of the file that the copy lacks.
Missing == {c \in InFile : mem[c] = None}

\* NetconfPdbInfo::AppendInfo: they get their first database.
AppendInfo ==
    /\ mem' = [c \in Clusters |-> IF c \in Missing THEN First[c] ELSE mem[c]]
    /\ IF Missing = {} THEN UNCHANGED <<stored, changed, strayed>>
       ELSE stored' = Saved(mem') /\ changed' = TRUE /\ strayed' = {}
    /\ UNCHANGED <<active, job, entry>>

-----------------------------------------------------------------------------
\* The other requests that are writing the database of the cluster, and those
\* that are putting a cluster into the copy.
Crossing(r, c) ==
    {q \in Requests \ {r} : job[q] = "assign" /\ Asks[q][entry[q]].cluster = c}
Inserting(r) == {q \in Requests \ {r} : job[q] = "insert"}

\* What may get lost, or be overlooked, when a thread is in the map while another
\* one inserts.
Losable(r) == IF Inserting(r) = {} THEN {} ELSE Relinked

\* A request that names nothing, or whose body says nothing that can be read.
NothingAsked(r) ==
    /\ job[r] = "come"
    /\ Goto(r, "over")
    /\ UNCHANGED <<stored, mem, active, changed, entry, strayed>>

\* Reflect goes on to the next entry of the list.
NextEntry(r) ==
    /\ job[r] \in {"come", "assign", "insert"}
    /\ entry[r] < Len(Asks[r])
    /\ entry' = [entry EXCEPT ![r] = @ + 1]
    /\ UNCHANGED <<stored, active, changed, strayed>>

\* Variation: every cluster of the copy gets the database.
AssignAll(r) ==
    /\ NextEntry(r)
    /\ Goto(r, "assign")
    /\ LET e == Asks[r][entry'[r]]
       IN  /\ mem[e.cluster] # None
           /\ mem' = [c \in Clusters |-> IF mem[c] = None THEN None ELSE e.name]

\* The copy has the cluster.  Two threads that write one string leave the one, the
\* other or a mixture.
Assign(r) ==
    /\ NextEntry(r)
    /\ Goto(r, "assign")
    /\ LET e == Asks[r][entry'[r]]
       IN  /\ mem[e.cluster] # None
           /\ \E value \in {e.name} \cup (IF Crossing(r, e.cluster) = {} THEN {}
                                          ELSE {Torn, mem[e.cluster]}) :
                 mem' = [mem EXCEPT ![e.cluster] = value]

\* The copy has not got the cluster, or it is not found while another thread
\* inserts.  Two threads that insert into one unordered_map may lose what is in
\* it; worse ends the process.
Insert(r) ==
    /\ NextEntry(r)
    /\ Goto(r, "insert")
    /\ LET e == Asks[r][entry'[r]]
       IN  /\ mem[e.cluster] = None \/ e.cluster \in Losable(r)
           /\ \E lost \in SUBSET Losable(r),
                 value \in {e.name} \cup (IF Inserting(r) = {} THEN {} ELSE {mem[e.cluster]}) :
                 mem' = [c \in Clusters |-> IF c \in lost THEN None
                                           ELSE IF c = e.cluster THEN value ELSE mem[c]]

\* The end of the list.
EndReflect(r) ==
    /\ job[r] \in {"assign", "insert"}
    /\ entry[r] = Len(Asks[r])
    /\ Goto(r, "save") /\ entry' = [entry EXCEPT ![r] = 0]
    /\ UNCHANGED <<stored, mem, active, changed, strayed>>

\* SaveConfig, which reads the copy while other threads write it.
Save(r) ==
    /\ job[r] = "save"
    /\ Goto(r, "over")
    /\ \E torn \in SUBSET {c \in Clusters : Crossing(r, c) # {}}, lost \in SUBSET Losable(r) :
          /\ stored' = Saved([c \in Clusters |-> IF c \in lost THEN None
                                                 ELSE IF c \in torn THEN Torn ELSE mem[c]])
          /\ strayed' = torn \cup lost
    /\ changed' = TRUE
    /\ UNCHANGED <<mem, active, entry>>

\* SaveConfig fails: the copy stays as it is, and the request is answered 200.
SaveFails(r) ==
    /\ job[r] = "save"
    /\ Goto(r, "over")
    /\ strayed' = strayed \cup {c \in Clusters : mem[c] # stored[c]}
    /\ UNCHANGED <<stored, mem, active, changed, entry>>

JobStep(r) == NothingAsked(r) \/ Assign(r) \/ Insert(r) \/ EndReflect(r) \/ Save(r)

-----------------------------------------------------------------------------
\* A request names a database for a cluster.
Asked(r, c, n) == \E i \in DOMAIN Asks[r] : Asks[r][i].cluster = c /\ Asks[r][i].name = n

\* The requests under way that name one.
Askers(c) == {r \in Requests : /\ job[r] \in {"assign", "insert", "save"}
                               /\ \E i \in DOMAIN Asks[r] : Asks[r][i].cluster = c}

\* A save activates what it or another request under way has named, or a mixture
\* when another is under way, and leaves all other clusters as they are.  Only
\* what an earlier save has failed to store comes along, and what an operator has
\* changed since is taken back.
OnlyNamedChange ==
    [][\A r \in Requests : job[r] = "save" /\ job'[r] = "over" =>
          \A c \in Clusters \ strayed :
              \/ stored'[c] = stored[c]
              \/ \E q \in Askers(c) : Asked(q, c, stored'[c])
              \/ stored'[c] = Torn /\ Askers(c) \ {r} # {}]_switch
=============================================================================
