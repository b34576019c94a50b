-------------------------- MODULE EmsGWMain_proofs --------------------------
(***************************************************************************)
(* What EmsGWMain keeps true for any clusters, requests and workers: the     *)
(* types, that no request finds its job gone unless it came too late for the *)
(* queue that the server's destructor empties, and that a save activates     *)
(* nothing but what has been asked for.                                      *)
(***************************************************************************)
EXTENDS EmsGWMain, SequenceTheorems, TLAPS

\* The order of the workers as a sequence.
LEMMA FirstIsServer == /\ Len(Order) \in Nat \ {0, 1} /\ DOMAIN Order = 1..Len(Order)
                       /\ 1 \in DOMAIN Order /\ Order[1] = "server" /\ "server" \in Workers
                       /\ Order[2] = "pdbReporter" /\ "pdbReporter" \in Workers
                       /\ \A i \in DOMAIN Order : Order[i] \in Workers
<1>1. Len(Order) \in Nat /\ DOMAIN Order = 1..Len(Order)
  BY OrderAssumption, LenProperties
<1>2. 1 \in DOMAIN Order /\ 2 \in DOMAIN Order
  BY <1>1, OrderAssumption
<1> QED
  BY <1>1, <1>2, OrderAssumption DEF Workers

\* There is a worker.
LEMMA LenType == Len(Order) \in Nat \ {0, 1} /\ 2 \in 1..Len(Order)
  BY FirstIsServer

\* The list of a request, entry by entry.
LEMMA AsksType ==
    ASSUME NEW r \in Requests
    PROVE  /\ Len(Asks[r]) \in Nat /\ DOMAIN Asks[r] = 1..Len(Asks[r])
           /\ \A i \in 1..Len(Asks[r]) : Asks[r][i].cluster \in Clusters /\ Asks[r][i].name \in Names
<1>1. Asks[r] \in Seq([cluster : Clusters, name : Names])
  BY SwitchAssumption
<1>2. Len(Asks[r]) \in Nat /\ DOMAIN Asks[r] = 1..Len(Asks[r])
  BY <1>1, LenProperties
<1>3. \A i \in 1..Len(Asks[r]) : Asks[r][i] \in [cluster : Clusters, name : Names]
  BY <1>1, ElementOfSeq
<1> QED
  BY <1>2, <1>3

Places == {"none", "come", "assign", "insert", "save", "over"}

-----------------------------------------------------------------------------
\* The copy of the configuration holds what is stored, what a request under way
\* names, or what two of them have mixed; elsewhere it has strayed.
Follows(c) ==
    \/ mem[c] \in {None, stored[c]}
    \/ \E q \in Askers(c) : Asked(q, c, mem[c])
    \/ mem[c] = Torn /\ \E q1, q2 \in Askers(c) : q1 # q2

CopyFollows == \A c \in Clusters \ strayed : Follows(c)

\* A request comes to the next entry of its list: it is one of those under way
\* that name the cluster, and all others still are.
LEMMA NextAsks ==
    ASSUME SwitchType, NEW r \in Requests, NextEntry(r), Goto(r, "assign") \/ Goto(r, "insert")
    PROVE  /\ entry'[r] \in DOMAIN Asks[r] /\ entry' \in [Requests -> Nat]
           /\ \A q \in Requests \ {r} : entry'[q] = entry[q]
           /\ job' \in [Requests -> Places] /\ job'[r] \in {"assign", "insert"}
           /\ \A q \in Requests \ {r} : job'[q] = job[q]
           /\ \A c : Askers(c) \subseteq Askers(c)'
           /\ \A i \in DOMAIN Asks[r] : /\ r \in Askers(Asks[r][i].cluster)'
                                       /\ Asked(r, Asks[r][i].cluster, Asks[r][i].name)
<1>1. entry \in [Requests -> Nat] /\ job \in [Requests -> Places]
  BY DEF SwitchType, Places
<1>2. /\ entry' = [entry EXCEPT ![r] = @ + 1] /\ entry[r] < Len(Asks[r])
      /\ job[r] \in {"come", "assign", "insert"}
  BY DEF NextEntry
<1>3. /\ entry'[r] \in DOMAIN Asks[r] /\ entry' \in [Requests -> Nat]
      /\ \A q \in Requests \ {r} : entry'[q] = entry[q]
  <2>1. entry'[r] = entry[r] + 1 /\ entry[r] \in Nat /\ Len(Asks[r]) \in Nat
    BY <1>1, <1>2, AsksType
  <2>2. entry'[r] \in 1..Len(Asks[r])
    BY <2>1, <1>2
  <2> QED
    BY <1>1, <1>2, <2>2, AsksType
<1>4. /\ job' \in [Requests -> Places] /\ job'[r] \in {"assign", "insert"}
      /\ \A q \in Requests \ {r} : job'[q] = job[q]
  BY <1>1 DEF Goto, Places
<1>5. \A c : Askers(c) \subseteq Askers(c)'
  BY <1>4 DEF Askers
<1>6. ASSUME NEW i \in DOMAIN Asks[r]
      PROVE  /\ r \in Askers(Asks[r][i].cluster)'
             /\ Asked(r, Asks[r][i].cluster, Asks[r][i].name)
  BY <1>4 DEF Askers, Asked
<1> QED
  BY <1>3, <1>4, <1>5, <1>6

\* A request that writes one entry of its list into the copy.
LEMMA AssignFollows ==
    ASSUME SwitchType, CopyFollows, NEW r \in Requests, Assign(r)
    PROVE  CopyFollows'
<1> SUFFICES ASSUME NEW c \in Clusters \ strayed PROVE Follows(c)'
  BY DEF Assign, NextEntry, CopyFollows
<1>1. NextEntry(r) /\ Goto(r, "assign") /\ stored' = stored
  BY DEF Assign, NextEntry
<1>1a. PICK i \in DOMAIN Asks[r] : i = entry'[r]
  BY <1>1, NextAsks
<1> DEFINE e == Asks[r][i]
<1>2. /\ Askers(c) \subseteq Askers(c)' /\ r \in Askers(e.cluster)' /\ Asked(r, e.cluster, e.name)
      /\ e.cluster \in Clusters
  BY <1>1, NextAsks, AsksType
<1>3. PICK value \in {e.name} \cup (IF Crossing(r, e.cluster) = {} THEN {}
                                    ELSE {Torn, mem[e.cluster]}) :
         mem' = [mem EXCEPT ![e.cluster] = value]
  BY <1>1a DEF Assign
<1>4. CASE c # e.cluster
  <2>1. mem'[c] = mem[c]
    BY <1>3, <1>4 DEF SwitchType
  <2> QED
    BY <2>1, <1>1, <1>2 DEF Follows, CopyFollows
<1>5. CASE c = e.cluster
  <2>1. mem'[c] = value
    BY <1>3, <1>5 DEF SwitchType
  <2>2. CASE value = e.name
    <3>1. Asked(r, c, mem'[c]) /\ r \in Askers(c)'
      BY <2>1, <2>2, <1>2, <1>5
    <3> QED
      BY <3>1 DEF Follows, Asked
  <2>3. CASE value = mem[e.cluster]
    BY <2>1, <2>3, <1>1, <1>2, <1>5 DEF Follows, CopyFollows
  <2>4. CASE value = Torn /\ Crossing(r, e.cluster) # {}
    <3>1. PICK q \in Requests \ {r} : job[q] = "assign" /\ Asks[q][entry[q]].cluster = c
      BY <2>4, <1>5 DEF Crossing
    <3>2. entry[q] \in DOMAIN Asks[q]
      <4>1. entry[q] \in Nat /\ entry[q] > 0 /\ entry[q] <= Len(Asks[q]) /\ Len(Asks[q]) \in Nat
        BY <3>1, AsksType DEF SwitchType
      <4> QED
        BY <4>1, AsksType
    <3>3. q \in Askers(c)
      BY <3>1, <3>2 DEF Askers
    <3> QED
      BY <2>1, <2>4, <3>3, <1>2, <1>5 DEF Follows
  <2> QED
    BY <1>3, <2>2, <2>3, <2>4
<1> QED
  BY <1>4, <1>5

\* A request that puts a cluster into the copy.
LEMMA InsertFollows ==
    ASSUME SwitchType, CopyFollows, NEW r \in Requests, Insert(r)
    PROVE  CopyFollows'
<1> SUFFICES ASSUME NEW c \in Clusters \ strayed PROVE Follows(c)'
  BY DEF Insert, NextEntry, CopyFollows
<1>1. NextEntry(r) /\ Goto(r, "insert") /\ stored' = stored
  BY DEF Insert, NextEntry
<1>1a. PICK i \in DOMAIN Asks[r] : i = entry'[r]
  BY <1>1, NextAsks
<1> DEFINE e == Asks[r][i]
<1>2. /\ Askers(c) \subseteq Askers(c)' /\ r \in Askers(e.cluster)' /\ Asked(r, e.cluster, e.name)
  BY <1>1, NextAsks
<1>3. PICK lost \in SUBSET Losable(r),
           value \in {Asks[r][entry'[r]].name}
                       \cup (IF Inserting(r) = {} THEN {} ELSE {mem[Asks[r][entry'[r]].cluster]}) :
         mem' = [d \in Clusters |-> IF d \in lost THEN None
                                    ELSE IF d = Asks[r][entry'[r]].cluster THEN value ELSE mem[d]]
  BY DEF Insert
<1>4. mem'[c] \in {None, mem[c]} \/ (mem'[c] = e.name /\ c = e.cluster)
  BY <1>1a, <1>3
<1>5. CASE mem'[c] = e.name /\ c = e.cluster
  BY <1>2, <1>5 DEF Follows, Asked
<1>6. CASE mem'[c] \in {None, mem[c]}
  BY <1>1, <1>2, <1>6 DEF Follows, CopyFollows
<1> QED
  BY <1>4, <1>5, <1>6

\* What a save stores of the cluster.
LEMMA SavedCopy ==
    ASSUME NEW r \in Requests, Save(r)
    PROVE  \E torn \in SUBSET {c \in Clusters : Crossing(r, c) # {}}, lost \in SUBSET Losable(r) :
             /\ strayed' = torn \cup lost
             /\ \A c \in Clusters :
                  stored'[c] = IF c \in lost \/ (c \notin torn /\ mem[c] = None) THEN stored[c]
                               ELSE IF c \in torn THEN Torn ELSE mem[c]
<1>1. PICK torn \in SUBSET {c \in Clusters : Crossing(r, c) # {}}, lost \in SUBSET Losable(r) :
         /\ stored' = Saved([c \in Clusters |-> IF c \in lost THEN None
                                                ELSE IF c \in torn THEN Torn ELSE mem[c]])
         /\ strayed' = torn \cup lost
  BY DEF Save
<1>2. ASSUME NEW c \in Clusters
      PROVE  stored'[c] = IF c \in lost \/ (c \notin torn /\ mem[c] = None) THEN stored[c]
                          ELSE IF c \in torn THEN Torn ELSE mem[c]
  BY <1>1, SwitchAssumption DEF Saved
<1> QED
  BY <1>1, <1>2

\* A save stores the copy.
LEMMA SaveFollows ==
    ASSUME SwitchType, NEW r \in Requests, Save(r)
    PROVE  CopyFollows'
<1> SUFFICES ASSUME NEW c \in Clusters \ strayed' PROVE Follows(c)'
  BY DEF CopyFollows
<1>1. stored'[c] \in {stored[c], mem[c]} /\ (mem[c] # None => stored'[c] = mem[c])
  BY SavedCopy
<1> QED
  BY <1>1 DEF Save, Follows

\* The other steps of a request and of the configuration.
LEMMA OthersFollow ==
    ASSUME SwitchType, CopyFollows,
           \/ Edit \/ SwitchActive \/ LoadInfo \/ CopyGone
           \/ \E r \in Requests : NothingAsked(r) \/ EndReflect(r) \/ SaveFails(r)
           \/ UNCHANGED switch
    PROVE  CopyFollows'
<1>1. CASE Edit
  <2>1. PICK e \in Edits :
           stored' = [stored EXCEPT ![e.cluster] = e.name] /\ strayed' = strayed \cup {e.cluster}
    BY <1>1 DEF Edit
  <2>2. \A d \in Clusters \ strayed' : stored'[d] = stored[d]
    BY <2>1 DEF SwitchType
  <2>3. \A d : Askers(d)' = Askers(d)
    BY <1>1 DEF Edit, Askers
  <2> QED
    BY <1>1, <2>1, <2>2, <2>3 DEF Edit, CopyFollows, Follows, Asked
<1>2. CASE SwitchActive
  <2>1. \A d : Askers(d)' = Askers(d)
    BY <1>2 DEF SwitchActive, Askers
  <2> QED
    BY <1>2, <2>1 DEF SwitchActive, CopyFollows, Follows, Asked
<1>3. CASE LoadInfo \/ CopyGone
  BY <1>3 DEF LoadInfo, CopyGone, Nothing, CopyFollows, Follows
<1>4. ASSUME NEW r \in Requests, NothingAsked(r) PROVE CopyFollows'
  <2>1. \A d : Askers(d)' = Askers(d)
    BY <1>4 DEF NothingAsked, Goto, Askers, SwitchType
  <2> QED
    BY <1>4, <2>1 DEF NothingAsked, CopyFollows, Follows, Asked
<1>5. ASSUME NEW r \in Requests, EndReflect(r) PROVE CopyFollows'
  <2>1. \A d : Askers(d)' = Askers(d)
    BY <1>5 DEF EndReflect, Goto, Askers, SwitchType
  <2> QED
    BY <1>5, <2>1 DEF EndReflect, CopyFollows, Follows, Asked
<1>6. ASSUME NEW r \in Requests, SaveFails(r) PROVE CopyFollows'
  BY <1>6 DEF SaveFails, CopyFollows, Follows
<1>7. CASE UNCHANGED switch
  <2>1. \A d : Askers(d)' = Askers(d)
    BY <1>7 DEF switch, Askers
  <2> QED
    BY <1>7, <2>1 DEF switch, CopyFollows, Follows, Asked
<1> QED
  BY <1>1, <1>2, <1>3, <1>4, <1>5, <1>6, <1>7

\* AppendInfo stores the copy when it changes it.
LEMMA AppendFollows ==
    ASSUME SwitchType, CopyFollows, AppendInfo
    PROVE  CopyFollows'
<1>1. /\ mem' = [c \in Clusters |-> IF c \in Missing THEN First[c] ELSE mem[c]]
      /\ job' = job
  BY DEF AppendInfo
<1>2. CASE Missing = {}
  <2>1. \A c \in Clusters : mem'[c] = mem[c]
    BY <1>1, <1>2
  <2>2. \A d : Askers(d)' = Askers(d)
    BY <1>1 DEF Askers
  <2> QED
    BY <1>2, <2>1, <2>2 DEF AppendInfo, CopyFollows, Follows, Asked
<1>3. CASE Missing # {}
  <2>1. stored' = Saved(mem')
    BY <1>3 DEF AppendInfo
  <2>2. \A c \in Clusters : mem'[c] = None \/ stored'[c] = mem'[c]
    BY <2>1 DEF Saved
  <2> QED
    BY <2>2 DEF CopyFollows, Follows
<1> QED
  BY <1>2, <1>3

-----------------------------------------------------------------------------
\* A configuration has one of the values for each cluster.
LEMMA SavedType ==
    ASSUME SwitchType, NEW m \in [Clusters -> Values] PROVE Saved(m) \in [Clusters -> Values]
  BY DEF Saved, SwitchType

\* Where a request is in its list.
Listed ==
    /\ job \in [Requests -> Places]
    /\ entry \in [Requests -> Nat]
    /\ \A r \in Requests :
         /\ entry[r] <= Len(Asks[r])
         /\ job[r] \in {"assign", "insert"} => entry[r] > 0

\* A request goes somewhere without a look at its list, or is at no entry of it.
LEMMA GotoListed ==
    ASSUME SwitchType, NEW r \in Requests, NEW where \in Places \ {"assign", "insert"},
           Goto(r, where), UNCHANGED entry \/ entry' = [entry EXCEPT ![r] = 0]
    PROVE  Listed'
<1>1. job \in [Requests -> Places] /\ entry \in [Requests -> Nat]
  BY DEF SwitchType, Places
<1>2. job' \in [Requests -> Places] /\ entry' \in [Requests -> Nat]
  BY <1>1 DEF Goto
<1>3. ASSUME NEW q \in Requests
      PROVE  entry'[q] <= Len(Asks[q]) /\ (job'[q] \in {"assign", "insert"} => entry'[q] > 0)
  <2>1. Len(Asks[q]) \in Nat /\ entry[q] <= Len(Asks[q])
    BY AsksType DEF SwitchType
  <2>2. CASE q = r
    BY <1>1, <2>1, <2>2 DEF Goto
  <2>3. CASE q # r
    <3>1. entry'[q] = entry[q] /\ job'[q] = job[q]
      BY <1>1, <2>3 DEF Goto
    <3> QED
      BY <3>1, <2>1 DEF SwitchType
  <2> QED
    BY <2>2, <2>3
<1> QED
  BY <1>2, <1>3 DEF Listed

\* A request that comes to the next entry of its list.
LEMMA NextListed ==
    ASSUME SwitchType, NEW r \in Requests, NextEntry(r), Goto(r, "assign") \/ Goto(r, "insert")
    PROVE  Listed'
<1>1. /\ entry'[r] \in DOMAIN Asks[r] /\ entry' \in [Requests -> Nat]
      /\ \A q \in Requests \ {r} : entry'[q] = entry[q]
      /\ job' \in [Requests -> Places]
      /\ \A q \in Requests \ {r} : job'[q] = job[q]
  BY NextAsks
<1>2. /\ DOMAIN Asks[r] = 1..Len(Asks[r]) /\ Len(Asks[r]) \in Nat
      /\ entry'[r] > 0 /\ entry'[r] <= Len(Asks[r])
  BY <1>1, AsksType
<1>3. ASSUME NEW q \in Requests
      PROVE  entry'[q] <= Len(Asks[q]) /\ (job'[q] \in {"assign", "insert"} => entry'[q] > 0)
  BY <1>1, <1>2 DEF SwitchType
<1> QED
  BY <1>1, <1>3 DEF Listed

\* The steps of PdbSwitch keep its types.
LEMMA SwitchKeepsType ==
    ASSUME SwitchType,
           \/ Edit \/ SwitchActive \/ LoadInfo \/ AppendInfo \/ CopyGone \/ SwitchGone
           \/ \E r \in Requests : JobStep(r) \/ SaveFails(r)
           \/ UNCHANGED switch
    PROVE  SwitchType'
<1>1. CASE Edit
  <2>1. PICK e \in Edits :
           stored' = [stored EXCEPT ![e.cluster] = e.name] /\ strayed' = strayed \cup {e.cluster}
    BY <1>1 DEF Edit
  <2>2. e.cluster \in Clusters /\ e.name \in Names
    BY SwitchAssumption
  <2> QED
    BY <1>1, <2>1, <2>2 DEF Edit, SwitchType, Values
<1>2. CASE SwitchActive \/ LoadInfo \/ CopyGone
  BY <1>2 DEF SwitchActive, LoadInfo, CopyGone, Nothing, SwitchType, Values
<1>2a. CASE SwitchGone
  <2>1. \A r \in Requests : Len(Asks[r]) \in Nat
    BY AsksType
  <2>2. /\ job' = [r \in Requests |-> "none"] /\ entry' = [r \in Requests |-> 0]
        /\ mem' = Nothing /\ active' = Nothing /\ changed' = FALSE /\ strayed' = {}
        /\ stored' \in [Clusters -> Values]
    BY <1>2a DEF SwitchGone, SwitchType
  <2>3. mem' \in [Clusters -> Values] /\ active' \in [Clusters -> Values]
    BY <2>2 DEF Nothing, Values
  <2>4. Listed'
    BY <2>1, <2>2 DEF Listed, Places
  <2> QED
    BY <2>2, <2>3, <2>4 DEF SwitchType, Listed, Places
<1>3. CASE AppendInfo
  <2>0. \A c \in Missing : First[c] \in Names
    BY SwitchAssumption DEF Missing
  <2>1. mem' \in [Clusters -> Values]
    BY <1>3, <2>0 DEF AppendInfo, SwitchType, Values
  <2>2. Saved(mem') \in [Clusters -> Values]
    BY <2>1, SavedType
  <2>3. stored' \in [Clusters -> Values] /\ changed' \in BOOLEAN /\ strayed' \subseteq Clusters
    BY <1>3, <2>2 DEF AppendInfo, SwitchType
  <2> QED
    BY <1>3, <2>1, <2>3 DEF AppendInfo, SwitchType
<1>4. ASSUME NEW r \in Requests, NothingAsked(r) \/ EndReflect(r) \/ SaveFails(r) PROVE SwitchType'
  <2>1. Listed'
    BY <1>4, GotoListed DEF NothingAsked, EndReflect, SaveFails, Places
  <2> QED
    BY <1>4, <2>1 DEF NothingAsked, EndReflect, SaveFails, SwitchType, Listed, Places
<1>5. ASSUME NEW r \in Requests, Assign(r) PROVE SwitchType'
  <2>1. Listed'
    BY <1>5, NextListed DEF Assign
  <2>1a. PICK i \in DOMAIN Asks[r] : i = entry'[r]
    BY <1>5, NextAsks DEF Assign
  <2> DEFINE e == Asks[r][i]
  <2>1b. e.cluster \in Clusters /\ e.name \in Names
    BY AsksType
  <2>2. PICK value \in {e.name} \cup (IF Crossing(r, e.cluster) = {} THEN {}
                                      ELSE {Torn, mem[e.cluster]}) :
           mem' = [mem EXCEPT ![e.cluster] = value]
    BY <1>5, <2>1a DEF Assign
  <2>3. value \in Values
    BY <2>1b, <2>2 DEF SwitchType, Values
  <2>4. mem' \in [Clusters -> Values]
    BY <2>2, <2>3 DEF SwitchType
  <2> QED
    BY <1>5, <2>1, <2>4 DEF Assign, NextEntry, SwitchType, Listed, Places
<1>6. ASSUME NEW r \in Requests, Insert(r) PROVE SwitchType'
  <2>1. Listed'
    BY <1>6, NextListed DEF Insert
  <2>1a. PICK i \in DOMAIN Asks[r] : i = entry'[r]
    BY <1>6, NextAsks DEF Insert
  <2> DEFINE e == Asks[r][i]
  <2>1b. e.cluster \in Clusters /\ e.name \in Names
    BY AsksType
  <2>2. PICK lost \in SUBSET Losable(r),
             value \in {Asks[r][entry'[r]].name}
                         \cup (IF Inserting(r) = {} THEN {} ELSE {mem[Asks[r][entry'[r]].cluster]}) :
           mem' = [c \in Clusters |-> IF c \in lost THEN None
                                      ELSE IF c = Asks[r][entry'[r]].cluster THEN value ELSE mem[c]]
    BY <1>6 DEF Insert
  <2>3. value \in Values /\ None \in Values
    BY <2>1a, <2>1b, <2>2 DEF SwitchType, Values
  <2>4. mem' \in [Clusters -> Values]
    BY <2>2, <2>3 DEF SwitchType
  <2> QED
    BY <1>6, <2>1, <2>4 DEF Insert, NextEntry, SwitchType, Listed, Places
<1>7. ASSUME NEW r \in Requests, Save(r) PROVE SwitchType'
  <2>1. Listed'
    BY <1>7, GotoListed DEF Save, Places
  <2>2. PICK torn \in SUBSET {c \in Clusters : Crossing(r, c) # {}}, lost \in SUBSET Losable(r) :
           /\ stored' = Saved([c \in Clusters |-> IF c \in lost THEN None
                                                  ELSE IF c \in torn THEN Torn ELSE mem[c]])
           /\ strayed' = torn \cup lost
    BY <1>7 DEF Save
  <2>3. [c \in Clusters |-> IF c \in lost THEN None ELSE IF c \in torn THEN Torn ELSE mem[c]]
          \in [Clusters -> Values]
    BY DEF SwitchType, Values
  <2>4. stored' \in [Clusters -> Values]
    BY <2>2, <2>3, SavedType
  <2>5. Losable(r) \subseteq Clusters
    BY SwitchAssumption DEF Losable
  <2>6. strayed' \subseteq Clusters
    BY <2>2, <2>5
  <2> QED
    BY <1>7, <2>1, <2>4, <2>6 DEF Save, SwitchType, Listed, Places
<1>8. CASE UNCHANGED switch
  BY <1>8 DEF switch, SwitchType
<1> QED
  BY <1>1, <1>2, <1>2a, <1>3, <1>4, <1>5, <1>6, <1>7, <1>8 DEF JobStep

\* A request that ends or is taken from the queue, or one that comes.
LEMMA GotoType ==
    ASSUME SwitchType, NEW r \in Requests, NEW where \in {"none", "come", "over"}, Goto(r, where),
           UNCHANGED entry \/ entry' = [entry EXCEPT ![r] = 0],
           UNCHANGED <<stored, mem, active, changed, strayed>>
    PROVE  SwitchType'
<1>1. Listed'
  BY GotoListed DEF Places
<1> QED
  BY <1>1 DEF SwitchType, Listed, Places

\* Such a step leaves the copy as near to what is stored as it was, if the request
\* was not under way.
LEMMA GotoFollows ==
    ASSUME SwitchType, CopyFollows, NEW r \in Requests, job[r] \in {"none", "over"},
           NEW where \in {"none", "come"}, Goto(r, where),
           UNCHANGED <<stored, mem, active, changed, strayed>>
    PROVE  CopyFollows'
<1>1. \A d : Askers(d)' = Askers(d)
  BY DEF Goto, Askers, SwitchType
<1> QED
  BY <1>1 DEF CopyFollows, Follows, Asked

-----------------------------------------------------------------------------
\* Where the main thread is tells which workers there are and whether the jobs
\* are there.
Stages ==
    /\ pc \in {"init", "append", "run", "join"} => at >= 1
    /\ pc \in {"append", "empty", "members"} => at = 1
    /\ pc \in {"off", "config", "append"} \/ (pc = "init" /\ at = 1) => jobs = "none"
    /\ pc \in {"run", "turnOn"} \cup Loop \/ (pc = "init" /\ at > 1) => jobs = "live"
    /\ jobs = "none" => /\ thread = [w \in Workers |-> "none"] /\ ~accepting
                        /\ job = [r \in Requests |-> "none"]
    /\ made # {} => accepting
    /\ pc \in {"off", "config", "init", "append"} => thread = [w \in Workers |-> "none"]
    /\ pc = "members" => jobs = "gone"
    /\ jobs = "gone" => thread["server"] # "run"
    /\ accepting => thread["server"] = "run"
    /\ pc = "join" /\ at = 1 => \A r \in Requests \ late : job[r] \in {"none", "over"}
    /\ pc \in {"leave", "join", "empty"} => \A i \in DOMAIN Order : i > at => thread[Order[i]] # "run"
    /\ pc = "members" => \A i \in DOMAIN Order : thread[Order[i]] # "run"

\* From Load on, as long as there are jobs, the copy follows the configuration.
Stand == jobs = "live" \/ pc = "append" => CopyFollows

\* The inductive invariant.
IInv == TypeOK /\ Stages /\ NoneOutlives /\ Stand

USE DEF Loop, Places

\* A process that is off satisfies the invariant.
THEOREM InitIInv == Init => IInv
<1> SUFFICES ASSUME Init PROVE IInv
  OBVIOUS
<1>1. SwitchType
  <2>1. \A r \in Requests : Len(Asks[r]) \in Nat
    BY AsksType
  <2>2. /\ job = [r \in Requests |-> "none"] /\ entry = [r \in Requests |-> 0]
        /\ mem = Nothing /\ active = Nothing /\ changed = FALSE /\ strayed = {}
        /\ stored \in [Clusters -> Values]
    BY SwitchAssumption DEF Init, SwitchInit, Values
  <2>3. mem \in [Clusters -> Values] /\ active \in [Clusters -> Values]
    BY <2>2 DEF Nothing, Values
  <2>4. Listed
    BY <2>1, <2>2 DEF Listed
  <2> QED
    BY <2>2, <2>3, <2>4 DEF SwitchType, Listed
<1>2. TypeOK
  <2>1. at \in 0..Len(Order) /\ faults \in 0..MaxFaults
    BY FirstIsServer, OrderAssumption DEF Init
  <2>2. thread \in [Workers -> {"none", "run", "over"}]
    BY DEF Init
  <2>3. told \in BOOLEAN /\ accepting \in BOOLEAN
    BY DEF Init
  <2>4. /\ stopped \subseteq Workers /\ late \subseteq Requests /\ made \subseteq Requests
        /\ thread = [w \in Workers |-> "none"]
    BY DEF Init
  <2>5. pc = "off" /\ jobs = "none"
    BY DEF Init
  <2> QED
    BY <1>1, <2>1, <2>2, <2>3, <2>4, <2>5 DEF TypeOK
<1>2a. Stages
  BY FirstIsServer DEF Init, SwitchInit, Stages
<1>2b. NoneOutlives
  BY FirstIsServer DEF Init, SwitchInit, NoneOutlives
<1>2c. Stand
  <2>1. jobs # "live" /\ pc # "append"
    BY DEF Init
  <2> QED
    BY <2>1 DEF Stand
<1> QED
  BY <1>2, <1>2a, <1>2b, <1>2c DEF IInv

-----------------------------------------------------------------------------
\* The steps of the main thread.
LEMMA UpKeeps ==
    ASSUME IInv, Begin \/ Configure \/ InitWorker \/ InitJobs \/ RunWorker \/ TurnOn
    PROVE  IInv'
<1> USE LenType
<1>1. CASE Begin
  <2>1. SwitchType'
    BY <1>1, SwitchKeepsType DEF Begin, IInv, TypeOK
  <2>2. TypeOK'
    BY <1>1, <2>1 DEF Begin, IInv, TypeOK, life, Stages
  <2>3. Stages'
    BY <1>1 DEF Begin, IInv, TypeOK, SwitchType, Stages, life, switch
  <2>4. NoneOutlives'
    BY <1>1 DEF Begin, IInv, TypeOK, SwitchType, Stages, NoneOutlives, life, switch
  <2>5. Stand'
    BY <1>1, OthersFollow, AppendFollows DEF Begin, IInv, TypeOK, Stages, Stand, life
  <2> QED
    BY <2>2, <2>3, <2>4, <2>5 DEF IInv
<1>2. CASE Configure
  <2>1. SwitchType'
    BY <1>2, SwitchKeepsType DEF Configure, Return, IInv, TypeOK
  <2>2. TypeOK'
    BY <1>2, <2>1 DEF Configure, Return, IInv, TypeOK, life, Stages
  <2>3. Stages'
    BY <1>2, FirstIsServer DEF Configure, Return, IInv, TypeOK, SwitchType, Stages, life, switch, SwitchActive
  <2>4. NoneOutlives'
    BY <1>2, FirstIsServer DEF Configure, Return, IInv, TypeOK, SwitchType, Stages, NoneOutlives, life, switch, SwitchActive
  <2>5. Stand'
    BY <1>2, OthersFollow, AppendFollows DEF Configure, Return, IInv, TypeOK, Stages, Stand, life
  <2> QED
    BY <2>2, <2>3, <2>4, <2>5 DEF IInv
<1>3. ASSUME InitWorker PROVE IInv'
  <2>1. SwitchType'
    BY <1>3, SwitchKeepsType DEF InitWorker, Return, IInv, TypeOK
  <2>2. CASE at = 1 /\ LoadInfo /\ pc' = "append" /\ UNCHANGED <<at, told, life>>
    <3>1. CopyFollows'
      BY <2>2 DEF LoadInfo, CopyFollows, Follows
    <3>2. TypeOK'
      BY <1>3, <2>1, <2>2 DEF InitWorker, IInv, TypeOK, life
    <3>3. Stages'
      BY <1>3, <2>2 DEF InitWorker, LoadInfo, IInv, TypeOK, Stages, life
    <3>4. NoneOutlives'
      BY <1>3, <2>2 DEF InitWorker, LoadInfo, IInv, NoneOutlives, life
    <3> QED
      BY <3>1, <3>2, <3>3, <3>4 DEF IInv, Stand
  <2>3. CASE at > 1 /\ UNCHANGED <<switch, told, life>>
             /\ IF at = Len(Order) THEN pc' = "run" /\ at' = 1 ELSE pc' = "init" /\ at' = at + 1
    <3>1. /\ at' \in 1..Len(Order) /\ pc' \in {"run", "init"} /\ (pc' = "init" => at' > 1)
          /\ jobs = "live"
      <4>1. at \in 0..Len(Order) /\ pc = "init" /\ jobs = "live"
        BY <1>3, <2>3 DEF InitWorker, IInv, TypeOK, Stages
      <4>2. CASE at = Len(Order)
        BY <2>3, <4>1, <4>2
      <4>3. CASE at # Len(Order)
        BY <2>3, <4>1, <4>3
      <4> QED
        BY <4>2, <4>3
    <3>2. TypeOK'
      BY <1>3, <2>1, <2>3, <3>1 DEF InitWorker, IInv, TypeOK, life
    <3>3. Stages'
      BY <1>3, <2>3, <3>1 DEF InitWorker, IInv, Stages, life, switch
    <3>4. NoneOutlives'
      BY <2>3, <3>1 DEF life, NoneOutlives
    <3>5. CopyFollows'
      BY <2>3, <3>1, OthersFollow DEF IInv, TypeOK, Stand
    <3> QED
      BY <3>2, <3>3, <3>4, <3>5 DEF IInv, Stand
  <2>4. CASE Return(at)
    <3>1. TypeOK'
      BY <1>3, <2>1, <2>4 DEF InitWorker, Return, IInv, TypeOK, life
    <3>2. Stages'
      BY <1>3, <2>4, FirstIsServer DEF InitWorker, Return, IInv, Stages, life, switch
    <3>3. NoneOutlives'
      BY <1>3, <2>4 DEF InitWorker, Return, IInv, Stages, NoneOutlives, life, switch
    <3>4. Stand'
      BY <1>3, <2>4, OthersFollow DEF InitWorker, Return, IInv, TypeOK, Stand, life
    <3> QED
      BY <3>1, <3>2, <3>3, <3>4 DEF IInv
  <2> QED
    BY <1>3, <2>2, <2>3, <2>4 DEF InitWorker
<1>4. CASE InitJobs
  <2>1. SwitchType'
    BY <1>4, SwitchKeepsType DEF InitJobs, Return, IInv, TypeOK
  <2>2. /\ pc = "append" /\ at = 1 /\ jobs = "none" /\ CopyFollows
        /\ thread = [w \in Workers |-> "none"] /\ ~accepting /\ job = [r \in Requests |-> "none"]
    BY <1>4 DEF InitJobs, IInv, Stages, Stand
  <2>3. CASE /\ AppendInfo /\ jobs' = "live" /\ pc' = "init" /\ at' = 2
             /\ UNCHANGED <<told, thread, stopped, accepting, made, late, faults>>
    <3>1. at' \in 1..Len(Order) /\ pc' = "init" /\ at' > 1
      BY <2>3
    <3>2. TypeOK'
      BY <2>1, <2>2, <2>3, <3>1 DEF IInv, TypeOK
    <3>3. Stages'
      BY <2>2, <2>3, <3>1 DEF IInv, Stages
    <3>4. NoneOutlives' /\ CopyFollows'
      BY <2>2, <2>3, <3>1, AppendFollows DEF NoneOutlives, IInv, TypeOK
    <3> QED
      BY <3>2, <3>3, <3>4 DEF IInv, Stand
  <2>4. CASE /\ AppendInfo \/ UNCHANGED switch
             /\ pc' = "leave" /\ UNCHANGED <<at, told, life, faults>>
    <3>1. job' = job
      BY <2>4 DEF AppendInfo, switch
    <3>2. TypeOK'
      BY <2>1, <2>4 DEF IInv, TypeOK, life
    <3>3. Stages'
      BY <2>2, <2>4, <3>1, FirstIsServer DEF IInv, Stages, life
    <3>4. NoneOutlives' /\ Stand'
      BY <2>2, <2>4, <3>1, FirstIsServer DEF NoneOutlives, Stand, life
    <3> QED
      BY <3>2, <3>3, <3>4 DEF IInv
  <2> QED
    BY <1>4, <2>2, <2>3, <2>4 DEF InitJobs, Return
<1>5. CASE RunWorker
  <2>1. SwitchType'
    BY <1>5, SwitchKeepsType DEF RunWorker, IInv, TypeOK
  <2>2. /\ pc = "run" /\ at \in 1..Len(Order) /\ jobs = "live"
        /\ thread' = [thread EXCEPT ![Order[at]] = "run"]
    BY <1>5 DEF RunWorker, IInv, TypeOK, Stages
  <2>3. pc' \in {"turnOn", "run"} /\ at' \in 1..Len(Order)
    <3>1. CASE at = Len(Order)
      BY <1>5, <2>2, <3>1 DEF RunWorker
    <3>2. CASE at # Len(Order)
      BY <1>5, <2>2, <3>2 DEF RunWorker
    <3> QED
      BY <3>1, <3>2
  <2>4. Order[at] \in Workers /\ thread \in [Workers -> {"none", "run", "over"}]
    BY <2>2, FirstIsServer DEF IInv, TypeOK
  <2>5. thread' \in [Workers -> {"none", "run", "over"}]
    BY <2>2, <2>4
  <2>6. TypeOK'
    BY <1>5, <2>1, <2>3, <2>5 DEF RunWorker, IInv, TypeOK
  <2>7. accepting' => thread'["server"] = "run"
    BY <1>5, <2>2, <2>4, FirstIsServer DEF RunWorker, IInv, Stages
  <2>8. Stages'
    BY <1>5, <2>2, <2>3, <2>7 DEF RunWorker, IInv, Stages
  <2>9. NoneOutlives' /\ CopyFollows'
    BY <1>5, <2>2, <2>3, OthersFollow DEF RunWorker, IInv, TypeOK, Stand, NoneOutlives
  <2> QED
    BY <2>6, <2>8, <2>9 DEF IInv, Stand
<1>6. CASE TurnOn
  <2>1. SwitchType'
    BY <1>6, SwitchKeepsType DEF TurnOn, Return, IInv, TypeOK
  <2>2. TypeOK'
    BY <1>6, <2>1 DEF TurnOn, Return, IInv, TypeOK, life, Stages
  <2>3. Stages'
    BY <1>6 DEF TurnOn, Return, IInv, TypeOK, SwitchType, Stages, life, switch
  <2>4. NoneOutlives'
    BY <1>6 DEF TurnOn, Return, IInv, TypeOK, SwitchType, Stages, NoneOutlives, life, switch
  <2>5. Stand'
    BY <1>6, OthersFollow, AppendFollows DEF TurnOn, Return, IInv, TypeOK, Stages, Stand, life
  <2> QED
    BY <2>2, <2>3, <2>4, <2>5 DEF IInv
<1> QED
  BY <1>1, <1>2, <1>3, <1>4, <1>5, <1>6

\* The loop, and the end of AppRun.
LEMMA LoopKeeps ==
    ASSUME IInv, Command \/ Supervise \/ Poll
    PROVE  IInv'
<1> USE LenType
<1> DEFINE leaves == pc' = "leave" /\ at' = Len(Order)
<1>1. jobs = "live" /\ CopyFollows /\ SwitchType
  BY DEF Command, Supervise, Poll, IInv, TypeOK, Stages, Stand
<1>2. UNCHANGED switch \/ SwitchActive
  BY DEF Command, Supervise, Poll
<1>3. SwitchType' /\ CopyFollows' /\ job' = job
  BY <1>1, <1>2, SwitchKeepsType, OthersFollow DEF SwitchActive, switch
<1>4. /\ pc \in Loop /\ UNCHANGED <<thread, accepting, made, jobs, late>>
      /\ \/ pc' \in Loop /\ UNCHANGED <<at, stopped>>
         \/ leaves /\ stopped' = stopped \cup {"server", "pdbReporter"}
  BY DEF Command, Supervise, Poll, GoOn, StopWorkers
<1>5. told' \in BOOLEAN
  BY DEF Command, Supervise, Poll, StopWorkers, IInv, TypeOK
<1>6. at' \in 0..Len(Order) /\ stopped' \subseteq Workers
  BY <1>4, FirstIsServer DEF IInv, TypeOK
<1>7. faults' \in 0..MaxFaults
  BY OrderAssumption DEF Command, Supervise, Poll, Fault, IInv, TypeOK
<1>8. pc' \in {"leave"} \cup Loop
  BY <1>4
<1>9. TypeOK'
  BY <1>3, <1>4, <1>5, <1>6, <1>7, <1>8 DEF IInv, TypeOK
<1>10. Stages'
  <2>1. CASE pc' \in Loop
    BY <1>1, <1>3, <1>4, <2>1 DEF IInv, Stages
  <2>2. CASE leaves
    BY <1>1, <1>3, <1>4, <2>2, FirstIsServer DEF IInv, Stages
  <2> QED
    BY <1>4, <2>1, <2>2
<1>11. NoneOutlives' /\ Stand'
  BY <1>1, <1>3, <1>4 DEF NoneOutlives, Stand
<1> QED
  BY <1>9, <1>10, <1>11 DEF IInv

\* No process.
LEMMA OffKeeps ==
    ASSUME IInv, Off, faults' \in 0..MaxFaults
    PROVE  IInv'
<1> USE LenType
<1>1. SwitchType'
  BY SwitchKeepsType DEF Off, IInv, TypeOK
<1>2. TypeOK'
  <2>1. at' \in 0..Len(Order) /\ told' \in BOOLEAN /\ accepting' \in BOOLEAN
    <3>1. at' = 0 /\ told' = FALSE /\ accepting' = FALSE
      BY DEF Off
    <3>2. 0 \in 0..Len(Order)
      OBVIOUS
    <3> QED
      BY <3>1, <3>2
  <2>2. thread' \in [Workers -> {"none", "run", "over"}]
    BY DEF Off
  <2> QED
    BY <1>1, <2>1, <2>2 DEF Off, TypeOK
<1>3. Stages'
  BY FirstIsServer DEF Off, SwitchGone, Stages
<1>4. NoneOutlives' /\ Stand'
  BY DEF Off, SwitchGone, NoneOutlives, Stand
<1> QED
  BY <1>2, <1>3, <1>4 DEF IInv

\* The destructors.
LEMMA DownKeeps ==
    ASSUME IInv, Destroy \/ EmptyQueue \/ Join \/ DestroyQueue
    PROVE  IInv'
<1> USE LenType
<1>1. CASE Destroy
  <2>1. SwitchType' /\ Stand'
    BY <1>1, SwitchKeepsType, OthersFollow DEF Destroy, IInv, TypeOK, Stand
  <2>2. at' = at /\ at \in 1..Len(Order)
    BY <1>1 DEF Destroy, IInv, TypeOK
  <2>3. Order[at] \in Workers
    BY <2>2, FirstIsServer
  <2>4. stopped' \subseteq Workers
    BY <1>1, <2>3 DEF Destroy, IInv, TypeOK
  <2>5. TypeOK'
    BY <1>1, <2>1, <2>4 DEF Destroy, IInv, TypeOK
  <2>6. Stages'
    BY <1>1, <2>2, FirstIsServer DEF Destroy, IInv, Stages, switch
  <2>7. NoneOutlives'
    BY <1>1 DEF Destroy, IInv, NoneOutlives, switch
  <2> QED
    BY <2>1, <2>5, <2>6, <2>7 DEF IInv
<1>2. CASE EmptyQueue
  <2>1. CASE /\ \E r \in Requests \ made : job[r] = "over" /\ Goto(r, "none")
             /\ UNCHANGED <<stored, mem, active, changed, entry, strayed, pc, stopped, late>>
    <3>1. PICK r \in Requests \ made : job[r] = "over" /\ Goto(r, "none")
      BY <2>1
    <3>2. SwitchType' /\ Stand'
      BY <1>2, <2>1, <3>1, GotoType, GotoFollows DEF EmptyQueue, IInv, TypeOK, Stand
    <3>3. job' = [job EXCEPT ![r] = "none"] /\ job \in [Requests -> Places]
      BY <3>1 DEF Goto, IInv, TypeOK, SwitchType
    <3>4. TypeOK'
      BY <1>2, <2>1, <3>2 DEF EmptyQueue, IInv, TypeOK
    <3>5. Stages'
      BY <1>2, <2>1, <3>1, <3>3 DEF EmptyQueue, IInv, Stages
    <3>6. NoneOutlives'
      BY <1>2, <2>1, <3>1, <3>3 DEF EmptyQueue, IInv, NoneOutlives
    <3> QED
      BY <3>2, <3>4, <3>5, <3>6 DEF IInv
  <2>2. CASE /\ \A r \in Requests \ made : job[r] = "none"
             /\ pc' = "join" /\ stopped' = stopped \cup {"server"}
             /\ late' = late \cup made
             /\ UNCHANGED switch
    <3>1. SwitchType' /\ Stand'
      BY <1>2, <2>2, SwitchKeepsType, OthersFollow DEF EmptyQueue, IInv, TypeOK, Stand
    <3>2. TypeOK'
      BY <1>2, <2>2, <3>1, FirstIsServer DEF EmptyQueue, IInv, TypeOK
    <3>3. Stages'
      BY <1>2, <2>2 DEF EmptyQueue, IInv, Stages, switch
    <3>4. NoneOutlives'
      BY <1>2, <2>2 DEF EmptyQueue, IInv, NoneOutlives, switch
    <3> QED
      BY <3>1, <3>2, <3>3, <3>4 DEF IInv
  <2> QED
    BY <1>2, <2>1, <2>2 DEF EmptyQueue
<1>3. CASE Join
  <2>1. SwitchType' /\ job' = job
    BY <1>3, SwitchKeepsType DEF Join, CopyGone, switch, IInv, TypeOK
  <2>2. at \in 1..Len(Order) /\ pc = "join" /\ thread[Order[at]] # "run" /\ pc' # "append"
    BY <1>3 DEF Join, IInv, TypeOK, Stages
  <2>3. CASE at = 1 /\ pc' = "members" /\ jobs' = "gone" /\ CopyGone /\ UNCHANGED at
    <3>1. TypeOK'
      BY <1>3, <2>1, <2>2, <2>3 DEF Join, IInv, TypeOK
    <3>2. Stages'
      BY <1>3, <2>2, <2>3, FirstIsServer DEF Join, IInv, Stages, switch
    <3>3. NoneOutlives' /\ Stand'
      BY <1>3, <2>1, <2>2, <2>3 DEF Join, IInv, Stages, NoneOutlives, Stand
    <3> QED
      BY <3>1, <3>2, <3>3 DEF IInv
  <2>4. CASE at > 1 /\ pc' = "leave" /\ at' = at - 1 /\ UNCHANGED <<jobs, switch>>
    <3>1. at' \in 1..Len(Order) /\ \A i \in 1..Len(Order) : i > at' => i = at \/ i > at
      BY <2>2, <2>4
    <3>2. TypeOK'
      BY <1>3, <2>1, <2>2, <2>4, <3>1 DEF Join, IInv, TypeOK
    <3>3. Stages'
      BY <1>3, <2>2, <2>4, <3>1, FirstIsServer DEF Join, IInv, Stages, switch
    <3>4. NoneOutlives'
      BY <1>3, <2>2, <2>4, <3>1 DEF Join, IInv, NoneOutlives, switch
    <3>5. Stand'
      BY <1>3, <2>2, <2>4, OthersFollow DEF Join, IInv, TypeOK, Stand
    <3> QED
      BY <3>2, <3>3, <3>4, <3>5 DEF IInv
  <2> QED
    BY <1>3, <2>3, <2>4 DEF Join
<1>4. CASE DestroyQueue
  <2>1. SwitchType'
    BY <1>4 DEF DestroyQueue, IInv, TypeOK, SwitchType
  <2>2. TypeOK'
    BY <1>4, <2>1 DEF DestroyQueue, life, IInv, TypeOK
  <2>3. jobs = "gone" /\ jobs' = "gone" /\ job' = [r \in Requests |-> "none"]
    BY <1>4 DEF DestroyQueue, life, IInv, Stages
  <2>4. Stages'
    BY <1>4, <2>3, FirstIsServer DEF DestroyQueue, life, IInv, Stages
  <2>5. NoneOutlives'
    <3>1. \A w \in Workers : \E i \in DOMAIN Order : w = Order[i]
      BY DEF Workers
    <3> QED
      BY <1>4, <2>3, <3>1 DEF DestroyQueue, life, IInv, Stages, NoneOutlives
  <2>6. Stand'
    BY <1>4, <2>3 DEF DestroyQueue, Stand
  <2> QED
    BY <2>2, <2>4, <2>5, <2>6 DEF IInv
<1> QED
  BY <1>1, <1>2, <1>3, <1>4

\* The request at the front of the queue is looked at.
LEMMA LookKeeps ==
    ASSUME SwitchType, LookAtFront
    PROVE  /\ SwitchType' /\ (CopyFollows => CopyFollows')
           /\ \A r \in Requests : job[r] \in {"none", "over"} => job'[r] \in {"none", "over"}
<1>1. CASE UNCHANGED switch
  BY <1>1, SwitchKeepsType, OthersFollow DEF switch
<1>2. ASSUME NEW r \in Requests, job[r] = "over", Goto(r, "none"),
             UNCHANGED <<stored, mem, active, changed, entry, strayed>>
      PROVE  /\ SwitchType' /\ (CopyFollows => CopyFollows')
             /\ \A q \in Requests : job[q] \in {"none", "over"} => job'[q] \in {"none", "over"}
  <2>1. SwitchType' /\ (CopyFollows => CopyFollows')
    BY <1>2, GotoType, GotoFollows
  <2> QED
    BY <1>2, <2>1 DEF Goto, SwitchType
<1> QED
  BY <1>1, <1>2 DEF LookAtFront

\* The threads.
LEMMA ThreadsKeep ==
    ASSUME IInv,
           \/ Turn \/ Enqueue \/ NoClient
           \/ \E r \in Requests : Accept(r)
           \/ \E w \in Workers : ThreadEnds(w) \/ ThreadFails(w)
    PROVE  IInv'
<1> USE LenType
<1>1. CASE Turn
  <2>1. SwitchType' /\ Stand'
    BY <1>1, SwitchKeepsType, OthersFollow DEF Turn, main, IInv, TypeOK, Stand
  <2>2. TypeOK'
    BY <1>1, <2>1 DEF Turn, main, IInv, TypeOK
  <2>3. Stages' /\ NoneOutlives'
    BY <1>1, FirstIsServer DEF Turn, main, switch, IInv, Stages, NoneOutlives
  <2> QED
    BY <2>1, <2>2, <2>3 DEF IInv
<1>2. CASE Enqueue \/ NoClient
  <2>1. /\ LookAtFront /\ jobs # "none" /\ accepting' = FALSE /\ made' = {}
        /\ UNCHANGED <<main, thread, stopped, jobs, late, faults>>
    BY <1>2 DEF Enqueue, NoClient, IInv, Stages
  <2>2. SwitchType' /\ Stand'
    BY <2>1, LookKeeps DEF main, IInv, TypeOK, Stand
  <2>3. \A r \in Requests : job[r] \in {"none", "over"} => job'[r] \in {"none", "over"}
    BY <2>1, LookKeeps DEF IInv, TypeOK
  <2>4. TypeOK'
    BY <2>1, <2>2 DEF main, IInv, TypeOK
  <2>5. Stages'
    BY <2>1, <2>3, FirstIsServer DEF main, IInv, Stages
  <2>6. NoneOutlives'
    BY <2>1, <2>3 DEF main, IInv, NoneOutlives
  <2> QED
    BY <2>2, <2>4, <2>5, <2>6 DEF IInv
<1>3. ASSUME NEW r \in Requests, Accept(r) PROVE IInv'
  <2>1. /\ jobs = "live" /\ jobs' = "live" /\ accepting /\ accepting' = accepting
        /\ job \in [Requests -> Places] /\ made' = {r} /\ late' \subseteq Requests
        /\ job' = [job EXCEPT ![r] = "come"]
    BY <1>3, FirstIsServer DEF Accept, Goto, IInv, TypeOK, SwitchType, Stages, Places
  <2>2. SwitchType' /\ Stand'
    BY <1>3, GotoType, GotoFollows DEF Accept, main, IInv, TypeOK, Stand
  <2>3. TypeOK'
    BY <1>3, <2>1, <2>2 DEF Accept, main, IInv, TypeOK
  <2>4. Stages'
    BY <1>3, <2>1, FirstIsServer DEF Accept, main, IInv, Stages
  <2>5. NoneOutlives'
    BY <1>3, <2>1 DEF Accept, main, IInv, NoneOutlives
  <2> QED
    BY <2>2, <2>3, <2>4, <2>5 DEF IInv
<1>4. ASSUME NEW w \in Workers, ThreadEnds(w) \/ ThreadFails(w) PROVE IInv'
  <2>1. /\ thread[w] = "run" /\ thread' = [thread EXCEPT ![w] = "over"]
        /\ thread \in [Workers -> {"none", "run", "over"}]
        /\ w = "server" => ~accepting
        /\ UNCHANGED <<switch, main, stopped, accepting, made, jobs, late, faults>>
    BY <1>4 DEF ThreadEnds, ThreadFails, IInv, TypeOK
  <2>2. SwitchType' /\ Stand'
    BY <2>1, SwitchKeepsType, OthersFollow DEF main, IInv, TypeOK, Stand
  <2>3. TypeOK'
    BY <2>1, <2>2 DEF main, IInv, TypeOK
  <2>4. jobs # "none" /\ pc \notin {"off", "config", "init", "append"}
    BY <2>1 DEF IInv, Stages
  <2>5. \A v \in Workers : thread[v] # "run" => thread'[v] # "run"
    BY <2>1
  <2>6. accepting => thread'["server"] = "run"
    BY <2>1, FirstIsServer DEF IInv, Stages
  <2>7. Stages'
    BY <2>1, <2>4, <2>5, <2>6, FirstIsServer DEF main, switch, IInv, Stages
  <2>8. NoneOutlives'
    BY <2>1, <2>5 DEF main, switch, IInv, NoneOutlives
  <2> QED
    BY <2>2, <2>3, <2>7, <2>8 DEF IInv
<1> QED
  BY <1>1, <1>2, <1>3, <1>4

\* A request and the operator.
LEMMA RequestKeeps ==
    ASSUME IInv, Operator \/ \E r \in Requests : Request(r)
    PROVE  IInv'
<1> USE LenType
<1>1. CASE Operator
  <2>1. SwitchType' /\ Stand'
    BY <1>1, SwitchKeepsType, OthersFollow DEF Operator, main, life, IInv, TypeOK, Stand
  <2>2. faults' \in 0..MaxFaults
    BY <1>1, OrderAssumption DEF Operator, Fault, IInv, TypeOK
  <2>3. TypeOK'
    BY <1>1, <2>1, <2>2 DEF Operator, main, life, IInv, TypeOK
  <2>4. Stages' /\ NoneOutlives'
    BY <1>1 DEF Operator, Edit, main, life, IInv, Stages, NoneOutlives
  <2> QED
    BY <2>1, <2>3, <2>4 DEF IInv
<1>2. ASSUME NEW r \in Requests, Request(r) PROVE IInv'
  <2>1. job \in [Requests -> Places]
    BY DEF IInv, TypeOK, SwitchType
  <2>2. /\ jobs \in {"live", "gone"} /\ job[r] \notin {"none", "over"}
        /\ \A q \in Requests : q # r => job'[q] = job[q]
    BY <1>2, <2>1
       DEF Request, JobStep, NothingAsked, Assign, Insert, NextEntry, EndReflect, Save, SaveFails, Goto
  <2>3. SwitchType'
    <3>1. CASE JobStep(r) \/ SaveFails(r)
      BY <3>1, SwitchKeepsType DEF IInv, TypeOK
    <3>2. CASE /\ Goto(r, "over") /\ entry' = [entry EXCEPT ![r] = 0]
               /\ UNCHANGED <<stored, mem, active, changed, strayed, faults>>
      BY <3>2, GotoType DEF IInv, TypeOK
    <3> QED
      BY <1>2, <3>1, <3>2 DEF Request
  <2>4. Stand'
    <3>1. CASE jobs = "live" /\ (JobStep(r) \/ SaveFails(r))
      <4>1. SwitchType /\ CopyFollows
        BY <3>1 DEF IInv, TypeOK, Stand
      <4>2. CopyFollows'
        BY <3>1, <4>1, AssignFollows, InsertFollows, SaveFollows, OthersFollow DEF JobStep
      <4> QED
        BY <4>2 DEF Stand
    <3>2. CASE jobs = "gone"
      BY <1>2, <3>2 DEF Request, main, life, Stand, IInv, Stages
    <3> QED
      BY <1>2, <3>1, <3>2 DEF Request
  <2>5. faults' \in 0..MaxFaults
    BY <1>2, OrderAssumption DEF Request, Fault, IInv, TypeOK
  <2>6. TypeOK'
    BY <1>2, <2>3, <2>5 DEF Request, main, life, IInv, TypeOK
  <2>7. Stages'
    BY <1>2, <2>2 DEF Request, main, life, IInv, Stages
  <2>8. NoneOutlives'
    BY <1>2, <2>2 DEF Request, main, life, IInv, NoneOutlives
  <2> QED
    BY <2>4, <2>6, <2>7, <2>8 DEF IInv
<1> QED
  BY <1>1, <1>2

\* Every step of the process and of the configuration keeps it.
THEOREM StepIInv == IInv /\ [Next]_vars => IInv'
<1> SUFFICES ASSUME IInv, [Next]_vars PROVE IInv'
  OBVIOUS
<1>1. faults \in 0..MaxFaults
  BY DEF IInv, TypeOK
<1>2. CASE Leave \/ Kill
  <2>1. faults' \in 0..MaxFaults
    BY <1>1, <1>2, OrderAssumption DEF Leave, Kill, Fault
  <2> QED
    BY <1>2, <2>1, OffKeeps DEF Leave, Kill
<1>3. CASE Begin \/ Configure \/ InitWorker \/ InitJobs \/ RunWorker \/ TurnOn
  BY <1>3, UpKeeps
<1>4. CASE Command \/ Supervise \/ Poll
  BY <1>4, LoopKeeps
<1>5. CASE Destroy \/ EmptyQueue \/ Join \/ DestroyQueue
  BY <1>5, DownKeeps
<1>6. CASE \/ Turn \/ Enqueue \/ NoClient
           \/ \E r \in Requests : Accept(r)
           \/ \E w \in Workers : ThreadEnds(w) \/ ThreadFails(w)
  BY <1>6, ThreadsKeep
<1>7. CASE Operator \/ \E r \in Requests : Request(r)
  BY <1>7, RequestKeeps
<1>8. CASE UNCHANGED vars
  <2>1. SwitchType' /\ Stand'
    BY <1>8, SwitchKeepsType, OthersFollow DEF vars, main, life, IInv, TypeOK, Stand
  <2>2. TypeOK'
    BY <1>8, <2>1 DEF vars, main, life, IInv, TypeOK
  <2>3. Stages' /\ NoneOutlives'
    BY <1>8 DEF vars, main, life, switch, IInv, Stages, NoneOutlives
  <2> QED
    BY <2>1, <2>2, <2>3 DEF IInv
<1> QED
  BY <1>2, <1>3, <1>4, <1>5, <1>6, <1>7, <1>8 DEF Next, MainStep

-----------------------------------------------------------------------------
\* Types of the process and the configuration (EmsGWMain::AppRun).
THEOREM TypeCorrect == Spec => []TypeOK
<1>1. IInv => TypeOK
  BY DEF IInv
<1> QED
  BY <1>1, InitIInv, StepIInv, PTL DEF Spec

\* When AppRun has returned no thread is left, and only a request that
\* EmsGWServer::run had not put into its queue when ~EmsGWServer found that empty
\* finds its job gone.
THEOREM NothingOutlives == Spec => []NoneOutlives
<1>1. IInv => NoneOutlives
  BY DEF IInv
<1> QED
  BY <1>1, InitIInv, StepIInv, PTL DEF Spec

\* A save of PdbSwitchJob activates nothing but what has been asked for.
THEOREM OnlyAskedChanges == Spec => OnlyNamedChange
<1>1. ASSUME IInv, Next, NEW r \in Requests, job[r] = "save", job'[r] = "over",
             NEW c \in Clusters \ strayed
      PROVE  \/ stored'[c] = stored[c]
             \/ \E q \in Askers(c) : Asked(q, c, stored'[c])
             \/ stored'[c] = Torn /\ Askers(c) \ {r} # {}
  <2>1. CASE jobs = "live" /\ Save(r)
    <3>1. PICK torn \in SUBSET {d \in Clusters : Crossing(r, d) # {}}, lost \in SUBSET Losable(r) :
             \A d \in Clusters :
                stored'[d] = IF d \in lost \/ (d \notin torn /\ mem[d] = None) THEN stored[d]
                             ELSE IF d \in torn THEN Torn ELSE mem[d]
      BY <2>1, SavedCopy
    <3>2. Follows(c)
      BY <1>1, <2>1 DEF IInv, Stand, CopyFollows
    <3>3. CASE c \in torn
      <4>1. stored'[c] = Torn \/ stored'[c] = stored[c]
        BY <3>1, <3>3
      <4>2. PICK q \in Requests \ {r} : job[q] = "assign" /\ Asks[q][entry[q]].cluster = c
        BY <3>1, <3>3 DEF Crossing
      <4>3. entry[q] \in Nat /\ entry[q] > 0 /\ entry[q] <= Len(Asks[q])
        BY <1>1, <4>2 DEF IInv, TypeOK, SwitchType
      <4>4. entry[q] \in DOMAIN Asks[q]
        BY <4>3, AsksType
      <4> QED
        BY <4>1, <4>2, <4>4 DEF Askers
    <3>4. CASE c \notin torn
      <4>1. stored'[c] = mem[c] \/ stored'[c] = stored[c]
        BY <3>1, <3>4
      <4>2. mem[c] = None => stored'[c] = stored[c]
        BY <3>1, <3>4
      <4> QED
        BY <3>2, <4>1, <4>2 DEF Follows
    <3> QED
      BY <3>3, <3>4
  <2>2. CASE \E q \in Requests : Request(q)
    <3>1. job \in [Requests -> Places]
      BY <1>1 DEF IInv, TypeOK, SwitchType
    <3>2. PICK q \in Requests : Request(q)
      BY <2>2
    <3>3. (jobs = "live" /\ Save(q)) \/ stored' = stored
      BY <3>2 DEF Request, JobStep, NothingAsked, Assign, Insert, NextEntry, EndReflect, SaveFails
    <3>4. Save(q) => q = r
      BY <1>1, <3>1 DEF Save, Goto
    <3> QED
      BY <2>1, <3>3, <3>4
  <2>3. CASE ~ \E q \in Requests : Request(q)
    <3>1. stored' = stored \/ job' = job
      BY <1>1, <2>3
         DEF Next, MainStep, Begin, Leave, Kill, Off, SwitchGone, Configure, InitWorker, InitJobs,
             RunWorker, TurnOn, Return, SwitchActive, LoadInfo, AppendInfo, Command, Supervise, Poll,
             Destroy, EmptyQueue, Join, CopyGone, DestroyQueue, Turn, Enqueue, NoClient, LookAtFront,
             Accept, ThreadEnds, ThreadFails, Operator, Edit, main, switch
    <3> QED
      BY <1>1, <3>1
  <2> QED
    BY <2>2, <2>3
<1>2. IInv /\ [Next]_vars =>
        [\A r \in Requests : job[r] = "save" /\ job'[r] = "over" =>
            \A c \in Clusters \ strayed :
                \/ stored'[c] = stored[c]
                \/ \E q \in Askers(c) : Asked(q, c, stored'[c])
                \/ stored'[c] = Torn /\ Askers(c) \ {r} # {}]_switch
  BY <1>1 DEF vars
<1> QED
  BY <1>2, InitIInv, StepIInv, PTL DEF Spec, OnlyNamedChange

-----------------------------------------------------------------------------
(***************************************************************************)
(* No change of the configuration is missed.                                *)
(***************************************************************************)
\* Where the main thread has switched to a configuration at least once, and looks
\* for another.
Watching == {"init", "append", "run", "turnOn"} \cup Loop

\* What is active is what is stored, or the main thread will find that there is
\* something new.
NoChangeMissed == pc \in Watching => changed \/ active = stored

\* What a step of a request or an edit stores is marked as a change.
LEMMA StoredIsMarked ==
    ASSUME NoChangeMissed, UNCHANGED <<pc, active>>,
           UNCHANGED <<stored, changed>> \/ changed'
    PROVE  NoChangeMissed'
  BY DEF NoChangeMissed

\* Whoever stores a configuration, AppendInfo, a request or an operator, and when,
\* while the main thread waits or has failed to load another: it is active or is
\* still to be found (IsChanged and SwitchActiveDB in AppRun).
THEOREM ChangesAreFound == Spec => []NoChangeMissed
<1>1. Init => NoChangeMissed
  BY DEF Init, NoChangeMissed, Watching, Loop
<1>2. NoChangeMissed /\ [Next]_vars => NoChangeMissed'
  <2> SUFFICES ASSUME NoChangeMissed, [Next]_vars PROVE NoChangeMissed'
    OBVIOUS
  <2>1. CASE UNCHANGED <<stored, active, changed>> /\ (pc' \in Watching => pc \in Watching)
    BY <2>1 DEF NoChangeMissed
  <2>2. CASE Configure
    BY <2>2 DEF Configure, SwitchActive, Return, NoChangeMissed, Watching, Loop
  <2>3. CASE InitWorker \/ RunWorker \/ TurnOn
    BY <2>1, <2>3 DEF InitWorker, RunWorker, TurnOn, LoadInfo, Return, switch, Watching, Loop
  <2>4. CASE InitJobs
    <3>1. CASE AppendInfo
      BY <2>4, <3>1 DEF InitJobs, AppendInfo, NoChangeMissed, Watching, Loop
    <3>2. CASE Return(1)
      BY <2>1, <3>2 DEF Return, switch, Watching, Loop
    <3> QED
      BY <2>4, <3>1, <3>2 DEF InitJobs
  <2>5. CASE Command \/ Supervise
    BY <2>1, <2>5 DEF Command, Supervise, GoOn, StopWorkers, switch, Watching, Loop
  <2>6. CASE Poll
    BY <2>6 DEF Poll, GoOn, StopWorkers, SwitchActive, switch, NoChangeMissed, Watching, Loop
  <2>7. CASE Begin \/ Destroy \/ EmptyQueue \/ Join \/ DestroyQueue \/ Leave \/ Kill
    BY <2>7 DEF Begin, Destroy, EmptyQueue, Join, CopyGone, DestroyQueue, Leave, Kill, Off,
                switch, NoChangeMissed, Watching, Loop
  <2>8. CASE Turn \/ Enqueue \/ NoClient \/ \E r \in Requests : Accept(r)
    BY <2>1, <2>8 DEF Turn, Enqueue, NoClient, LookAtFront, Accept, switch, main
  <2>9. CASE \E w \in Workers : ThreadEnds(w) \/ ThreadFails(w)
    BY <2>1, <2>9 DEF ThreadEnds, ThreadFails, switch, main
  <2>10. CASE Operator
    BY <2>10, StoredIsMarked DEF Operator, Edit, main
  <2>11. ASSUME NEW r \in Requests, Request(r) PROVE NoChangeMissed'
    BY <2>11, StoredIsMarked
       DEF Request, JobStep, NothingAsked, Assign, Insert, NextEntry, EndReflect, Save, SaveFails, main
  <2>12. CASE UNCHANGED vars
    BY <2>1, <2>12 DEF vars, switch, main
  <2> QED
    BY <2>2, <2>3, <2>4, <2>5, <2>6, <2>7, <2>8, <2>9, <2>10, <2>11, <2>12
       DEF Next, MainStep
<1> QED
  BY <1>1, <1>2, PTL DEF Spec
=============================================================================
