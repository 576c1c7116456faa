---------------------------- MODULE ReadingProofs ----------------------------
(***************************************************************************)
(* Proofs about Reading and about the mapping of conditions that it shares *)
(* with the status monitor.                                                *)
(*                                                                         *)
(* Of the mapping, for any conditions in lists of any length: their order  *)
(* means nothing, a message is of the resource that decides the status,    *)
(* and the table of the requirements decides.                              *)
(*                                                                         *)
(* Of Reading, for any names, ids, images, contents of HostedClusters and  *)
(* matrices of the provider's runs: types, whose kubeconfig a GET returns, *)
(* that the version of a cluster survives the way through its release      *)
(* image and over restarts that leave the image its version, and that a    *)
(* GET tells the message of the events.                                    *)
(***************************************************************************)
EXTENDS Reading, ConditionPair, WellFoundedInduction, TLAPS

-----------------------------------------------------------------------------
(***************************************************************************)
(* Min is a CHOOSE: that a set of places in a list has a least one comes   *)
(* from the order of the natural numbers being well-founded, with the      *)
(* order written as a set of pairs.                                        *)
(***************************************************************************)
Below == {pair \in Nat \X Nat : pair[1] < pair[2]}

\* There is no endless descent in Below.
LEMMA BelowIsWellFounded == IsWellFoundedOn(Below, Nat)
<1>1. OpToRel(<, Nat) = Below
  BY DEF OpToRel, Below
<1> QED
  BY <1>1, NatLessThanWellFounded, Zenon

\* Min of a set of places is one of them, and the first.
LEMMA MinExists ==
    ASSUME NEW S, S \subseteq Nat, S # {}
    PROVE  Min(S) \in S /\ \A j \in S : Min(S) <= j
<1>1. PICK i \in S : \A j \in S : ~(<<j, i>> \in Below)
  BY BelowIsWellFounded, WFMin
<1>2. \A j, k \in Nat : j < k => <<j, k>> \in Below
  BY DEF Below
<1>3. ASSUME NEW j \in S
      PROVE  i <= j
  <2>1. i \in Nat /\ j \in Nat
    OBVIOUS
  <2>2. ~(j < i)
    BY <1>1, <1>2, <2>1, Zenon
  <2> QED
    BY <2>1, <2>2
<1> QED
  BY <1>3 DEF Min

(***************************************************************************)
(* extractConditions keeps items of the list at places of the list.        *)
(***************************************************************************)
LEMMA ExtractedPlaces ==
    ASSUME NEW Items, NEW obj, obj.conditions \in Seq(Items)
    PROVE  /\ DOMAIN extractConditions(obj) \subseteq Nat
           /\ \A i \in DOMAIN extractConditions(obj) :
                 extractConditions(obj)[i] = obj.conditions[i]
<1>1. DOMAIN obj.conditions \subseteq Nat
  OBVIOUS
<1> QED
  BY <1>1 DEF extractConditions, Restrict

\* While no type occurs twice there is no first one to speak of.
LEMMA HasStatus ==
    ASSUME NEW conds, DOMAIN conds \subseteq Nat, DistinctTypes(conds), NEW type, NEW status
    PROVE  FirstHasStatus(conds, type, status) <=>
              \E i \in DOMAIN conds : conds[i].type = type /\ conds[i].status = status
<1> DEFINE found == OfType(conds, {type})
<1>1. found # {} => Min(found) \in found
  BY MinExists DEF OfType
<1>2. \A i, j \in found : i = j
  BY DEF OfType, DistinctTypes
<1>3. ASSUME NEW i \in DOMAIN conds, conds[i].type = type
      PROVE  Min(found) = i
  BY <1>1, <1>2, <1>3 DEF OfType
<1>4. \A i \in found : i \in DOMAIN conds /\ conds[i].type = type
  BY DEF OfType
<1>5. \A i \in DOMAIN conds : conds[i].type = type => i \in found
  BY DEF OfType
<1>6. FirstHasStatus(conds, type, status) <=> found # {} /\ conds[Min(found)].status = status
  BY DEF FirstHasStatus
<1> HIDE DEF found
<1> QED
  BY <1>1, <1>3, <1>4, <1>5, <1>6

(***************************************************************************)
(* What the mappers ask of a list is the same in another order of it.      *)
(***************************************************************************)
LEMMA Reordered ==
    ASSUME NEW conds, DOMAIN conds \subseteq Nat, DistinctTypes(conds),
           NEW other \in Reorderings(conds)
    PROVE  /\ DOMAIN other = DOMAIN conds
           /\ \A type, status :
                 FirstHasStatus(other, type, status) <=> FirstHasStatus(conds, type, status)
<1> DEFINE D == DOMAIN conds
<1>1. PICK p \in Bijection(D, D) : other = [i \in D |-> conds[p[i]]]
  BY DEF Reorderings
<1>2. /\ p \in [D -> D]
      /\ \A i, j \in D : p[i] = p[j] => i = j
      /\ \A j \in D : \E i \in D : p[i] = j
  BY DEF Bijection, Injection, Surjection, IsInjective
<1>3. DOMAIN other = D /\ \A i \in D : p[i] \in D /\ other[i] = conds[p[i]]
  BY <1>1, <1>2
<1>4. DistinctTypes(other)
  BY <1>2, <1>3 DEF DistinctTypes
<1>5. ASSUME NEW type, NEW status
      PROVE  FirstHasStatus(other, type, status) <=> FirstHasStatus(conds, type, status)
  <2>1. FirstHasStatus(other, type, status) <=>
           \E i \in D : other[i].type = type /\ other[i].status = status
    BY <1>3, <1>4, HasStatus
  <2>2. FirstHasStatus(conds, type, status) <=>
           \E i \in D : conds[i].type = type /\ conds[i].status = status
    BY HasStatus
  <2> QED
    BY <1>2, <1>3, <2>1, <2>2
<1> QED
  BY <1>3, <1>5

-----------------------------------------------------------------------------
\* The two lists are lists of the conditions that there are.
Conditions ==
    /\ hostedCluster \in [deleting : BOOLEAN, conditions : Seq(HCConditions)]
    /\ nodePool \in [deleting : BOOLEAN, conditions : Seq(NPConditions)]

LEMMA PairConditions == PairSpec => []Conditions
<1>1. ASSUME PairInit
      PROVE  Conditions
  <2>1. <<>> \in Seq(HCConditions) /\ <<>> \in Seq(NPConditions)
    OBVIOUS
  <2>2. PICK deleting \in BOOLEAN :
           hostedCluster = [deleting |-> deleting, conditions |-> <<>>]
    BY <1>1 DEF PairInit
  <2>3. hostedCluster \in [deleting : BOOLEAN, conditions : Seq(HCConditions)]
    BY <2>1, <2>2
  <2>4. nodePool \in [deleting : BOOLEAN, conditions : Seq(NPConditions)]
    BY <1>1, <2>1 DEF PairInit
  <2> QED
    BY <2>3, <2>4 DEF Conditions
<1>2. Conditions /\ [PairNext]_pairVars => Conditions'
  <2> SUFFICES ASSUME Conditions, [PairNext]_pairVars
               PROVE  Conditions'
    OBVIOUS
  <2>1. CASE UNCHANGED pairVars
    BY <2>1 DEF pairVars, Conditions
  <2>2. CASE AddHCCondition
    <3>1. PICK c \in HCConditions :
            hostedCluster' = [hostedCluster EXCEPT !.conditions = Append(@, c)]
      BY <2>2 DEF AddHCCondition
    <3>2. Append(hostedCluster.conditions, c) \in Seq(HCConditions)
      BY DEF Conditions
    <3> QED
      BY <2>2, <3>1, <3>2 DEF Conditions, AddHCCondition
  <2>3. CASE AddNPCondition
    <3>1. PICK c \in NPConditions :
            nodePool' = [nodePool EXCEPT !.conditions = Append(@, c)]
      BY <2>3 DEF AddNPCondition
    <3>2. Append(nodePool.conditions, c) \in Seq(NPConditions)
      BY DEF Conditions
    <3> QED
      BY <2>3, <3>1, <3>2 DEF Conditions, AddNPCondition
  <2> QED
    BY <2>1, <2>2, <2>3 DEF PairNext
<1> QED
  BY <1>1, <1>2, PTL DEF PairSpec

(***************************************************************************)
(* OrderMeansNothing: with lists of any length, MapConditionsToStatus and  *)
(* MapNodePoolConditionsToStatus, which both decide by the first condition *)
(* of a type, give the same status for every order of the list.            *)
(***************************************************************************)
THEOREM OrderMeansNothing == PairSpec => []OrderIrrelevant
<1>1. Conditions => OrderIrrelevant
  <2> SUFFICES ASSUME Conditions
               PROVE  OrderIrrelevant
    OBVIOUS
  <2>1. DOMAIN hcConds \subseteq Nat /\ DOMAIN npConds \subseteq Nat
    BY ExtractedPlaces DEF Conditions, hcConds, npConds
  <2>2. ASSUME DistinctTypes(hcConds), NEW conds \in Reorderings(hcConds)
        PROVE  MapConditionsToStatus(conds, hostedCluster.deleting) = hcNow
    <3>1. \A type, status :
             FirstHasStatus(conds, type, status) <=> FirstHasStatus(hcConds, type, status)
      BY <2>1, <2>2, Reordered
    <3> QED
      BY <3>1 DEF MapConditionsToStatus, hcNow, conditionIsTrue, conditionIsFalse
  <2>3. ASSUME DistinctTypes(npConds), NEW conds \in Reorderings(npConds)
        PROVE  MapNodePoolConditionsToStatus(conds) = npNow
    <3>1. /\ DOMAIN conds = DOMAIN npConds
          /\ \A type, status :
                FirstHasStatus(conds, type, status) <=> FirstHasStatus(npConds, type, status)
      BY <2>1, <2>3, Reordered
    <3> QED
      BY <3>1 DEF MapNodePoolConditionsToStatus, npNow, conditionIsTrue, conditionIsFalse
  <2> QED
    BY <2>2, <2>3 DEF OrderIrrelevant
<1> QED
  BY <1>1, PairConditions, PTL

-----------------------------------------------------------------------------
(***************************************************************************)
(* A message that is not empty has the prefix asked for and the text of a  *)
(* condition of the list.                                                  *)
(***************************************************************************)
LEMMA MessageOfCondition ==
    ASSUME NEW conds, DOMAIN conds \subseteq Nat, NEW types, NEW start,
           FirstMessage(conds, types, start) # NoMessage
    PROVE  /\ FirstMessage(conds, types, start).prefix = start
           /\ \E i \in DOMAIN conds :
                 FirstMessage(conds, types, start).text = conds[i].message
<1>1. OfType(conds, types) # {} /\ OfType(conds, types) \subseteq DOMAIN conds
  BY DEF FirstMessage, OfType
<1>2. Min(OfType(conds, types)) \in DOMAIN conds
  BY <1>1, MinExists
<1> QED
  BY <1>1, <1>2 DEF FirstMessage

(***************************************************************************)
(* MessageOfTheDriver: compositeMessage and ComputeCompositeStatus pick    *)
(* the same resource, whatever conditions the two have.                    *)
(***************************************************************************)
THEOREM MessageOfTheDriver == PairSpec => []MessageFollowsDriver
<1> DEFINE ofNodePool == "NodePool: "
           ofCluster  == ""
<1>0. ofNodePool # ofCluster
  BY Zenon
<1> HIDE DEF ofNodePool, ofCluster
<1>1. Conditions => MessageFollowsDriver
  <2> SUFFICES ASSUME Conditions, compositeMessage(Inst) # NoMessage
               PROVE  LET m == compositeMessage(Inst)
                          c == ComputeCompositeStatus(hcNow, npNow)
                          texts(conds) == {conds[i].message : i \in DOMAIN conds}
                      IN  IF m.prefix = ofCluster THEN c = hcNow /\ m.text \in texts(hcConds)
                          ELSE c = npNow /\ c # hcNow /\ m.text \in texts(npConds)
    BY DEF MessageFollowsDriver, ofCluster
  <2>1. DOMAIN hcConds \subseteq Nat /\ DOMAIN npConds \subseteq Nat
    BY ExtractedPlaces DEF Conditions, hcConds, npConds
  <2>2. hcNow \in HCStatus
    BY DEF hcNow, MapConditionsToStatus, HCStatus
  <2>3. CASE NodePoolIsWorse(hcNow, npNow)
    <3>1. compositeMessage(Inst) = extractNodePoolMessage(npConds, npNow)
      BY <2>3 DEF compositeMessage, Inst
    <3>2. PICK wanted : compositeMessage(Inst) = FirstMessage(npConds, wanted, ofNodePool)
      BY <3>1, Zenon DEF extractNodePoolMessage, ofNodePool
    <3>3. /\ compositeMessage(Inst).prefix = ofNodePool
          /\ \E i \in DOMAIN npConds : compositeMessage(Inst).text = npConds[i].message
      BY <2>1, <3>2, MessageOfCondition
    <3>4. npNow # hcNow
      BY <2>2, <2>3 DEF NodePoolIsWorse, StatusPriority, HCStatus
    <3> QED
      BY <1>0, <2>3, <3>3, <3>4 DEF ComputeCompositeStatus
  <2>4. CASE ~NodePoolIsWorse(hcNow, npNow)
    <3>1. compositeMessage(Inst) = extractHostedClusterMessage(hcConds, hcNow)
      BY <2>4 DEF compositeMessage, Inst
    <3>2. PICK wanted : compositeMessage(Inst) = FirstMessage(hcConds, wanted, ofCluster)
      BY <3>1, Zenon DEF extractHostedClusterMessage, ofCluster
    <3>3. /\ compositeMessage(Inst).prefix = ofCluster
          /\ \E i \in DOMAIN hcConds : compositeMessage(Inst).text = hcConds[i].message
      BY <2>1, <3>2, MessageOfCondition
    <3> QED
      BY <2>4, <3>3 DEF ComputeCompositeStatus
  <2> QED
    BY <2>3, <2>4
<1> QED
  BY <1>1, PairConditions, PTL

(***************************************************************************)
(* TableIsFollowed: the chain of conditions in MapConditionsToStatus,      *)
(* which is not written in the order of the table, decides as its first    *)
(* matching row (REQ-ACM-160), with the exception that TableDecides names. *)
(***************************************************************************)
THEOREM TableIsFollowed == PairSpec => []TableDecides
<1>1. TableDecides
  <2> SUFFICES ASSUME NEW row \in DOMAIN Table, Table[row].match,
                      \A i \in 1..(row - 1) : ~Table[i].match,
                      conditionIsTrue(hcConds, "Available") => conditionIsFalse(hcConds, "Progressing")
               PROVE  hcNow = Table[row].status
    BY DEF TableDecides
  <2> DEFINE Has(type, status) == FirstHasStatus(hcConds, type, status)
  <2>1. row \in 1..6
    BY DEF Table
  <2>2. /\ Table[1] = [status |-> "DELETING", match |-> hostedCluster.deleting]
        /\ Table[2] = [status |-> "FAILED", match |-> Has("Degraded", "True")]
        /\ Table[3] = [status |-> "READY",
                       match |-> Has("Available", "True") /\ Has("Progressing", "False")]
        /\ Table[4] = [status |-> "PROVISIONING",
                       match |-> Has("Progressing", "True") /\ Has("Available", "False")]
        /\ Table[5] = [status |-> "UNAVAILABLE",
                       match |-> Has("Available", "False") /\ Has("Progressing", "False")]
        /\ Table[6] = [status |-> "PENDING", match |-> Has("Progressing", "Unknown")]
    BY DEF Table
  <2>3. /\ \A type, status : Has(type, status) \in BOOLEAN
        /\ \A type, one, another : Has(type, one) /\ Has(type, another) => one = another
    BY DEF FirstHasStatus
  <2> HIDE DEF Has
  <2>4. hcNow = IF hostedCluster.deleting THEN "DELETING"
                ELSE IF Has("Degraded", "True") THEN "FAILED"
                ELSE IF Has("Available", "True") THEN "READY"
                ELSE IF Has("Progressing", "True") THEN "PROVISIONING"
                ELSE IF Has("Available", "False") /\ Has("Progressing", "False")
                     THEN "UNAVAILABLE"
                ELSE "PENDING"
    BY DEF hcNow, MapConditionsToStatus, conditionIsTrue, conditionIsFalse, Has
  <2>5. Has("Available", "True") => Has("Progressing", "False")
    BY DEF conditionIsTrue, conditionIsFalse, Has
  <2>6. \A i \in 1..6 : i < row => ~Table[i].match
    BY <2>1
  <2>7. CASE row \in {1, 2, 3}
    BY <2>2, <2>3, <2>4, <2>6, <2>7
  <2>8. CASE row \in {4, 5, 6}
    <3>1. ~Table[1].match /\ ~Table[2].match /\ ~Table[3].match
      BY <2>6, <2>8
    <3>2. ~Has("Available", "True")
      BY <2>2, <2>3, <2>5, <3>1
    <3>3. ~(Has("Progressing", "True") /\ Has("Progressing", "False"))
      BY <2>3
    <3>4. ~(Has("Progressing", "Unknown") /\ (Has("Progressing", "True") \/ Has("Progressing", "False")))
      BY <2>3
    <3> QED
      BY <2>2, <2>3, <2>4, <2>8, <3>1, <3>2, <3>3, <3>4
  <2> QED
    BY <2>1, <2>7, <2>8
<1> QED
  BY <1>1, PTL

-----------------------------------------------------------------------------

(***************************************************************************)
(* The parts of the inductive invariant.  A cluster created for a version  *)
(* and never remapped has an image that the matrix maps to it, a Secret is *)
(* that of the cluster of its name, and a GET that was not overtaken has   *)
(* the cluster before it.                                                  *)
(***************************************************************************)
Chosen(cluster) ==
    cluster.asked # NoVersion /\ ~cluster.remapped =>
        ReleaseImageToK8sVersion(cluster.image, matrix) = cluster.asked

ClustersChosen == \A n \in Names : hc[n] # NoCluster => Chosen(hc[n])

SecretsOwned ==
    \A n \in Names : secret[n] # NoSecret => hc[n] # NoCluster /\ secret[n] = hc[n].id

Before(id, n) == hc[n] # NoCluster /\ hc[n].id = id

GetSound ==
    get # Idle =>
        /\ get.seen.id = get.wanted /\ Chosen(get.seen)
        /\ get.kubeconfig \in {NoSecret, get.wanted} \/ get.overtaken
        /\ get.at = "found" => get.overtaken \/ Before(get.wanted, get.name)

IInv == TypeOK /\ ClustersChosen /\ SecretsOwned /\ GetSound

-----------------------------------------------------------------------------
(***************************************************************************)
(* A GET under way is a record with these fields.                          *)
(***************************************************************************)
LEMMA GetFields ==
    ASSUME get \in Get, get # Idle
    PROVE  /\ get \in [at : {"found", "answered"}, wanted : Ids, name : Names, seen : Cluster,
                       kubeconfig : Ids \cup {NoSecret}, overtaken : BOOLEAN]
           /\ get.name \in Names /\ get.wanted \in Ids
BY DEF Get

\* With no cluster and no read under way there is nothing to be wrong.
LEMMA InitIInv == Init => IInv
<1> SUFFICES ASSUME Init
             PROVE  IInv
  OBVIOUS
<1>1. TypeOK
  BY DEF Init, TypeOK, Get
<1>2. ClustersChosen /\ SecretsOwned /\ GetSound
  BY DEF Init, ClustersChosen, SecretsOwned, GetSound
<1> QED
  BY <1>1, <1>2 DEF IInv

(***************************************************************************)
(* A HostedCluster that stays the same cluster: its operator reports.      *)
(***************************************************************************)
LEMMA SameClusters ==
    ASSUME IInv, hc' \in [Names -> Cluster \cup {NoCluster}],
           \A n \in Names : hc[n] # NoCluster =>
              /\ hc'[n] # NoCluster
              /\ hc'[n].id = hc[n].id /\ hc'[n].image = hc[n].image /\ hc'[n].asked = hc[n].asked
              /\ hc'[n].remapped = hc[n].remapped,
           \A n \in Names : hc[n] = NoCluster => hc'[n] = NoCluster,
           UNCHANGED <<matrix, images, secret, get>>
    PROVE  IInv'
<1>1. TypeOK /\ ClustersChosen /\ SecretsOwned /\ GetSound
  BY DEF IInv
<1>2. TypeOK'
  BY <1>1 DEF TypeOK
<1>3. ClustersChosen' /\ SecretsOwned'
  BY <1>1 DEF ClustersChosen, SecretsOwned, Chosen
<1>4. GetSound'
  <2>1. SUFFICES ASSUME get # Idle
                 PROVE  GetSound'
    BY DEF GetSound
  <2>2. get.name \in Names
    BY <1>1, <2>1, GetFields DEF TypeOK
  <2>3. Before(get.wanted, get.name) => Before(get.wanted, get.name)'
    BY <2>2 DEF Before
  <2> QED
    BY <1>1, <2>1, <2>3 DEF GetSound, Chosen
<1> QED
  BY <1>2, <1>3, <1>4 DEF IInv

\* A status that changes, and a version that is published, leave the chosen release alone.
LEMMA ReportKeepsIInv ==
    ASSUME IInv, NEW n \in Names, NEW object \in Objects, Report(n, object) \/ Publish(n)
    PROVE  IInv'
<1>1. TypeOK /\ hc[n] \in Cluster
  BY NoClusterAssumption DEF IInv, TypeOK, Report, Publish
<1>2. PICK cluster \in Cluster :
        /\ hc' = [hc EXCEPT ![n] = cluster]
        /\ cluster.id = hc[n].id /\ cluster.image = hc[n].image /\ cluster.asked = hc[n].asked
        /\ cluster.remapped = hc[n].remapped
  <2>1. CASE Report(n, object)
    <3>1. [hc[n] EXCEPT !.object = object] \in Cluster
      BY <1>1 DEF Cluster
    <3>2. hc' = [hc EXCEPT ![n] = [hc[n] EXCEPT !.object = object]]
      BY <1>1, <2>1 DEF Report, TypeOK
    <3> QED
      BY <1>1, <3>1, <3>2 DEF Cluster
  <2>2. CASE Publish(n)
    <3>1. [hc[n] EXCEPT !.published = TRUE] \in Cluster
      BY <1>1 DEF Cluster
    <3>2. hc' = [hc EXCEPT ![n] = [hc[n] EXCEPT !.published = TRUE]]
      BY <1>1, <2>2 DEF Publish, TypeOK
    <3> QED
      BY <1>1, <3>1, <3>2 DEF Cluster
  <2> QED
    BY <2>1, <2>2
<1>3. hc' \in [Names -> Cluster \cup {NoCluster}]
  BY <1>1, <1>2 DEF TypeOK
<1>4. \A m \in Names : hc'[m] = IF m = n THEN cluster ELSE hc[m]
  BY <1>1, <1>2 DEF TypeOK
<1>5. cluster # NoCluster /\ hc[n] # NoCluster
  BY <1>1, NoClusterAssumption
<1>6. UNCHANGED <<matrix, images, secret, get>>
  BY DEF Report, Publish
<1> QED
  BY <1>2, <1>3, <1>4, <1>5, <1>6, SameClusters

(***************************************************************************)
(* A create takes a free name, an unused Secret and, when it is asked for  *)
(* a version, one of that version's images.                                *)
(***************************************************************************)
LEMMA CreateKeepsIInv ==
    ASSUME IInv, NEW n \in Names, NEW id \in Ids, NEW image \in OCPVersions,
           NEW asked \in K8sVersions \cup {NoVersion}, NEW object \in Objects,
           Create(n, id, image, asked, object)
    PROVE  IInv'
<1> DEFINE cluster == [id |-> id, image |-> image, asked |-> asked,
                       object |-> object, published |-> FALSE,
                       remapped |-> matrix # resolverMatrix]
<1>1. TypeOK /\ ClustersChosen /\ SecretsOwned /\ GetSound
  BY DEF IInv
<1>2. cluster \in Cluster /\ Chosen(cluster)
  BY DEF Create, Cluster, Chosen, Resolve, k8sToOCP, ReleaseImageToK8sVersion
<1>3. /\ hc[n] = NoCluster /\ secret[n] = NoSecret
      /\ hc' = [hc EXCEPT ![n] = cluster]
      /\ UNCHANGED <<matrix, images, secret, get>>
  BY DEF Create
<1> HIDE DEF cluster
<1>4. TypeOK'
  BY <1>1, <1>2, <1>3 DEF TypeOK
<1>5. \A m \in Names : hc'[m] = IF m = n THEN cluster ELSE hc[m]
  BY <1>1, <1>3 DEF TypeOK
<1>6. ClustersChosen' /\ SecretsOwned'
  BY <1>1, <1>2, <1>3, <1>5 DEF ClustersChosen, SecretsOwned, Chosen
<1>7. GetSound'
  <2>1. SUFFICES ASSUME get # Idle
                 PROVE  GetSound'
    BY <1>3 DEF GetSound
  <2>2. get.name \in Names
    BY <1>1, <2>1, GetFields DEF TypeOK
  <2>3. Before(get.wanted, get.name) => Before(get.wanted, get.name)'
    BY <1>3, <1>5, <2>2 DEF Before
  <2> QED
    BY <1>1, <1>3, <2>1, <2>3 DEF GetSound, Chosen
<1> QED
  BY <1>4, <1>6, <1>7 DEF IInv

(***************************************************************************)
(* The operator writes and removes Secrets, and images come and go.        *)
(***************************************************************************)
LEMMA SecretKeepsIInv ==
    ASSUME IInv, NEW n \in Names, WriteSecret(n) \/ RemoveSecret(n)
    PROVE  IInv'
<1>1. TypeOK /\ ClustersChosen /\ SecretsOwned /\ GetSound
  BY DEF IInv
<1>2. /\ hc[n] # NoCluster
      /\ UNCHANGED <<matrix, images, hc, get>>
  BY DEF WriteSecret, RemoveSecret
<1>3. hc[n].id \in Ids
  BY <1>1, <1>2 DEF TypeOK, Cluster
<1>4. PICK owner \in {hc[n].id, NoSecret} : secret' = [secret EXCEPT ![n] = owner]
  BY DEF WriteSecret, RemoveSecret
<1>5. TypeOK'
  BY <1>1, <1>2, <1>3, <1>4 DEF TypeOK
<1>6. SecretsOwned'
  BY <1>1, <1>2, <1>4 DEF SecretsOwned, TypeOK
<1>7. ClustersChosen' /\ GetSound'
  BY <1>1, <1>2 DEF ClustersChosen, GetSound, Before, Chosen
<1> QED
  BY <1>5, <1>6, <1>7 DEF IInv

\* The ClusterImageSets change nothing about the clusters there are.
LEMMA ChangeImagesKeepsIInv ==
    ASSUME IInv, NEW o \in OCPVersions, ChangeImages(o)
    PROVE  IInv'
<1>1. images' \subseteq OCPVersions /\ UNCHANGED <<matrix, hc, secret, get>>
  BY DEF ChangeImages, IInv, TypeOK
<1> QED
  BY <1>1 DEF IInv, TypeOK, ClustersChosen, SecretsOwned, GetSound, Before, Chosen

(***************************************************************************)
(* A cluster goes away: a GET that has seen it is overtaken from now on.   *)
(***************************************************************************)
LEMMA RemoveKeepsIInv ==
    ASSUME IInv, NEW n \in Names, Remove(n)
    PROVE  IInv'
<1>1. TypeOK /\ ClustersChosen /\ SecretsOwned /\ GetSound
  BY DEF IInv
<1>2. /\ secret[n] = NoSecret /\ hc' = [hc EXCEPT ![n] = NoCluster]
      /\ UNCHANGED <<matrix, images, secret>>
  BY DEF Remove
<1>3. \A m \in Names : hc'[m] = IF m = n THEN NoCluster ELSE hc[m]
  BY <1>1, <1>2 DEF TypeOK
<1>4. ClustersChosen' /\ SecretsOwned'
  BY <1>1, <1>2, <1>3 DEF ClustersChosen, SecretsOwned, Chosen
<1>5. hc' \in [Names -> Cluster \cup {NoCluster}]
  BY <1>1, <1>2 DEF TypeOK
<1>6. CASE get # Idle /\ get.at = "found" /\ get.name = n
  <2>1. get' = [get EXCEPT !.overtaken = TRUE]
    BY <1>6 DEF Remove
  <2>2. /\ get' \in [at : {"found", "answered"}, wanted : Ids, name : Names, seen : Cluster,
                     kubeconfig : Ids \cup {NoSecret}, overtaken : BOOLEAN]
        /\ get'.overtaken /\ get'.seen = get.seen /\ get'.wanted = get.wanted
    <3>1. get \in [at : {"found", "answered"}, wanted : Ids, name : Names, seen : Cluster,
                   kubeconfig : Ids \cup {NoSecret}, overtaken : BOOLEAN]
      BY <1>1, <1>6, GetFields DEF TypeOK
    <3> QED
      BY <2>1, <3>1
  <2>3. TypeOK'
    BY <1>1, <1>2, <1>5, <2>2 DEF TypeOK, Get
  <2>4. GetSound'
    BY <1>1, <1>2, <1>6, <2>2 DEF GetSound, Chosen
  <2> QED
    BY <1>4, <2>3, <2>4 DEF IInv
<1>7. CASE ~ (get # Idle /\ get.at = "found" /\ get.name = n)
  <2>1. get' = get
    BY <1>7 DEF Remove
  <2>2. TypeOK'
    BY <1>1, <1>2, <1>5, <2>1 DEF TypeOK
  <2>3. GetSound'
    <3>1. SUFFICES ASSUME get # Idle
                   PROVE  GetSound'
      BY <2>1 DEF GetSound
    <3>2. get.name \in Names
      BY <1>1, <3>1, GetFields DEF TypeOK
    <3>3. get.at = "found" /\ Before(get.wanted, get.name) => Before(get.wanted, get.name)'
      BY <1>3, <1>7, <2>1, <3>1, <3>2 DEF Before
    <3> QED
      BY <1>1, <1>2, <2>1, <3>1, <3>3 DEF GetSound, Chosen
  <2> QED
    BY <1>4, <2>2, <2>3 DEF IInv
<1> QED
  BY <1>6, <1>7

-----------------------------------------------------------------------------
(***************************************************************************)
(* The two reads of a GET.                                                 *)
(***************************************************************************)
LEMMA FindKeepsIInv ==
    ASSUME IInv, NEW n \in Names, NEW id \in Ids, FindByInstanceID(id, n)
    PROVE  IInv'
<1>1. TypeOK /\ ClustersChosen /\ SecretsOwned
  BY DEF IInv
<1>2. /\ hc[n] # NoCluster /\ hc[n].id = id /\ UNCHANGED <<matrix, images, hc, secret>>
  BY DEF FindByInstanceID
<1>3. PICK to \in {"found", "answered"} : get' = Found(id, n, to)
  BY DEF FindByInstanceID
<1>4. hc[n] \in Cluster /\ Chosen(hc[n])
  BY <1>1, <1>2 DEF TypeOK, ClustersChosen
<1>5. get' \in Get
  BY <1>3, <1>4 DEF Get, Found
<1>6. /\ get'.wanted = id /\ get'.name = n /\ get'.seen = hc[n] /\ get'.kubeconfig = NoSecret
  BY <1>3 DEF Found
<1>7. GetSound'
  BY <1>2, <1>4, <1>6 DEF GetSound, Before, Chosen
<1>8. TypeOK' /\ ClustersChosen' /\ SecretsOwned'
  BY <1>1, <1>2, <1>5 DEF TypeOK, ClustersChosen, SecretsOwned, Chosen
<1> QED
  BY <1>7, <1>8 DEF IInv

\* The kubeconfig of an answer is of the cluster that was found.
LEMMA ExtractKeepsIInv ==
    ASSUME IInv, ExtractKubeconfig
    PROVE  IInv'
<1>1. TypeOK /\ ClustersChosen /\ SecretsOwned /\ GetSound
  BY DEF IInv
<1>2. get # Idle /\ get.at = "found" /\ UNCHANGED <<matrix, images, hc, secret>>
  BY DEF ExtractKubeconfig
<1>3. PICK kubeconfig \in {secret[get.name], NoSecret} :
        get' = [get EXCEPT !.at = "answered", !.kubeconfig = kubeconfig]
  BY DEF ExtractKubeconfig
<1>4. /\ get \in [at : {"found", "answered"}, wanted : Ids, name : Names, seen : Cluster,
                  kubeconfig : Ids \cup {NoSecret}, overtaken : BOOLEAN]
      /\ get.name \in Names
  BY <1>1, <1>2, GetFields DEF TypeOK
<1>5. kubeconfig \in Ids \cup {NoSecret}
  BY <1>1, <1>4 DEF TypeOK
<1>6. /\ get' \in [at : {"found", "answered"}, wanted : Ids, name : Names, seen : Cluster,
                   kubeconfig : Ids \cup {NoSecret}, overtaken : BOOLEAN]
      /\ get'.at = "answered" /\ get'.kubeconfig = kubeconfig /\ get'.overtaken = get.overtaken
      /\ get'.seen = get.seen /\ get'.wanted = get.wanted
  BY <1>3, <1>4, <1>5
<1>7. kubeconfig \in {NoSecret, get.wanted} \/ get.overtaken
  <2>1. SUFFICES ASSUME kubeconfig # NoSecret, ~get.overtaken
                 PROVE  kubeconfig = get.wanted
    OBVIOUS
  <2>2. Before(get.wanted, get.name)
    BY <1>1, <1>2, <2>1 DEF GetSound
  <2> QED
    BY <1>1, <1>4, <2>1, <2>2 DEF SecretsOwned, Before
<1>8. GetSound'
  BY <1>1, <1>2, <1>6, <1>7 DEF GetSound, Chosen
<1>9. TypeOK' /\ ClustersChosen' /\ SecretsOwned'
  BY <1>1, <1>2, <1>6 DEF TypeOK, Get, ClustersChosen, SecretsOwned, Chosen
<1> QED
  BY <1>8, <1>9 DEF IInv

\* An answer that is out is forgotten.
LEMMA FinishKeepsIInv ==
    ASSUME IInv, Finish
    PROVE  IInv'
<1>1. get' = Idle /\ UNCHANGED <<matrix, images, hc, secret>>
  BY DEF Finish
<1> QED
  BY <1>1 DEF IInv, TypeOK, Get, ClustersChosen, SecretsOwned, GetSound, Chosen

(***************************************************************************)
(* A restart cuts the GET off, so no answer mixes two matrices.  A cluster *)
(* whose image the new one gives another version is remapped; for the      *)
(* others the two matrices say the same.                                   *)
(***************************************************************************)
LEMMA RestartKeepsIInv ==
    ASSUME IInv, NEW m \in Matrices, Restart(m)
    PROVE  IInv'
<1> DEFINE Version(image, of) == ReleaseImageToK8sVersion(image, of)
           mark(cluster) ==
              cluster.remapped \/ Version(cluster.image, m) # Version(cluster.image, matrix)
           Marked(cluster) == [cluster EXCEPT !.remapped = mark(cluster)]
<1>1. TypeOK /\ ClustersChosen /\ SecretsOwned
  BY DEF IInv
<1>2. /\ matrix' = m /\ get' = Idle /\ UNCHANGED <<images, secret>>
      /\ hc' = [n \in Names |-> IF hc[n] = NoCluster THEN NoCluster ELSE Marked(hc[n])]
  BY DEF Restart
<1>3. ASSUME NEW cluster \in Cluster, Chosen(cluster)
      PROVE  /\ Marked(cluster) \in Cluster /\ Marked(cluster) # NoCluster
             /\ Marked(cluster).id = cluster.id
             /\ Marked(cluster).asked # NoVersion /\ ~Marked(cluster).remapped =>
                    Version(Marked(cluster).image, m) = Marked(cluster).asked
  <2>1. mark(cluster) \in BOOLEAN
    BY DEF Cluster
  <2>2. /\ Marked(cluster) \in Cluster
        /\ Marked(cluster).id = cluster.id /\ Marked(cluster).image = cluster.image
        /\ Marked(cluster).asked = cluster.asked
        /\ Marked(cluster).remapped = mark(cluster)
    <3> HIDE DEF mark
    <3> QED
      BY <2>1 DEF Cluster
  <2> HIDE DEF Version
  <2>3. cluster.asked # NoVersion /\ ~cluster.remapped =>
           Version(cluster.image, matrix) = cluster.asked
    BY <1>3 DEF Chosen, Version
  <2> QED
    BY <2>2, <2>3, NoClusterAssumption
<1> HIDE DEF Marked
<1>4. \A n \in Names :
         hc[n] # NoCluster => /\ hc[n] \in Cluster /\ Chosen(hc[n])
                             /\ hc'[n] = Marked(hc[n])
  BY <1>1, <1>2 DEF TypeOK, ClustersChosen
<1>5. TypeOK'
  BY <1>1, <1>2, <1>3, <1>4 DEF TypeOK, Get
<1>6. ClustersChosen'
  BY <1>2, <1>3, <1>4 DEF ClustersChosen, Chosen
<1>7. SecretsOwned'
  BY <1>1, <1>2, <1>3, <1>4 DEF SecretsOwned
<1>8. GetSound'
  BY <1>2 DEF GetSound
<1> QED
  BY <1>5, <1>6, <1>7, <1>8 DEF IInv

-----------------------------------------------------------------------------
(***************************************************************************)
(* Every step keeps the invariant.                                         *)
(***************************************************************************)
LEMMA NextIInv == IInv /\ [Next]_vars => IInv'
<1> SUFFICES ASSUME IInv, [Next]_vars
             PROVE  IInv'
  OBVIOUS
<1>1. CASE UNCHANGED vars
  BY <1>1 DEF vars, IInv, TypeOK, ClustersChosen, SecretsOwned, GetSound, Before, Chosen
<1>2. ASSUME NEW n \in Names, NEW object \in Objects, Report(n, object)
      PROVE  IInv'
  BY <1>2, ReportKeepsIInv
<1>3. ASSUME NEW n \in Names, Publish(n)
      PROVE  IInv'
  <2>1. hc[n] # NoCluster /\ hc[n] \in Cluster
    BY <1>3 DEF Publish, IInv, TypeOK
  <2>2. hc[n].object \in Objects
    BY <2>1 DEF Cluster
  <2> QED
    BY <1>3, <2>2, ReportKeepsIInv
<1> QED
  BY <1>1, <1>2, <1>3, ChangeImagesKeepsIInv, CreateKeepsIInv, SecretKeepsIInv, RemoveKeepsIInv,
     FindKeepsIInv, ExtractKeepsIInv, FinishKeepsIInv, RestartKeepsIInv DEF Next

\* The invariant holds in every state of every behaviour.
LEMMA Invariant == Spec => []IInv
<1> QED
  BY InitIInv, NextIInv, PTL DEF Spec

(***************************************************************************)
(* TypeCorrect: the types.                                                 *)
(***************************************************************************)
THEOREM TypeCorrect == Spec => []TypeOK
<1>1. IInv => TypeOK
  BY DEF IInv
<1> QED
  BY <1>1, Invariant, PTL

(***************************************************************************)
(* OwnAnswers: with any number of clusters under any names, a GET answers  *)
(* with the cluster it was asked for, and with its kubeconfig unless the   *)
(* cluster went away between the two reads (REQ-API-180).                  *)
(***************************************************************************)
THEOREM OwnAnswers == Spec => []AnswerIsOwn
<1>1. IInv => AnswerIsOwn
  BY DEF IInv, GetSound, AnswerIsOwn, Answered
<1> QED
  BY <1>1, Invariant, PTL

(***************************************************************************)
(* VersionSurvives: whatever matrices the runs of the provider read, also  *)
(* ones that map several OCP versions to one Kubernetes version, a cluster *)
(* shows the version it was created for, as long as none of them since the *)
(* create has another version, or none, for its image.                     *)
(***************************************************************************)
THEOREM VersionSurvives == Spec => []VersionReadsBack
<1>1. IInv => VersionReadsBack
  BY DEF IInv, GetSound, Chosen, VersionReadsBack, Answered
<1> QED
  BY <1>1, Invariant, PTL

(***************************************************************************)
(* AdvertisedCreatable: an advertised version may be refused only for the  *)
(* choice among several OCP versions (REQ-ACM-030).                        *)
(***************************************************************************)
THEOREM AdvertisedCreatable == Spec => []AdvertisedIsCreatable
<1>1. AdvertisedIsCreatable
  BY DEF AdvertisedIsCreatable, Discovered, MayRefuse, Resolve, k8sToOCP, resolverMatrix
<1> QED
  BY <1>1, PTL

(***************************************************************************)
(* OneToOneCreatable: while the provider runs with a matrix that gives     *)
(* every Kubernetes version to one OCP version, as the default one does,   *)
(* it is never refused.                                                    *)
(***************************************************************************)
OneToOne == \A o1, o2 \in DOMAIN matrix : matrix[o1] = matrix[o2] => o1 = o2

THEOREM OneToOneCreatable ==
    Spec => [](OneToOne => \A version \in Discovered : ~MayRefuse(version))
<1>1. OneToOne => \A version \in Discovered : ~MayRefuse(version)
  BY DEF OneToOne, Discovered, MayRefuse, Resolve, k8sToOCP, resolverMatrix
<1> QED
  BY <1>1, PTL

-----------------------------------------------------------------------------
(***************************************************************************)
(* Without a type that occurs twice, the first condition of a type and the *)
(* first one that has a text differ only where there is no text.           *)
(***************************************************************************)
LEMMA SameMessage ==
    ASSUME NEW conds, DOMAIN conds \subseteq Nat, DistinctTypes(conds), NEW type
    PROVE  conditionMessage(conds, type) = FirstMessage(conds, {type}, "").text
<1> DEFINE found == OfType(conds, {type})
           told  == {i \in found : conds[i].message # NoText}
<1>1. found # {} => Min(found) \in found
  BY MinExists DEF OfType
<1>2. told # {} => Min(told) \in told
  BY MinExists DEF OfType
<1>3. \A i, j \in found : i = j
  BY DEF OfType, DistinctTypes
<1>4. conditionMessage(conds, type) = IF told = {} THEN NoText ELSE conds[Min(told)].message
  BY DEF conditionMessage
<1>5. FirstMessage(conds, {type}, "").text =
         IF found = {} THEN NoText ELSE conds[Min(found)].message
  BY DEF FirstMessage, NoMessage
<1>6. told = {} => \A i \in found : conds[i].message = NoText
  OBVIOUS
<1>7. told \subseteq found
  OBVIOUS
<1> HIDE DEF found, told
<1> QED
  BY <1>1, <1>2, <1>3, <1>4, <1>5, <1>6, <1>7

(***************************************************************************)
(* ReadsTellTheEvents: statusMessage and conditionMessage of convert.go    *)
(* give, for every HostedCluster that a GET may see, the text that         *)
(* extractHostedClusterMessage of the status monitor gives.                *)
(***************************************************************************)
THEOREM ReadsTellTheEvents == Spec => []ReadAgreesWithEvents
<1>1. TypeOK => ReadAgreesWithEvents
  <2> SUFFICES ASSUME TypeOK, Answered, DistinctTypes(get.seen.object.conditions)
               PROVE  statusMessage(get.seen) =
                         extractHostedClusterMessage(extractConditions(get.seen.object),
                                                     StatusOf(get.seen)).text
    BY DEF ReadAgreesWithEvents
  <2> DEFINE conds == get.seen.object.conditions
  <2>1. get.seen.object \in Objects
    BY GetFields DEF TypeOK, Answered, Cluster
  <2>2. conds \in Seq(Range(conds) \ {Malformed})
    BY <2>1, ObjectsAssumption
  <2>3. extractConditions(get.seen.object) = conds
    BY <2>2 DEF extractConditions, Restrict
  <2>4. DOMAIN conds \subseteq Nat
    BY <2>2
  <2>5. \A type : conditionMessage(conds, type) = FirstMessage(conds, {type}, "").text
    BY <2>4, SameMessage
  <2>6. NoMessage.text = NoText
    BY DEF NoMessage
  <2> QED
    BY <2>3, <2>5, <2>6 DEF statusMessage, extractHostedClusterMessage
<1> QED
  BY <1>1, TypeCorrect, PTL

=============================================================================
