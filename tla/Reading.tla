------------------------------ MODULE Reading ------------------------------
(***************************************************************************)
(* What a client learns of a cluster: GetCluster and HostedClusterToCluster*)
(* of internal/cluster, and the way of a Kubernetes version from the       *)
(* registry's list through CreateCluster's choice of a release image back  *)
(* into the answer to a GET.                                               *)
(*                                                                         *)
(* A GET reads the HostedCluster and then, if it is usable, the Secret     *)
(* with its kubeconfig: two calls, between which clusters are deleted and  *)
(* others are created under the same name.  A release image stands for the *)
(* OCP version that ExtractOCPVersion finds in its tag.                    *)
(*                                                                         *)
(* The compatibility matrix is read once, when the provider starts: it may *)
(* be another one after a restart, while the clusters are still there.     *)
(***************************************************************************)
EXTENDS StatusMapping

CONSTANTS
    Ids,            \* cluster ids
    Names,          \* names of HostedClusters
    OCPVersions,    \* OCP versions that a release image can have
    Matrices,       \* what LoadCompatibilityMatrix may return, OCP to Kubernetes version
    DefaultCompatibilityMatrix,
    Objects,        \* what the operator may have written to a HostedCluster
    NoCluster, NoSecret, NoVersion

ASSUME MatricesAssumption ==
    \A m \in Matrices \cup {DefaultCompatibilityMatrix} : DOMAIN m \subseteq OCPVersions

K8sVersions ==
    UNION {{m[o] : o \in DOMAIN m} : m \in Matrices \cup {DefaultCompatibilityMatrix}}

ASSUME SentinelsAssumption == NoSecret \notin Ids /\ NoVersion \notin K8sVersions

VARIABLES
    matrix,     \* cfg.VersionMatrix of the process that runs
    images,     \* OCP versions that have a ClusterImageSet
    hc,         \* the HostedCluster of each name
    secret,     \* whose kubeconfig the Secret of each name holds
    get         \* a GET under way

vars == <<matrix, images, hc, secret, get>>

(***************************************************************************)
(* asked is the version of the request, NoVersion if it named an image.    *)
(* published: status.kubeConfig names the Secret.  remapped is history: a  *)
(* matrix has been read that gives the image another version, or none,     *)
(* than the matrix by which the image was chosen.                          *)
(***************************************************************************)
Cluster ==
    [id : Ids, image : OCPVersions, asked : K8sVersions \cup {NoVersion},
     object : Objects, published : BOOLEAN, remapped : BOOLEAN]

\* HostedCluster.Status.Conditions is a typed list: no item of it is malformed.
ASSUME ObjectsAssumption ==
    \A object \in Objects :
        object.conditions \in Seq(Range(object.conditions) \ {Malformed})

ASSUME NoClusterAssumption == NoCluster \notin Cluster

Idle == [at |-> "idle"]

Get ==
    {Idle} \cup
    [at : {"found", "answered"}, wanted : Ids, name : Names, seen : Cluster,
     kubeconfig : Ids \cup {NoSecret}, overtaken : BOOLEAN]

\* Mutant of Discovered: every version of the matrix is advertised.
DiscoveredWholeMatrix == {matrix[o] : o \in DOMAIN matrix}

(***************************************************************************)
(* The versions that the registrar finds in the ClusterImageSets.          *)
(***************************************************************************)
Discovered == {matrix[o] : o \in images \cap DOMAIN matrix}

\* A create falls back to the default when the file has no entries; nothing else does.
resolverMatrix == IF DOMAIN matrix = {} THEN DefaultCompatibilityMatrix ELSE matrix

(***************************************************************************)
(* k8sToOCP ranges over a map: it returns any one of the OCP versions of   *)
(* version, and Resolve then looks for an image of that one only.          *)
(***************************************************************************)
k8sToOCP(version) == {o \in DOMAIN resolverMatrix : resolverMatrix[o] = version}

\* Mutant of Resolve: the first ClusterImageSet of any version will do.
ResolveAnyImage(version) == images

Resolve(version) == k8sToOCP(version) \cap images

MayRefuse(version) == ~(k8sToOCP(version) \subseteq Resolve(version))

ReleaseImageToK8sVersion(image, m) == IF image \in DOMAIN m THEN m[image] ELSE NoVersion

-----------------------------------------------------------------------------
(***************************************************************************)
(* What HostedClusterToCluster makes of a HostedCluster.                   *)
(***************************************************************************)
StatusOf(cluster) == MapConditionsToStatus(cluster.object.conditions, cluster.object.deleting)

conditionMessage(conds, type) ==
    LET told == {i \in OfType(conds, {type}) : conds[i].message # NoText}
    IN  IF told = {} THEN NoText ELSE conds[Min(told)].message

\* Mutant of statusMessage: UNAVAILABLE is explained by Progressing.
statusMessageOfProgressing(cluster) ==
    CASE StatusOf(cluster) = "FAILED" -> conditionMessage(cluster.object.conditions, "Degraded")
      [] StatusOf(cluster) = "UNAVAILABLE" -> conditionMessage(cluster.object.conditions, "Progressing")
      [] OTHER -> NoText

statusMessage(cluster) ==
    CASE StatusOf(cluster) = "FAILED" -> conditionMessage(cluster.object.conditions, "Degraded")
      [] StatusOf(cluster) = "UNAVAILABLE" -> conditionMessage(cluster.object.conditions, "Available")
      [] OTHER -> NoText

Usable(cluster) == StatusOf(cluster) \in {"READY", "UNAVAILABLE"}

-----------------------------------------------------------------------------
Init ==
    /\ matrix \in Matrices
    /\ images \in SUBSET OCPVersions
    /\ hc = [n \in Names |-> NoCluster]
    /\ secret = [n \in Names |-> NoSecret]
    /\ get = Idle

ChangeImages(o) ==
    /\ images' = IF o \in images THEN images \ {o} ELSE images \cup {o}
    /\ UNCHANGED <<matrix, hc, secret, get>>

(***************************************************************************)
(* The provider goes down and comes up, with the file that it then finds.  *)
(* A GET under way is cut off.                                             *)
(***************************************************************************)
Restart(m) ==
    /\ matrix' = m
    /\ hc' = [n \in Names |->
                IF hc[n] = NoCluster THEN NoCluster
                ELSE [hc[n] EXCEPT !.remapped =
                        @ \/ ReleaseImageToK8sVersion(hc[n].image, m)
                              # ReleaseImageToK8sVersion(hc[n].image, matrix)]]
    /\ get' = Idle
    /\ UNCHANGED <<images, secret>>

(***************************************************************************)
(* CreateCluster with a version, or with the hint release_image.           *)
(***************************************************************************)
Create(n, id, image, asked, object) ==
    /\ hc[n] = NoCluster /\ secret[n] = NoSecret
    /\ \A m \in Names : hc[m] # NoCluster => hc[m].id # id
    /\ asked = NoVersion \/ image \in Resolve(asked)
    /\ hc' = [hc EXCEPT ![n] = [id |-> id, image |-> image, asked |-> asked,
                                object |-> object, published |-> FALSE,
                                remapped |-> matrix # resolverMatrix]]
    /\ UNCHANGED <<matrix, images, secret, get>>

(***************************************************************************)
(* External: the HyperShift operator reports conditions, writes the Secret *)
(* and then its name, and on deletion removes the Secret and then the      *)
(* HostedCluster.                                                          *)
(***************************************************************************)
Report(n, object) ==
    /\ hc[n] # NoCluster
    /\ hc[n].object.deleting => object.deleting
    /\ hc' = [hc EXCEPT ![n].object = object]
    /\ UNCHANGED <<matrix, images, secret, get>>

WriteSecret(n) ==
    /\ hc[n] # NoCluster /\ ~hc[n].object.deleting
    /\ secret' = [secret EXCEPT ![n] = hc[n].id]
    /\ UNCHANGED <<matrix, images, hc, get>>

Publish(n) ==
    /\ hc[n] # NoCluster /\ secret[n] # NoSecret
    /\ hc' = [hc EXCEPT ![n].published = TRUE]
    /\ UNCHANGED <<matrix, images, secret, get>>

RemoveSecret(n) ==
    /\ hc[n] # NoCluster /\ hc[n].object.deleting
    /\ secret' = [secret EXCEPT ![n] = NoSecret]
    /\ UNCHANGED <<matrix, images, hc, get>>

Remove(n) ==
    /\ hc[n] # NoCluster /\ hc[n].object.deleting /\ secret[n] = NoSecret
    /\ hc' = [hc EXCEPT ![n] = NoCluster]
    /\ get' = IF get # Idle /\ get.at = "found" /\ get.name = n
              THEN [get EXCEPT !.overtaken = TRUE] ELSE get
    /\ UNCHANGED <<matrix, images, secret>>

-----------------------------------------------------------------------------
(***************************************************************************)
(* GetCluster: findByInstanceID, and the Secret of a usable cluster.       *)
(***************************************************************************)
Found(id, n, to) ==
    [at |-> to, wanted |-> id, name |-> n, seen |-> hc[n],
     kubeconfig |-> NoSecret, overtaken |-> FALSE]

\* Mutant of FindByInstanceID: every managed cluster matches.
FindAnyInstance(id, n) ==
    /\ get = Idle
    /\ hc[n] # NoCluster
    /\ get' = Found(id, n, IF Usable(hc[n]) /\ hc[n].published THEN "found" ELSE "answered")
    /\ UNCHANGED <<matrix, images, hc, secret>>

FindByInstanceID(id, n) ==
    /\ get = Idle
    /\ hc[n] # NoCluster /\ hc[n].id = id
    /\ get' = Found(id, n, IF Usable(hc[n]) /\ hc[n].published THEN "found" ELSE "answered")
    /\ UNCHANGED <<matrix, images, hc, secret>>

\* A Secret that is not there, or a failed call, leaves the answer without.
ExtractKubeconfig ==
    /\ get # Idle /\ get.at = "found"
    /\ \E kubeconfig \in {secret[get.name], NoSecret} :
        get' = [get EXCEPT !.at = "answered", !.kubeconfig = kubeconfig]
    /\ UNCHANGED <<matrix, images, hc, secret>>

Finish ==
    /\ get # Idle /\ get.at = "answered"
    /\ get' = Idle
    /\ UNCHANGED <<matrix, images, hc, secret>>

Next ==
    \/ \E m \in Matrices : Restart(m)
    \/ \E o \in OCPVersions : ChangeImages(o)
    \/ \E n \in Names :
        \/ \E id \in Ids, image \in OCPVersions, asked \in K8sVersions \cup {NoVersion}, object \in Objects :
              Create(n, id, image, asked, object)
        \/ \E object \in Objects : Report(n, object)
        \/ WriteSecret(n) \/ Publish(n) \/ RemoveSecret(n) \/ Remove(n)
        \/ \E id \in Ids : FindByInstanceID(id, n)
    \/ ExtractKubeconfig
    \/ Finish

Spec == Init /\ [][Next]_vars

-----------------------------------------------------------------------------
TypeOK ==
    /\ matrix \in Matrices
    /\ images \subseteq OCPVersions
    /\ hc \in [Names -> Cluster \cup {NoCluster}]
    /\ secret \in [Names -> Ids \cup {NoSecret}]
    /\ get \in Get

Answered == get # Idle /\ get.at = "answered"

(***************************************************************************)
(* AnswerIsOwn: REQ-API-180.  What a GET returns, kubeconfig included, is  *)
(* that of the cluster with the given id.  Only when that cluster went     *)
(* away between the two reads may the kubeconfig be another's, of the same *)
(* name.                                                                   *)
(***************************************************************************)
AnswerIsOwn ==
    Answered =>
        /\ get.seen.id = get.wanted
        /\ get.kubeconfig \in {NoSecret, get.wanted} \/ get.overtaken

(***************************************************************************)
(* VersionReadsBack: a cluster created for a Kubernetes version is shown   *)
(* with that version, although only its release image is stored, whichever *)
(* OCP version was chosen, whatever happened to the ClusterImageSets and   *)
(* over restarts - unless a matrix was read that has another version, or   *)
(* none, for the image.  A file without entries is such a matrix: a create *)
(* resolves by the default one, a GET does not.                            *)
(***************************************************************************)
VersionReadsBack ==
    Answered /\ get.seen.asked # NoVersion /\ ~get.seen.remapped =>
        ReleaseImageToK8sVersion(get.seen.image, matrix) = get.seen.asked

(***************************************************************************)
(* AdvertisedIsCreatable: REQ-ACM-030.  A version that the registrar finds *)
(* is not refused by a create against the same ClusterImageSets, unless    *)
(* the matrix gives it to several OCP versions and the map's order picks   *)
(* one without a ClusterImageSet.                                          *)
(***************************************************************************)
AdvertisedIsCreatable ==
    \A version \in Discovered :
        MayRefuse(version) =>
            \E o1, o2 \in k8sToOCP(version) : o1 \in images /\ o2 \notin images

(***************************************************************************)
(* ReadAgreesWithEvents: the message of a GET is the one that the status   *)
(* monitor extracts, with code of its own, from the same HostedCluster.    *)
(* conditionMessage skips a condition without a text and the monitor takes *)
(* the first one as it is: they agree because no type occurs twice.        *)
(***************************************************************************)
ReadAgreesWithEvents ==
    Answered /\ DistinctTypes(get.seen.object.conditions) =>
        statusMessage(get.seen) =
            extractHostedClusterMessage(extractConditions(get.seen.object), StatusOf(get.seen)).text

=============================================================================
