------------------------------ MODULE PodInjection ------------------------------
(***************************************************************************)
(* The webhook (webhook/server/server.go): to a pod created in a namespace  *)
(* that names a OneAgentAPM it adds a container that brings the agent,      *)
(* either from a code module image or by download.  Three places decide     *)
(* which of the two: the image of the container, the pull secret of the pod *)
(* and the script the container runs.  A request is one call: what it reads *)
(* comes from the cache.                                                    *)
(***************************************************************************)

CONSTANT None  \* model value: no pod, no secret

VARIABLES
    pod,        \* the pod, None: there is none
    label,      \* the namespace names the OneAgentAPM in its label
    image,      \* spec.image of the OneAgentAPM is set
    immutable,  \* status.useImmutableImage of the OneAgentAPM
    config,     \* the secret with the script, or None
    pull        \* the pull secret: the token in it, or None

(* An injected pod: the image of the added container, the reference to the pull   *)
(* secret, whether the script copies the agent from the image (or downloads it),  *)
(* and whether the pod has started.                                               *)
Pod == [image : {"operator", "annotation", "spec", "built"},
        pull : BOOLEAN, copies : BOOLEAN, runs : BOOLEAN]

Image(installerUrl, ownImage) ==
    CASE installerUrl \/ ~immutable -> "operator"
      [] ~installerUrl /\ immutable /\ ownImage -> "annotation"
      [] ~installerUrl /\ immutable /\ ~ownImage /\ image -> "spec"
      [] OTHER -> "built"
PullSecrets(ownImage) == ~image /\ ~ownImage /\ immutable
BugCopies(installerUrl) == immutable
Copies(installerUrl) == immutable /\ ~installerUrl

(* A pod is created, with or without the annotations for an installer URL and an *)
(* image of its own.  Without the label the request is refused.                  *)
CreatePod ==
    /\ pod = None /\ label
    /\ \E installerUrl, ownImage \in BOOLEAN :
         pod' = [image |-> Image(installerUrl, ownImage), pull |-> PullSecrets(ownImage),
                 copies |-> Copies(installerUrl), runs |-> FALSE]

(* A pod is created as a copy of an injected one, or the request comes again: an *)
(* annotation says that the container is there, and the pod stays as it is.      *)
CopyPod ==
    /\ pod # None /\ label
    /\ pod' = [pod EXCEPT !.runs = FALSE]

PodDeleted == pod # None /\ pod' = None

(* The volume with the script needs its secret; the image has to be pulled.      *)
Pulled == pod.image # "built" \/ (pod.pull /\ pull \in {"good", "spaced"})
PodStarts ==
    /\ pod # None /\ ~pod.runs
    /\ config # None /\ Pulled
    /\ pod' = [pod EXCEPT !.runs = TRUE]

================================================================================
