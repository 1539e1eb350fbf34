--------------------------- MODULE MCComponents ---------------------------
(***************************************************************************)
(* The components that share no state with one another, in one model: a    *)
(* behaviour is one of one component, chosen at the start, while the       *)
(* others stay as they begin.  What holds here of a component's variables  *)
(* is what holds of its own specification; a component's fairness is asked *)
(* for only in its own behaviours.                                         *)
(***************************************************************************)
EXTENDS Streams, Sessions, Bundles, Wake, Working, Blobs, Enrollment, Registry, Requests

VARIABLE part  \* the component that moves

rests(p) ==
  /\ p # "streams"  => UNCHANGED streamVars
  /\ p # "sessions" => UNCHANGED sessionVars
  /\ p # "bundles"  => UNCHANGED bundleVars
  /\ p # "wake"     => UNCHANGED wakeVars
  /\ p # "working"  => UNCHANGED workingVars
  /\ p # "blobs"    => UNCHANGED blobVars
  /\ p # "enrollment" => UNCHANGED enrollmentVars
  /\ p # "registry" => UNCHANGED registryVars
  /\ p # "requests" => UNCHANGED requestVars

Init ==
  /\ part \in {"streams", "sessions", "bundles", "wake", "working", "blobs", "enrollment",
              "registry", "requests"}
  /\ StreamsInit /\ SessionsInit /\ BundlesInit /\ WakeInit /\ WorkingInit
  /\ BlobsInit /\ EnrollmentInit /\ RegistryInit /\ RequestsInit
  \* Where a component may begin in several ways, one does for it to rest in.
  /\ part # "blobs" => row = "new" /\ nameOf = [f \in Files |-> CHOOSE x \in FileNames : TRUE]
  /\ part # "enrollment" => peer = CHOOSE v \in Peers : TRUE
Next ==
  /\ UNCHANGED part
  /\ \/ part = "streams"  /\ StreamsNext  /\ rests("streams")
     \/ part = "sessions" /\ SessionsNext /\ rests("sessions")
     \/ part = "bundles"  /\ BundlesNext  /\ rests("bundles")
     \/ part = "wake"     /\ WakeNext     /\ rests("wake")
     \/ part = "working"  /\ WorkingNext  /\ rests("working")
     \/ part = "blobs"    /\ BlobsNext    /\ rests("blobs")
     \/ part = "enrollment" /\ EnrollmentNext /\ rests("enrollment")
     \/ part = "registry" /\ RegistryNext /\ rests("registry")
     \/ part = "requests" /\ RequestsNext /\ rests("requests")

FairStreams ==
  /\ \A p \in Flushers : WF_streamVars(part = "streams" /\ Flushes(p))
  /\ WF_streamVars(part = "streams" /\ LoopReturns)
  /\ WF_streamVars(part = "streams" /\ (FinalFlush \/ CloseReturns))
\* Weak fairness is enough where messages and processes are bounded.
FairSessions ==
  /\ \A m \in Messages : WF_sessionVars(part = "sessions" /\ Handles(m))
  /\ \A p \in ProcIds : /\ WF_sessionVars(part = "sessions" /\ Works(p))
                        /\ WF_sessionVars(part = "sessions" /\ Pumps(p))
  /\ \A t \in SThreads : WF_sessionVars(part = "sessions" /\ SweepFinds(t))
  /\ WF_sessionVars(part = "sessions" /\ SweepCloses)
FairBundles ==
  /\ \A p \in Pushers : WF_bundleVars(part = "bundles" /\ Pushes(p))
  /\ WF_bundleVars(part = "bundles" /\ Applies)
FairWorking ==
  /\ WF_workingVars(part = "working" /\ Worker)
  /\ WF_workingVars(part = "working" /\ TickWorking)
  /\ \A t \in Indicated :
       /\ WF_workingVars(part = "working" /\ Refresh(t))
       /\ WF_workingVars(part = "working" /\ HandOver(t))

FairEnrollment ==
  \A h \in Handshakes : /\ WF_enrollmentVars(part = "enrollment" /\ Dial(h))
                        /\ WF_enrollmentVars(part = "enrollment" /\ Shakes(h))

allVars == <<part, streamVars, sessionVars, bundleVars, wakeVars, workingVars, blobVars,
             enrollmentVars, registryVars, requestVars>>
Spec == Init /\ [][Next]_allVars
        /\ FairStreams /\ FairSessions /\ FairBundles /\ FairWorking /\ FairEnrollment
=============================================================================
