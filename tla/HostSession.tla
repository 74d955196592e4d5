----------------------------- MODULE HostSession -----------------------------
(***************************************************************************)
(* Four parts of the host runtime that share no state with one another in  *)
(* these models: the measurement of presentations, the geometry of the     *)
(* scene and its captures, the life of the process, and the buffers of the *)
(* output.  A behaviour is one of one of them, while the others rest.      *)
(***************************************************************************)
EXTENDS PresentationMeasurement, SceneGeometry, RuntimeSession, ScanoutBuffers

CONSTANTS
  Parts,  \* the parts to look at
  Boots   \* the clocks the measurement starts from

ASSUME PartsAssumption == Parts \subseteq {"measure", "scene", "session", "scanout"}

VARIABLE part

sessionVars == <<proc, disk, book>>
vars == <<part, meas, world, scene, moves, proc, disk, book, host, screen, content>>

Init ==
  /\ part \in Parts
  /\ MeasInit(Boots) /\ SceneInit /\ SessionInit /\ ScanoutInit
  /\ part = "scanout" \/ host.card = CHOOSE c \in Card : TRUE
  /\ part = "scene" \/ scene = NewScene(CHOOSE s \in Scale : TRUE)

Measure == MeasNext /\ UNCHANGED <<scene, moves, proc, disk, book, host, screen, content>>
Scene   == (PaneNext \/ RootNext)
           /\ UNCHANGED <<meas, world, proc, disk, book, host, screen, content>>
Session == SessionNext /\ UNCHANGED <<meas, world, scene, moves, host, screen, content>>
Scanout == ScanoutNext /\ UNCHANGED <<meas, world, scene, moves, proc, disk, book>>

Next ==
  /\ part' = part
  /\ \/ part = "measure" /\ Measure
     \/ part = "scene" /\ Scene
     \/ part = "session" /\ Session
     \/ part = "scanout" /\ Scanout

Spec == Init /\ [][Next]_vars

\* The main thread goes on, whatever it meets
RetrySpec == Spec /\ WF_sessionVars(Progress)
=============================================================================
