--------------------------- MODULE DocumentLibrary ---------------------------
(***************************************************************************)
(* What the document service promises about the files of one session, in   *)
(* terms of the files alone: `shown` is what the archive lets a reader     *)
(* browse, `held` the original files that are kept.  A request names the   *)
(* files it adds (in a new version) or removes.  It changes what is shown  *)
(* in one step, keeps or drops the originals one at a time afterwards, and *)
(* may be given up between any two of these steps.  Files that a request   *)
(* does not name are never touched by it, except that a session which      *)
(* keeps no original starts from nothing.  After a request was given up    *)
(* half way (`damaged`), later requests promise less about the files they  *)
(* name, and still nothing may happen to the others.  All this it promises *)
(* as long as it is trusted, which is to say asked one thing at a time.    *)
(***************************************************************************)
EXTENDS Naturals, FiniteSets

CONSTANTS File,        \* names of the files a session may hold
          Version      \* versions of a file's content

VARIABLES shown,       \* [File -> SUBSET Version]: the versions in the archive
          held,        \* [File -> SUBSET Version]: the original kept, if any
          request,     \* the request being worked on; no adds, no removes: none
          damaged,     \* a request was given up after it began to publish
          trusted      \* nothing has happened yet that the promise excepts

fileVars == <<shown, held, request, damaged>>
libraryVars == <<fileVars, trusted>>

NoRequest == [adds |-> {}, removes |-> {}, version |-> 0]

HeldFiles == {f \in File : held[f] # {}}

LibraryInit ==
    /\ shown = [f \in File |-> {}]
    /\ held = [f \in File |-> {}]
    /\ request = NoRequest
    /\ damaged = FALSE
    /\ trusted = TRUE

(* The backend asks for files to be added or for files to be removed.      *)
Ask(adds, removes, version) ==
    /\ request = NoRequest
    /\ adds \cup removes # {} /\ adds \cap removes = {}
    /\ request' = [adds |-> adds, removes |-> removes, version |-> version]
    /\ UNCHANGED <<shown, held, damaged>>

(* What is shown once the request's documents are published: exactly the   *)
(* change asked for, nothing at all when no original would remain.         *)
Wanted(f) ==
    IF f \in request.adds THEN {request.version}
    ELSE IF f \in request.removes \/ HeldFiles \subseteq request.removes THEN {}
    ELSE shown[f]

Named == request.adds \cup request.removes

Show ==
    /\ request # NoRequest
    /\ \/ shown' = [f \in File |-> Wanted(f)]
       \/ /\ damaged
          /\ \A f \in File :
                IF f \in Named
                THEN shown'[f] \subseteq shown[f] \cup {request.version}
                ELSE shown'[f] \in {shown[f], Wanted(f)}
          /\ shown' \in [File -> SUBSET Version]
    /\ UNCHANGED <<held, request, damaged>>

(* An original is kept only when what is shown is the request's version.   *)
Hold(f) ==
    /\ f \in request.adds
    /\ request.version \in shown[f]
    /\ held' = [held EXCEPT ![f] = {request.version}]
    /\ UNCHANGED <<shown, request, damaged>>

Drop(f) ==
    /\ f \in request.removes
    /\ shown[f] = {} \/ damaged
    /\ held' = [held EXCEPT ![f] = {}]
    /\ UNCHANGED <<shown, request, damaged>>

(* Something fails on the way.                                             *)
Break ==
    /\ request # NoRequest
    /\ damaged' = TRUE
    /\ UNCHANGED <<shown, held, request>>

(* The request ends; `damaged` may be cleared only when the files shown    *)
(* are the files held again.                                               *)
End ==
    /\ request # NoRequest
    /\ request' = NoRequest
    /\ \/ damaged' = damaged
       \/ damaged' = FALSE /\ shown = held
    /\ UNCHANGED <<shown, held>>

Serve ==
    \/ \E adds, removes \in SUBSET File, version \in Version :
          Ask(adds, removes, version)
    \/ Show
    \/ \E f \in File : Hold(f) \/ Drop(f)
    \/ Break
    \/ End

LibraryNext ==
    \/ trusted /\ trusted' /\ Serve
    \/ ~trusted'

LibrarySpec == LibraryInit /\ [][LibraryNext]_libraryVars
==============================================================================
