-------------------------------- MODULE CoreMC --------------------------------
(***************************************************************************)
(* The core: its configuration, and the synchroniser of a source root.     *)
(* What the configuration decides is a constant of FileWatcher, so that    *)
(* the two share no variable, and one of them moves in a behaviour.        *)
(***************************************************************************)
EXTENDS FileWatcherMC, SourceRoots

VARIABLE
    part     \* BOUND: the part of the core that moves

Parts == {"watcher", "configuration"}

-----------------------------------------------------------------------------
(***************************************************************************)
(* Strings of up to six tokens over two pieces of names.                   *)
(***************************************************************************)
Strings(n) == UNION {[1 .. k -> Token] : k \in 1 .. n}

AbsoluteRoots == {s \in Strings(4) : StartsWithSlash(s) /\ Normal(s) # <<>>}
NormalPaths   == {s \in Strings(6) : StartsWithSlash(s) /\ Normal(s) = s}
Relative      == {s \in Strings(3) : Normal(s) # <<>>}

-----------------------------------------------------------------------------
\* A part that does not move is at one of its initial states.
CoreInit ==
    /\ part \in Parts
    /\ Init
    /\ RootsInit
    /\ \/ part = "watcher"
       \/ local = [p \in Path |-> IF p = Root THEN Dir ELSE Absent] /\ remote = local
    /\ \/ part = "configuration"
       \/ sourceRoots = <<CHOOSE r \in Roots : TRUE>> /\ destinations = 1

CoreNext ==
    \/ part = "watcher" /\ Next /\ UNCHANGED <<part, rootVars>>
    \/ part = "configuration" /\ RootsNext /\ UNCHANGED <<part, vars>>

CoreSpec == CoreInit /\ [][CoreNext]_<<part, vars, rootVars>>
===============================================================================
