---------------------------- MODULE PortForward ----------------------------
(***************************************************************************)
(* k8s_port_forward and kill_k8s_proxy: the local port of one package and  *)
(* the kubectl processes that forward it.                                  *)
(*                                                                         *)
(* The port is computed from the name of the package alone                 *)
(* (get_port_number), so the instances of a package in several namespaces  *)
(* share it.  k8s_port_forward tells the process that holds the port to    *)
(* stop and starts kubectl, and waits for neither: a process that has not  *)
(* bound the port yet is not seen by kill_k8s_proxy, one that was told to  *)
(* stop holds the port until it does, and one that finds it held exits.    *)
(***************************************************************************)
EXTENDS Integers

CONSTANTS
    Ns,         \* the namespaces the package is deployed in
    NoNs,       \* nobody listens to the port
    MaxForwards \* bound on the forwards that are requested

ASSUME PortAssumption == NoNs \notin Ns /\ MaxForwards \in Nat

VARIABLES
    listening, \* the namespace the process that holds the port forwards to
    leaving,   \* has that process been sent SIGTERM?
    starting,  \* Ns -> the processes started that have not bound the port
    forwards,  \* the forwards requested so far
    overtook,  \* did the last forward find the port held?
    dropped    \* has the process that held it died by itself since?

port == <<listening, leaving, starting, forwards, overtook, dropped>>

PortTypeOK ==
    /\ listening \in Ns \cup {NoNs}
    /\ leaving \in BOOLEAN
    /\ starting \in [Ns -> Nat]
    /\ forwards \in 0..MaxForwards
    /\ overtook \in BOOLEAN /\ dropped \in BOOLEAN

PortInit ==
    /\ listening = NoNs
    /\ starting = [n \in Ns |-> 0]
    /\ leaving = FALSE
    /\ forwards = 0
    /\ overtook = FALSE /\ dropped = FALSE

Taken == listening # NoNs

(***************************************************************************)
(* kill_k8s_proxy sends SIGTERM to the process that holds the port, if it  *)
(* can be looked at: an exception of psutil is swallowed.                  *)
(***************************************************************************)
Kill == leaving' \in {leaving, Taken}

(* Seeded fault: a port that was forwarded once is trusted to still be. *)
ForwardOnce(n) ==
    /\ forwards < MaxForwards
    /\ forwards' = forwards + 1
    /\ Kill
    /\ starting' = IF forwards = 0
                   THEN [starting EXCEPT ![n] = @ + 1] ELSE starting
    /\ overtook' = Taken /\ dropped' = FALSE
    /\ UNCHANGED listening

(* Nothing is awaited between the signal and the start of kubectl. *)
Forward(n) ==
    /\ forwards < MaxForwards
    /\ forwards' = forwards + 1
    /\ Kill
    /\ starting' = [starting EXCEPT ![n] = @ + 1]
    /\ overtook' = Taken /\ dropped' = FALSE
    /\ UNCHANGED listening

(* kubectl binds the port, or exits when another process holds it. *)
Bind(n) ==
    /\ starting[n] > 0
    /\ starting' = [starting EXCEPT ![n] = @ - 1]
    /\ listening' = IF Taken THEN listening ELSE n
    /\ UNCHANGED <<leaving, forwards, overtook, dropped>>

(* The process that was told to stop ends, at a time of its own. *)
Leave ==
    /\ leaving
    /\ listening' = NoNs /\ leaving' = FALSE
    /\ UNCHANGED <<starting, forwards, overtook, dropped>>

(* kubectl port-forward exits when it loses the pod. *)
Drop ==
    /\ Taken /\ ~leaving
    /\ listening' = NoNs
    /\ dropped' = TRUE
    /\ UNCHANGED <<leaving, starting, forwards, overtook>>

-----------------------------------------------------------------------------
(***************************************************************************)
(* k8s_port_forward may leave the port unserved: it starts kubectl while   *)
(* the process it has told to stop still holds the port, the new one exits *)
(* and then the old one.  That, and a kubectl that dies by itself, are the *)
(* only ways, and neither lasts: once every process started has bound the  *)
(* port or exited, the port is served if the last call found it free,      *)
(* whatever the calls and the namespaces before it.                        *)
(***************************************************************************)
Settled == \A n \in Ns : starting[n] = 0

PortRecovers ==
    forwards > 0 /\ Settled /\ ~overtook /\ ~dropped => Taken /\ ~leaving
=============================================================================
