----------------------------- MODULE WindowPool -----------------------------
(***************************************************************************)
(* What exynos_atomic_check_windows promises of the shared windows, without *)
(* atomic states, copies of CRTC states, locks or masks: each window has    *)
(* one owner or is free, and one step may move many windows, but each       *)
(* client either takes windows or gives some up, and what it takes was free.*)
(***************************************************************************)
CONSTANTS Window, Client, Free

VARIABLE owner

Init == owner = [w \in Window |-> Free]

Held(c) == {w \in Window : owner[w] = c}

(* The commit of an atomic state that covers several clients. *)
Resize ==
  /\ owner' \in [Window -> Client \cup {Free}]
  /\ \A w \in Window : owner[w] = Free \/ owner'[w] \in {Free, owner[w]}
  /\ \A c \in Client : Held(c) \subseteq Held(c)' \/ Held(c)' \subseteq Held(c)

Spec == Init /\ [][Resize]_owner
=============================================================================
