--------------------------- MODULE MCInviteDialog ---------------------------
(* A call of each kind: with a fault of the environment, or without.       *)
EXTENDS InviteDialog

Plain == [rel |-> FALSE, qos |-> "none", refresher |-> "none",
          hold |-> FALSE, shutdown |-> FALSE, faults |-> 0]

MCPlain == {Plain}

(* Mandatory preconditions are left without faults for the size of it.     *)
MCModes ==
  {[Plain EXCEPT !.rel = TRUE, !.qos = "mandatory"]} \cup
  {[m EXCEPT !.faults = 1] : m \in
    {Plain,
     [Plain EXCEPT !.rel = TRUE],
     [Plain EXCEPT !.rel = TRUE, !.qos = "optional"],
     [Plain EXCEPT !.refresher = "a"],
     [Plain EXCEPT !.refresher = "b"],
     [Plain EXCEPT !.hold = TRUE],
     [Plain EXCEPT !.shutdown = TRUE]}}

MCLiveModes ==
  {[Plain EXCEPT !.faults = 1],
   [Plain EXCEPT !.rel = TRUE],
   [Plain EXCEPT !.refresher = "a"],
   [Plain EXCEPT !.refresher = "b"],
   [Plain EXCEPT !.hold = TRUE]}
=============================================================================
