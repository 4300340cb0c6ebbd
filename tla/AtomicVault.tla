---------------------------- MODULE AtomicVault ----------------------------
(***************************************************************************)
(* What a managed namespace promises: it holds at most one whole bundle,   *)
(* always one that was asked for, and replaces it by another one in a      *)
(* single step.  A bundle, once there, is never lost and never mixed with  *)
(* another.  All this until somebody changes the namespace by hand.        *)
(***************************************************************************)

CONSTANTS
  Bundles,   \* bundles that can be asked for
  Nothing,   \* no bundle was published yet
  Spoiled    \* changed by hand: nothing is promised any more

VARIABLES
  content,   \* the bundle in place
  asked      \* bundles asked for so far, and the initial one

vars == <<content, asked>>

Init ==
  /\ content \in Bundles \cup {Nothing}
  /\ asked = {content} \ {Nothing}

Ask(b) ==
  /\ asked' = asked \cup {b}
  /\ UNCHANGED content

Publish(b) ==
  /\ b \in asked
  /\ content # Spoiled
  /\ content' = b
  /\ UNCHANGED asked

Spoil ==
  /\ content' = Spoiled
  /\ UNCHANGED asked

Next == Spoil \/ \E b \in Bundles : Ask(b) \/ Publish(b)

Spec == Init /\ [][Next]_vars

=============================================================================
