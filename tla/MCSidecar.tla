----------------------------- MODULE MCSidecar -----------------------------
(* Instances of Sidecar for TLC: what the client may ask for, in order. *)
EXTENDS Sidecar, TLC

\* Two requests of any kind but screenshots, one after the other.
OneByOne == {[script |-> <<{"nav", "eval", "page", "newPage"}, {"nav", "eval", "call", "newTab", "health"}>>,
              overlap |-> FALSE, events |-> {"popup", "crash"}]}

\* Two navigations of a page that lives its own life.
Navigations == {[script |-> <<{"nav"}, {"nav"}, {}>>, overlap |-> FALSE,
                 events |-> {"popup", "own", "load"}]}

\* Three requests that overlap, while the page goes away or the browser exits.
Crowd == {[script |-> <<{"newPage"}, {"eval", "shot"}, {"close", "clip"}>>,
           overlap |-> TRUE, events |-> {"crash", "detach"}]}

\* Two requests of a page that is re-attached or loses its context.
Reattached == {[script |-> <<{"nav"}, {"eval"}, {}>>, overlap |-> TRUE, events |-> {"popup", "reattach", "context"}]}

\* The same of a page whose main frame is replaced, while the client may leave.
Swapped == {[script |-> <<{"nav"}, {"eval"}, {}>>, overlap |-> FALSE, events |-> {"popup", "swap", "eof"}]}

AnyPlan == Navigations \cup Crowd \cup Reattached \cup Swapped

\* Addresses are only compared.
Addresses == Permutations(Urls)
=============================================================================
