------------------------------ MODULE MCForge ------------------------------
(* Forge on a small instance, with the values that are alike interchangeable. *)
EXTENDS Forge, TLC

Ids == Permutations(Name) \cup Permutations(Handle) \cup Permutations(State)
         \cup Permutations(Request) \cup Permutations(Repository) \cup Permutations(Issue)

InFlight(at) == \E q \in Request : req[q].at \in at

\* Bound: sign-ins through GitHub are over before there is an organization; every sign-up,
\* sign-in, logout and change of members before there is a repository, whose issues need
\* no more than some members.
AccountsSettleFirst ==
  /\ (\E s \in User : namespaces[s].kind = "organization") =>
       ~ InFlight({"findUser", "createUser"}) /\ \A s \in State : states[s] # "issued"
  /\ made # {} =>
       ~ InFlight({"insertUser", "insertNamespace", "issueSession", "members"}) /\ sessions = users
=============================================================================
