-------------------------- MODULE MCMcpConnections --------------------------
(* Instances of McpConnections: who may run at the same time, and who shares a workspace. *)
EXTENDS McpConnections

CONSTANTS A, B, s1, s2, s3, p, r

Both(x, y) == [n \in Servers |-> IF n = 1 THEN x ELSE y]
On == [enabled |-> TRUE, print |-> p]
Off == [enabled |-> FALSE, print |-> p]

\* One request at a time, at most one session in the other workspace; the two
\* servers' names look alike once cleaned, and one session may use only the second.
Alone == [cwd |-> (s1 :> A @@ s2 :> B @@ s3 :> A),
          allowed |-> (s1 :> {1, 2} @@ s2 :> {1, 2} @@ s3 :> {2}),
          base |-> Both("x", "x"), user |-> Both(On, Off), templates |-> {2},
          overlap |-> FALSE, changes |-> 2]

\* The files do not change; sessions are opened and closed and lists are loaded at
\* any moment.
Crowd == [cwd |-> (s1 :> A @@ s2 :> A @@ s3 :> A),
          allowed |-> (s1 :> {1, 2} @@ s2 :> {1} @@ s3 :> {}),
          base |-> Both("x", "y"), user |-> Both(On, On), templates |-> {},
          overlap |-> TRUE, changes |-> 0]

MainScenarios == {Alone, Crowd}
=============================================================================
