------------------------- MODULE MCSessionRegistry -------------------------
(* Instances of SessionRegistry: which sessions there are, who asks for what. *)
EXTENDS SessionRegistry

Record(parent) == [parent |-> parent, config |-> Null, models |-> <<30>>, want |-> Null]
NoFiles == [id \in Ids |-> Null]
NoScripts == [id \in Ids |-> <<>>]
Ask(do, id) == [do |-> do, id |-> id]
Bash(call, matches) == [call |-> call, kind |-> "bash", matches |-> matches, raw |-> <<>>]
Question(call, raw) == [call |-> call, kind |-> "ask_user", matches |-> {}, raw |-> raw]
Child(call) == [call |-> call, kind |-> "subagent", matches |-> {}, raw |-> <<>>]

Bare == [files |-> [NoFiles EXCEPT !["u"] = Record(Null)], script |-> NoScripts, requests |-> <<>>,
         serial |-> FALSE, open |-> FALSE, watched |-> FALSE, swift |-> TRUE, window |-> 30,
         other |-> 30, stored |-> {}, crashes |-> 0, reloads |-> 0]

\* Five requests for one session on disk, in any overlap.
Races == [Bare EXCEPT !.requests = <<Ask("get", "u"), Ask("get", "u"), Ask("prompt", "u"),
                                     Ask("delete", "u"), Ask("delete", "u")>>]

\* Three generations, deleted one after the other, with a restart at any point.
Tree == [Bare EXCEPT !.files = [NoFiles EXCEPT !["u"] = Record(Null), !["w"] = Record("u"),
                                               !["x"] = Record("w"), !["n"] = Record("u")],
                     !.requests = <<Ask("delete", "w"), Ask("prompt", "u"),
                                    Ask("delete", "u"), Ask("delete", "x"), Ask("get", "n")>>,
                     !.serial = TRUE, !.crashes = 1]

\* Sessions of presets, made, used and opened again.
Own == {Preset(Null, {}, "p", Null, Null),
        Preset([AllOn EXCEPT !["plan"] = FALSE, !["tasks"] = FALSE], Null, "",
               [enabled |-> TRUE, reserve |-> 1, keep |-> 40], {"git"}),
        Preset([AllOn EXCEPT !["tasks"] = FALSE], {"read"}, "", Null, {}),
        Input([NewDraft EXCEPT !.able["approval"] = FALSE, !.strategy = "off", !.mcpMode = "none"])}
Settings(window, other) ==
  [Bare EXCEPT !.files = NoFiles, !.stored = Own, !.window = window, !.other = other,
               !.requests = <<Ask("create", "n"), Ask("get", "n"), Ask("model", "n"),
                              Ask("get", "n")>>,
               !.serial = TRUE, !.crashes = 1]

\* A page and its session: two commands, or a question among them.
Page == [Bare EXCEPT !.open = TRUE, !.watched = TRUE, !.reloads = 1]
Calls == [Page EXCEPT !.script["u"] = <<Bash("c1", {"recursive-delete", "network-request"}),
                                        Bash("c2", {"network-request", "shell-redirection-write"}),
                                        Bash("c3", {})>>,
                      !.requests = <<Ask("prompt", "u"), Ask("abort", "u"), Ask("delete", "u")>>]
Asking == [Page EXCEPT !.script["u"] = <<Bash("c1", {"force-push", "git-remote-write"}),
                                         Question("q1", <<<<"x">>, <<"x">>, <<"x", 2>>>>),
                                         Question("q2", <<<<>>, <<"q1">>>>)>>,
                       !.requests = <<Ask("prompt", "u"), Ask("abort", "u")>>]
\* A child with two commands, approved on its parent's page.
Kid == [Page EXCEPT !.script["u"] = <<Child("s")>>,
                    !.script["kid"] = <<Bash("k1", {"file-delete"}), Bash("k2", {"dependency-change"})>>,
                    !.requests = <<Ask("prompt", "u"), Ask("abort", "u"), Ask("delete", "u")>>]

\* The answer to a click may come after later events.
Late == [Calls EXCEPT !.swift = FALSE]

MainScenarios == {Races, Tree, Settings(30, 10), Settings(10, 30), Settings(4, 10), Calls, Asking, Kid, Late}
=============================================================================
