--------------------------- MODULE SessionSettings ---------------------------
(***************************************************************************)
(* What a session is made of: how a preset becomes a request body, a       *)
(* session, a line of the session's file, and a session again when it is   *)
(* opened after a restart.  No state: every definition is a conversion.    *)
(* Null stands for undefined and for null alike where the code treats them *)
(* alike; an empty set is a value of its own ("none"), never Null ("all"). *)
(* Token counts are in thousands and scaled down; texts are "" or not.     *)
(***************************************************************************)
EXTENDS Integers, FiniteSets, Sequences, SequencesExt

CONSTANTS Null,       \* undefined and null
          Connected   \* the MCP servers connected in the workspace

\* The keys of a preset's abilities, and the key a session uses for each.
CapabilityKeys == {"plan", "approval", "questions", "subagent", "tasks",
                   "observability", "fileExtensions"}
ExtensionKey == [k \in CapabilityKeys |->
                   CASE k = "plan" -> "planMode"
                     [] k = "subagent" -> "subagents"
                     [] OTHER -> k]
ExtensionKeys == {ExtensionKey[k] : k \in CapabilityKeys}
AllOn == [k \in CapabilityKeys |-> TRUE]

-----------------------------------------------------------------------------
(* Presets *)

\* The values there are: a model's window, a compaction, a preset as it is stored.
OrNull(S) == {Null} \union S
Windows == OrNull(Int)
Compaction == [enabled : BOOLEAN, reserve : Int, keep : Int]
Texts == {"", "p"}
BuiltinTools == {"read", "bash", "edit", "write", "grep", "find", "ls"}  \* the form's list
ServerTools == {"submit_plan", "ask_user", "subagent"} \union Connected
StoredPreset ==
  [able : OrNull([CapabilityKeys -> BOOLEAN]), tools : OrNull(SUBSET BuiltinTools), prompt : Texts,
   compaction : OrNull(Compaction), mcp : OrNull(SUBSET STRING)]

\* Token counts are positive wherever they come in: in a preset, in a request, in a file.
Positive(compaction) == compaction # Null => compaction.keep > 0 /\ compaction.reserve > 0

\* A stored preset as it is read back: what is missing is on, and a preset
\* with plans but without tasks is refused (and dropped from the list).
Parsed(raw) == [raw EXCEPT !.able = IF raw.able = Null THEN AllOn ELSE raw.able]
Accepted(raw) == /\ Parsed(raw).able["plan"] => Parsed(raw).able["tasks"]
                 /\ Positive(raw.compaction)

Preset(able, tools, prompt, compaction, mcp) ==
  [able |-> able, tools |-> tools, prompt |-> prompt, compaction |-> compaction, mcp |-> mcp]

\* The compactions that the form for presets offers, and Null ("follow").
Strategies == [auto |-> [enabled |-> TRUE, reserve |-> 2, keep |-> 5],
               off |-> [enabled |-> FALSE, reserve |-> 2, keep |-> 5],
               aggressive |-> [enabled |-> TRUE, reserve |-> 2, keep |-> 2],
               conservative |-> [enabled |-> TRUE, reserve |-> 2, keep |-> 10]]

CodingAgent == Preset(AllOn, {"read", "bash"}, "", Strategies.auto, Null)
Minimal == Preset([k \in CapabilityKeys |-> FALSE], Null, "", Null, {})

\* GET /api/presets: the two built in, then those of the file.
Presets(stored) == {CodingAgent, Minimal} \union {Parsed(p) : p \in {q \in stored : Accepted(q)}}

\* The form for presets: a list of names is shown as a mode and the names ticked, a
\* compaction as the strategy with the same numbers, or "follow" if there is none.
Mode(names, some) == IF names = Null THEN "all" ELSE IF names = {} THEN "none" ELSE some
Ticked(names) == IF names = Null THEN {} ELSE names
StrategyOf(compaction) ==
  LET same == {s \in DOMAIN Strategies : Strategies[s] = compaction}
  IN IF same = {} THEN "follow" ELSE CHOOSE s \in same : TRUE
Draft(preset) ==
  [able |-> preset.able, prompt |-> preset.prompt, strategy |-> StrategyOf(preset.compaction),
   toolMode |-> Mode(preset.tools, "list"), tools |-> Ticked(preset.tools),
   mcpMode |-> Mode(preset.mcp, "custom"), mcp |-> Ticked(preset.mcp)]
NewDraft == [able |-> AllOn, prompt |-> "", strategy |-> "auto", toolMode |-> "list",
             tools |-> {"read", "bash"}, mcpMode |-> "all", mcp |-> {}]

\* What the form sends when it is saved.
Names(mode, names) == CASE mode = "all" -> Null [] mode = "none" -> {} [] OTHER -> names
Input(d) ==
  Preset(d.able, Names(d.toolMode, d.tools), d.prompt,
         IF d.strategy = "follow" THEN Null ELSE Strategies[d.strategy],
         Names(d.mcpMode, d.mcp))

\* A preset as it is, or opened in the form and saved unchanged; not for those built in.
Versions(preset) ==
  IF preset \in {CodingAgent, Minimal} THEN {preset} ELSE {preset, Input(Draft(preset))}

\* What the page shows once a preset is chosen, and what it falls back to for the next
\* session while it has not got the list of presets (known): the default, by name too.
Selected(preset, known) == IF known THEN preset ELSE CodingAgent
Restored(preset, known) == IF known THEN preset ELSE [CodingAgent EXCEPT !.compaction = Null]

\* The page sends what it shows and the model of its catalogue.
Extensions(able) == [e \in ExtensionKeys |->
                       able[CHOOSE k \in CapabilityKeys : ExtensionKey[k] = e]]
Body(preset, window) ==
  [extensions |-> Extensions(preset.able), tools |-> preset.tools,
   prompt |-> IF preset.prompt = "" THEN Null ELSE preset.prompt,
   compaction |-> preset.compaction, mcp |-> preset.mcp, window |-> window]
Accepts(body) == Positive(body.compaction)

-----------------------------------------------------------------------------
(* When a long context is compacted *)

Trigger == 20        \* COMPACTION_TRIGGER_TOKENS
KeepMargin == 2      \* KEEP_RECENT_MARGIN_TOKENS
Defaults == [enabled |-> TRUE, reserve |-> 2, keep |-> 5]

Larger(x, y) == IF x > y THEN x ELSE y
Smaller(x, y) == IF x < y THEN x ELSE y

Resolved(c, window) ==
  IF ~c.enabled \/ window = Null THEN c
  ELSE LET reserve == IF window > Trigger THEN Larger(c.reserve, window - Trigger) ELSE c.reserve
       IN [enabled |-> TRUE, reserve |-> reserve,
           keep |-> Smaller(c.keep, Larger(0, window - reserve - KeepMargin))]

-----------------------------------------------------------------------------
(* Sessions *)

On(extensions, key) == IF extensions = Null THEN TRUE ELSE extensions[key]
Enabled(extensions) == {e \in ExtensionKeys : On(extensions, e)}

\* What the page is told the session can do.
CapabilitiesOf(extensions, mcp) ==
  [on |-> {k \in CapabilityKeys : On(extensions, ExtensionKey[k])}, mcp |-> mcp # {}]

\* The tools of the server's own extensions, and of the MCP servers allowed.
InlineTools(extensions, mcp) ==
  UNION {IF On(extensions, "planMode") THEN {"submit_plan"} ELSE {},
         IF On(extensions, "questions") THEN {"ask_user"} ELSE {},
         IF On(extensions, "subagents") THEN {"subagent"} ELSE {},
         IF mcp = Null THEN Connected ELSE mcp \cap Connected}
WithInlineTools(tools, extensions, mcp) ==
  IF tools = Null THEN Null ELSE tools \union InlineTools(extensions, mcp)

\* A session with everything off is left as the original program made it.
Stock(extensions) == Enabled(extensions) = {}
Compacted(extensions, compaction, window) ==
  IF Stock(extensions) THEN compaction
  ELSE Resolved(IF compaction = Null THEN Defaults ELSE compaction, window)

Assembled(extensions, tools, prompt, compaction, mcp) ==
  [can |-> CapabilitiesOf(extensions, mcp), loaded |-> Enabled(extensions),
   tools |-> WithInlineTools(tools, extensions, mcp), prompt |-> prompt,
   compaction |-> compaction, servers |-> mcp]

\* The session that POST /api/agent/new makes, and the line it leaves in the file.
Created(body) ==
  Assembled(body.extensions, body.tools, body.prompt,
            Compacted(body.extensions, body.compaction, body.window), body.mcp)

\* Fault: an empty list is written like a missing one.
ConfigFault(body) ==
  [extensions |-> body.extensions, tools |-> body.tools, prompt |-> body.prompt,
   compaction |-> Compacted(body.extensions, body.compaction, body.window),
   mcp |-> IF body.mcp = {} THEN Null ELSE body.mcp]

ConfigOf(body) ==
  [extensions |-> body.extensions, tools |-> body.tools, prompt |-> body.prompt,
   compaction |-> Compacted(body.extensions, body.compaction, body.window), mcp |-> body.mcp]

\* A line in the file of a session that was made of a preset.
SessionLine ==
  [extensions : [ExtensionKeys -> BOOLEAN], tools : OrNull(SUBSET BuiltinTools),
   prompt : OrNull(Texts), compaction : OrNull(Compaction), mcp : OrNull(SUBSET STRING)]

NoConfig == [extensions |-> Null, tools |-> Null, prompt |-> Null, compaction |-> Null,
             mcp |-> Null]
\* A request that says nothing leaves no line.
Line(body) == IF ConfigOf(body) = NoConfig THEN Null ELSE ConfigOf(body)

\* The session that the file of an earlier one makes; a file without the line (of the
\* command line, or of an older server), or with one that parseSessionConfig does not
\* take, makes one with everything on.
Readable(line) == line # Null => Positive(line.compaction)
Read(line) == IF line = Null \/ ~Readable(line) THEN NoConfig ELSE line
Opened(line, window) ==
  LET c == Read(line)
  IN Assembled(c.extensions, c.tools, c.prompt,
               Compacted(c.extensions, c.compaction, window), c.mcp)

\* The context window of the model used last; the file names one each time it changes.
WindowOf(models) == IF models = <<>> THEN Null ELSE Last(models)

\* What a preset asks for, said without any of the conversions.
Chosen(preset) ==
  [can |-> [on |-> {k \in CapabilityKeys : preset.able[k]}, mcp |-> preset.mcp # {}],
   tools |-> preset.tools, prompt |-> preset.prompt, servers |-> preset.mcp,
   capped |-> \E k \in CapabilityKeys : preset.able[k],
   off |-> preset.compaction # Null /\ ~preset.compaction.enabled]

\* Whether a session is what the preset asks for: the tools it lists and the
\* server's own, no compaction where it is switched off, and no context longer than the
\* limit otherwise.
Fits(session, chosen, window) ==
  /\ session.can = chosen.can
  /\ session.servers = chosen.servers
  /\ (chosen.prompt = "") = (session.prompt = Null)
  /\ (chosen.tools = Null) = (session.tools = Null)
  /\ chosen.tools # Null =>
       session.tools \ ServerTools = chosen.tools
  /\ chosen.off => session.compaction # Null /\ ~session.compaction.enabled
  /\ (chosen.capped /\ window # Null /\ session.compaction.enabled) =>
       window - session.compaction.reserve <= Smaller(window, Trigger)

=============================================================================
