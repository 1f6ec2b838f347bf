-------------------------- MODULE MCEngineRuntime --------------------------
EXTENDS EngineRuntime, TLC

CONSTANTS a, b, c, nobody

Ask(op, model, config) == [op |-> op, model |-> model, config |-> config]

\* One caller calls model m, another streams it, in its own configuration or in
\* another one, or warms a model, and the third shares m or takes workers away.
MCAsked ==
    (a :> {Ask("call", "m", "exclusive")})
    @@ (b :> {Ask("stream", "m", "exclusive"), Ask("stream", "m", "shared"),
              Ask("warm", "n", "exclusive")})
    @@ (c :> {Ask("call", "m", "exclusive"), Ask("unload", "m", "exclusive"),
              Ask("stop", "m", "exclusive")})

============================================================================
