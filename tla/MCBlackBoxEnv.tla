--------------------------- MODULE MCBlackBoxEnv ---------------------------
\* BlackBoxEnv with the parsers of the recipe's configuration, a runtime that may
\* send requests the adapter refuses, and generations that cover the ways in
\* which tool calls can go wrong.
EXTENDS BlackBoxEnv

Chat == [tools |-> TRUE, choice |-> "auto", separate |-> TRUE, valid |-> TRUE,
         unsupported |-> FALSE, media |-> FALSE]
Body(chat, scoped, authorized) ==
    [context |-> chat, scoped |-> scoped, authorized |-> authorized]

MCBodies == {Body(Chat, TRUE, TRUE), Body([Chat EXCEPT !.unsupported = TRUE], TRUE, TRUE)}

MCGenerations ==
    {Generation("calls", "calls", <<Call("edit", "object")>>, "stop"),
     Generation("calls", "none", <<Call("finish", "object")>>, "length"),
     Generation("calls", "calls", <<Call("edit", "object"), Call("edit", "value")>>, "stop"),
     Generation("raises", "calls", <<Call("edit", "broken")>>, "stop")}
============================================================================
