--------------------------- MODULE MCRequestTurns ---------------------------
EXTENDS RequestTurns

Tool(name, kind) == [name |-> name, kind |-> kind]

\* None, two functions, a function twice, a server tool: with every choice there is.
SmallOffers ==
  {Offer(<<>>, "absent"), Offer(<<>>, "null")} \cup
  {Offer(tools, choice) :
     tools \in {<<Tool("read", "function"), Tool("write", "function")>>,
                <<Tool("read", "function"), Tool("read", "function")>>,
                <<Tool("search", "server"), Tool("read", "function")>>},
     choice \in {"absent", "null", "auto", "required", "none", "named", "odd"}}

=============================================================================
