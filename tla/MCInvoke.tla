------------------------------ MODULE MCInvoke ------------------------------
(* Values for model-checking Invoke: a command line, an MCP server and two  *)
(* tabs of the portal; two hosts, one of them in the group "prod".          *)
EXTENDS Invoke

MCFront == [cli |-> "cli", mcp |-> "mcp", tab1 |-> "portal", tab2 |-> "portal"]
MCTier == [ls |-> "read", stop |-> "mutate", limit |-> "mutate", rm |-> "destroy",
           query |-> "read", apply |-> "mutate", destroy |-> "destroy",
           remediate |-> "mutate", overview |-> "read"]
MCCalls == [remediate |-> <<"stop", "limit">>]
MCSends == [o \in DOMAIN MCTier |-> IF o = "stop" THEN 2 ELSE 1]
MCInventory == [hosts |-> {"h1", "h2"}, in |-> [h1 |-> {"prod"}, h2 |-> {}], computed |-> << >>]

All == <<[op |-> ",", kind |-> "all", arg |-> "all"]>>
Prod == <<[op |-> ",", kind |-> "group", arg |-> "prod"]>>
Typo == <<[op |-> ",", kind |-> "host", arg |-> "h9"]>>

R(op, cmd, to, dry, yes) ==
  [op |-> op, cmd |-> cmd, to |-> to, dry |-> dry, yes |-> yes, ticket |-> "none", traits |-> {}]
Plain0(op) == R(op, "none", << >>, FALSE, FALSE)

MCRequest ==
  [cli |-> {R("apply", "stop", All, FALSE, FALSE), R("apply", "remediate", Prod, FALSE, FALSE),
             R("apply", "rm", All, FALSE, FALSE),
            R("destroy", "rm", All, FALSE, FALSE), R("destroy", "rm", Prod, FALSE, TRUE),
            R("destroy", "rm", Typo, FALSE, TRUE), Plain0("remediate"), R("query", "ls", Prod, FALSE, FALSE)},
   mcp |-> {R("rm", "none", << >>, FALSE, TRUE), Plain0("rm"), R("rm", "none", << >>, TRUE, TRUE)},
   tab1 |-> {Plain0("stop"), R("rm", "none", << >>, FALSE, TRUE)},
   tab2 |-> {Plain0("overview")}]

Freeze == [match |-> [hosts |-> Prod], deny |-> TRUE]
WarnRm == [match |-> [tier |-> {"destroy"}], deny |-> TRUE, mode |-> "warn"]

Needs == [match |-> [op |-> {"limit"}, source |-> {"cli"}], ticket |-> TRUE]
Most(a, b, x, y) == [cli |-> a, mcp |-> b, tab1 |-> x, tab2 |-> y]

MCConf ==
  {[rules |-> << >>, most |-> Most(1, 1, 0, 0),
    max |-> [cli |-> "destroy", mcp |-> "destroy", portal |-> "read"]],
   [rules |-> <<Freeze, WarnRm>>, most |-> Most(1, 1, 0, 0),
    max |-> [cli |-> "destroy", mcp |-> "mutate", portal |-> "mutate"]],
   [rules |-> <<Needs>>, most |-> Most(1, 0, 1, 0),
    max |-> [cli |-> "destroy", mcp |-> "destroy", portal |-> "mutate"]],
   [rules |-> << >>, most |-> Most(0, 0, 1, 2),
    max |-> [cli |-> "destroy", mcp |-> "destroy", portal |-> "mutate"]],
   [rules |-> << >>, most |-> Most(0, 0, 1, 1),
    max |-> [cli |-> "destroy", mcp |-> "destroy", portal |-> "read"]]}
=============================================================================
