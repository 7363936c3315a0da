-------------------------- MODULE MCBlockExecution --------------------------
(* Handlers of small blocks for BlockExecution.                             *)
EXTENDS BlockExecution

CONSTANTS Counter, Account

Op(operation, ids, kind, call, step) ==
    [operation |-> operation, ids |-> ids, kind |-> kind, call |-> call, step |-> step]

\* Two writes at a time, and an insert of two; two calls that count up, one after
\* a query, under a new runtime; nothing but a read; an insert that cannot succeed.
MCProgram == <<
    << Op("query", <<>>, "A", 1, 1),
       Op("set", <<Counter>>, "A", 1, 2), Op("bulkCreate", <<Account>>, "B", 1, 2) >>,
    << Op("get", <<Counter>>, "A", 1, 1), Op("query", <<>>, "A", 1, 2),
       Op("set", <<Counter>>, "B", 1, 3), Op("remove", <<Account>>, "A", 1, 3),
       Op("get", <<Counter>>, "A", 2, 4), Op("set", <<Counter>>, "A", 2, 5) >>,
    << Op("get", <<Account>>, "A", 1, 1) >>,
    << Op("query", <<>>, "A", 1, 1),
       Op("set", <<Account>>, "A", 1, 2), Op("bulkCreate", <<Counter>>, "A", 1, 2) >> >>

MCRuntime == <<1, 2, 2, 2>>
=============================================================================
