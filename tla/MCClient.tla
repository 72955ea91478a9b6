------------------------------ MODULE MCClient ------------------------------
(***************************************************************************)
(* The web client: a behaviour is a session on the forms that move money,  *)
(* one on a page and its query, or one of the staff on the register of     *)
(* customers.  They share nothing, so `screen' says which one moves, and   *)
(* the others stay as they begin.                                          *)
(*                                                                         *)
(* Every form, two inputs, two visits and three submissions: enough to     *)
(* lose an answer, edit or leave, and submit again while the first request *)
(* is still on its way.  Every query, and every mutation once.  Two        *)
(* customers, of whom one is registered on the way, a manager, a field     *)
(* officer and a caller of the API, two requests.                          *)
(***************************************************************************)
EXTENDS Client, Customers

CONSTANTS asha, bina

VARIABLES
  screen,                                                      \* what moves
  followed, entry, flight, open, call, reported, figures,      \* QueryCache
  outrun, mutations

Tab == INSTANCE QueryCache WITH MaxSubmits <- 1, told <- reported, submits <- mutations

ASSUME Tab!QueryCacheAssumption

tabVars == <<followed, entry, flight, open, call, reported, figures, outrun, mutations>>
webVars == <<screen, vars, tabVars, registerVars>>

WebInit ==
  /\ screen \in {"form", "query", "register"}
  /\ Init /\ Tab!Init /\ RegisterInit
  /\ screen # "query" => followed = Tab!LoanList

WebNext ==
  /\ \/ screen = "form" /\ Next /\ UNCHANGED <<tabVars, registerVars>>
     \/ screen = "query" /\ Tab!Next /\ UNCHANGED <<vars, registerVars>>
     \/ screen = "register" /\ RegisterNext /\ UNCHANGED <<vars, tabVars>>
  /\ UNCHANGED screen

\* A request of the browser ends, with an answer or with an error.
WebSpec == WebInit /\ [][WebNext]_webVars /\ WF_tabVars(Tab!Fetch)

-----------------------------------------------------------------------------
\* What the tab has posted comes to be shown by a page that stays open, unless
\* the query fails or an answer outran its invalidation (hooks/*.ts,
\* query-provider.tsx).
OwnWritesReachTheScreen == Tab!OwnWritesReachTheScreen
=============================================================================
