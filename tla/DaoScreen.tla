------------------------------ MODULE DaoScreen ------------------------------
(***************************************************************************)
(* The DAO screen (dao-screen.ts).  Its handlers share the selected DAO,   *)
(* the list of proposals, a loading flag and a modal, and each awaits the  *)
(* host once or twice; answers come in any order and can be errors.  The   *)
(* DAO commands themselves are the wallet library's.                       *)
(***************************************************************************)
EXTENDS Shell, Sequences

CONSTANTS Daos,     \* names of DAOs
          Bullas,   \* proposals
          MaxCalls  \* calls under way: a bound

DaoLists == {<<>>} \cup {<<d>> : d \in Daos} \cup
            {l \in Daos \X Daos : l[1] # l[2]}
DaoCalls == [what : {"list", "proposals", "propose", "vote"}, of : Daos \cup Bullas \cup {None},
             for : {"refresh", "propose", "vote", "view"}]
DaoStates == [list : DaoLists, sel : Daos \cup {None}, proposals : Daos \cup {None},
              modal : BOOLEAN, meant : Daos \cup {None}, loading : BOOLEAN,
              voting : Bullas \cup {None}, calls : SUBSET DaoCalls]
ASSUME DaoAssumption == None \notin Daos \cup Bullas /\ None \notin DaoStates

VARIABLE dao   \* the screen

\* A call: what is asked, of which DAO or proposal, and the handler that goes on after
\* it: "refresh", "propose" and "vote" have a flag to clear, "view" has none.
Call(what, of, for) == [what |-> what, of |-> of, for |-> for]

\* meant is the DAO whose button opened the modal, of no variable of the code.
DaoAt(t) ==
  IF t # "dao" THEN None
  ELSE [list |-> <<>>, sel |-> None, proposals |-> None, modal |-> FALSE, meant |-> None,
        loading |-> TRUE, voting |-> None, calls |-> {Call("list", None, "refresh")}]

DaoOnly == UNCHANGED shellVars

\* The modal lies over everything else.
OnPage == At("dao") /\ ~dao.modal /\ Cardinality(dao.calls) < MaxCalls
OnModal == At("dao") /\ dao.modal

\* What a handler does at its very end, besides leaving the calls to C
Done(d, for, C) ==
  [d EXCEPT !.calls = C,
            !.loading = (@ /\ for \notin {"refresh", "propose"}),
            !.voting = IF for = "vote" THEN None ELSE @]

\* loadProposals up to its await
LoadProposals(d, name, for, C) ==
  [d EXCEPT !.sel = name, !.calls = C \cup {Call("proposals", name, for)}]

RefreshDaos ==
  /\ OnPage /\ ~dao.loading
  /\ dao' = [dao EXCEPT !.loading = TRUE, !.calls = @ \cup {Call("list", None, "refresh")}]
  /\ DaoOnly

\* A mutant of Listed: the first DAO is selected every time.
ListedFirst(c, names) ==
  /\ At("dao") /\ c \in dao.calls /\ c.what = "list"
  /\ LET d == [dao EXCEPT !.list = names]
         C == dao.calls \ {c} IN
     dao' = IF names # <<>> THEN LoadProposals(d, names[1], "refresh", C) ELSE Done(d, "refresh", C)
  /\ DaoOnly

\* listDaos has answered: the first DAO is selected if none is.
Listed(c, names) ==
  /\ At("dao") /\ c \in dao.calls /\ c.what = "list"
  /\ LET d == [dao EXCEPT !.list = names]
         C == dao.calls \ {c} IN
     dao' = IF names # <<>> /\ dao.sel = None THEN LoadProposals(d, names[1], "refresh", C)
            ELSE Done(d, "refresh", C)
  /\ DaoOnly

\* listProposals has answered, for whichever DAO it was asked.
Proposed(c) ==
  /\ At("dao") /\ c \in dao.calls /\ c.what = "proposals"
  /\ dao' = Done([dao EXCEPT !.proposals = c.of], c.for, dao.calls \ {c})
  /\ DaoOnly

\* A call fails, and its handler with it.
Failed(c) ==
  /\ At("dao") /\ c \in dao.calls
  /\ dao' = Done(dao, c.for, dao.calls \ {c})
  /\ DaoOnly

Cards == {dao.list[i] : i \in DOMAIN dao.list}

View(name) ==
  /\ OnPage /\ name \in Cards
  /\ dao' = LoadProposals(dao, name, "view", dao.calls)
  /\ DaoOnly

\* "Propose Transfer": selected without loading its proposals
OpenModal(name) ==
  /\ OnPage /\ name \in Cards
  /\ dao' = [dao EXCEPT !.sel = name, !.meant = name, !.modal = TRUE]
  /\ DaoOnly

Cancel == OnModal /\ dao' = [dao EXCEPT !.modal = FALSE] /\ DaoOnly

\* proposeTransfer, with an amount and a recipient filled in
Submit ==
  /\ OnModal /\ ~dao.loading /\ Cardinality(dao.calls) < MaxCalls
  /\ dao' = [dao EXCEPT !.loading = TRUE, !.calls = @ \cup {Call("propose", dao.sel, "propose")}]
  /\ DaoOnly

\* The proposal is made: whatever modal is open closes.
Submitted(c) ==
  /\ At("dao") /\ c \in dao.calls /\ c.what = "propose"
  /\ dao' = LoadProposals([dao EXCEPT !.modal = FALSE], dao.sel, "propose", dao.calls \ {c})
  /\ DaoOnly

\* The buttons of a proposal of the list that is shown; only the one voted on last is
\* disabled.
Vote(b) ==
  /\ OnPage /\ dao.proposals # None /\ dao.voting # b
  /\ dao' = [dao EXCEPT !.voting = b, !.calls = @ \cup {Call("vote", b, "vote")}]
  /\ DaoOnly

Voted(c) ==
  /\ At("dao") /\ c \in dao.calls /\ c.what = "vote"
  /\ dao' = LoadProposals(dao, dao.sel, "vote", dao.calls \ {c})
  /\ DaoOnly

DaoNext ==
  \/ RefreshDaos \/ Cancel \/ Submit
  \/ \E n \in Daos : View(n) \/ OpenModal(n)
  \/ \E b \in Bullas : Vote(b)
  \/ At("dao") /\ \E c \in dao.calls :
       \/ \E l \in DaoLists : Listed(c, l)
       \/ Proposed(c) \/ Failed(c) \/ Submitted(c) \/ Voted(c)

DaoTypeOK ==
  /\ (dao = None) = ~At("dao")
  /\ dao \in DaoStates \cup {None}

-----------------------------------------------------------------------------
\* The proposal goes to the DAO named on the button that opened the modal: no answer
\* that comes in meanwhile, of a refresh, a vote or an earlier proposal, selects
\* another behind it.  And the loading flag, which refreshDaos and proposeTransfer share and
\* which disables both their buttons, is up exactly while one of them is under way.
ProposesForModal ==
  dao # None =>
    /\ dao.modal => dao.sel = dao.meant
    /\ LET busy == {c \in dao.calls : c.for \in {"refresh", "propose"}} IN
       (dao.loading <=> busy # {}) /\ Cardinality(busy) <= 1
=============================================================================
