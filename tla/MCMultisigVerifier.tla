------------------------ MODULE MCMultisigVerifier ------------------------
(***************************************************************************)
(* Small instances of MultisigVerifier.                                    *)
(***************************************************************************)
EXTENDS MultisigVerifier, TLC

MCAccounts == {"alice", "bob", "carol"}

(* A request for wallet "bob" signed by alice and carol, and accounts.     *)
Body(keys, threshold) == [account |-> "bob", publicKeys |-> keys, threshold |-> threshold]
Info(list) ==
    [account |-> "bob", validated |-> "true", dataLists |-> <<list>>, resultLists |-> <<>>,
     flags |-> {"disableMasterKey"}, regularKey |-> ""]
List(quorum, entries) == [quorum |-> quorum, entries |-> entries]
Entry(account, weight) == [account |-> account, weight |-> weight]
Good == List(2, <<Entry("alice", 1), Entry("carol", 1)>>)

(* Every shape of body, and every signer list the ledger admits: distinct  *)
(* accounts, weights that can reach the quorum.                            *)
AllBodies ==
    {Body(keys, t) :
        keys \in {<<>>, <<"alice">>, <<"alice", "carol">>, <<"alice", "alice">>, <<"alice", "">>,
                  <<"alice", "malformed">>, <<"carol", "bob", "alice">>,
                  <<"alice", "bob", "carol", "alice">>},
        t \in 0 .. 3}

Lists ==
    {List(q, <<Entry("alice", w)>>) : q \in 1 .. 2, w \in 1 .. 2} \cup
    {List(q, <<Entry("carol", v), Entry("alice", w)>>) : q \in 1 .. 3, v \in 1 .. 2, w \in 1 .. 2} \cup
    {List(q, <<Entry("bob", v), Entry("carol", u), Entry("alice", w)>>) :
        q \in 1 .. 3, u \in 1 .. 2, v \in 1 .. 2, w \in 1 .. 2}

AllInfos ==
    {Info(l) : l \in Lists} \cup
    {[Info(Good) EXCEPT !.dataLists = <<>>, !.resultLists = ls] : ls \in {<<>>, <<Good>>}} \cup
    {[Info(Good) EXCEPT !.resultLists = <<List(1, <<Entry("alice", 1)>>)>>]} \cup
    {[Info(Good) EXCEPT !.account = "alice"]} \cup
    {[Info(Good) EXCEPT !.validated = v] : v \in {"false", "absent"}} \cup
    {[Info(Good) EXCEPT !.flags = f] :
        f \in {None, {}, {"disableMasterKey", "depositAuth"},
               {"disableMasterKey", "requireDestinationTag"},
               {"disableMasterKey", "disallowIncomingXRP"}}} \cup
    {[Info(Good) EXCEPT !.regularKey = "alice"]}

(***************************************************************************)
(* pin: two requests and a node that is repointed at will.  deadline:      *)
(* three requests on the mutex and a node that comes and goes.  verdict:   *)
(* one request with every body and every account.  clock: two requests and *)
(* a wall clock set back.  progress: two requests.                         *)
(***************************************************************************)
OneBody == {Body(<<"alice", "carol">>, 2)}
OneInfo == {Info(Good)}
MCBodies ==
    [pin |-> OneBody, deadline |-> OneBody, verdict |-> AllBodies, clock |-> OneBody, progress |-> OneBody]
MCAccountInfos ==
    [pin |-> OneInfo, deadline |-> OneInfo, verdict |-> AllInfos, clock |-> OneInfo, progress |-> OneInfo]
MCNodes ==
    [pin |-> NodeStates, deadline |-> {"expected", "down"}, verdict |-> {"expected"},
     clock |-> {"expected", "other"}, progress |-> {"expected", "other", "down"}]
MCMaxRequests == [pin |-> 2, deadline |-> 3, verdict |-> 1, clock |-> 2, progress |-> 2]
MCMaxNow == [pin |-> 6, deadline |-> 7, verdict |-> 1, clock |-> 7, progress |-> 4]
MCMaxSetBack == [pin |-> 0, deadline |-> 0, verdict |-> 0, clock |-> 2, progress |-> 0]

Symmetry == Permutations(Requests)
=============================================================================
