------------------------------ MODULE PeerOps ------------------------------
(***************************************************************************)
(* The peers of one project: the form that creates them, the operations    *)
(* that add, update and remove them and set the team, and everybody who    *)
(* holds a copy of the result: setup.json and tokens.json, a yaml file per *)
(* peer in the project directory and in the agent directory, the setup     *)
(* server's memory, the relay's memory and the memory of each daemon.      *)
(* clade_cli/peer_ops.py writes the files one after the other; every write *)
(* is a step of its own here, so that a crash, a daemon or the operation   *)
(* of another process can come between any two of them.                    *)
(*                                                                         *)
(* A random value (a bearer, a download token, a pair's secret) is the     *)
(* number of the operation that drew it, and so are the name and the role  *)
(* that a peer begins with.  One team stands for all of them.              *)
(*                                                                         *)
(* A definition named Faulty_... is not part of Next: it is a plausible    *)
(* bug in the definition below it, kept to show that the properties notice *)
(* the difference.                                                         *)
(***************************************************************************)
EXTENDS Naturals, Sequences, FiniteSets, SequencesExt

CONSTANTS
  Founders,      \* the peers of the form
  Newcomers,     \* the peers that may be added later
  Clis,          \* processes that run clade-add-peer
  Server,        \* the setup server's process
  Ops,           \* the operations that are used
  TeamJoiners,   \* the peers that are added with --team
  Memberships,   \* the teams that PUT /teams may set
  Updates,       \* the names and roles that an update may give, None what it leaves
  Daemons,       \* the peers whose daemon is run
  MaxOps,        \* bound: operations begun, the form among them
  MaxCrashes,    \* bound: crashes of the setup server, of clade-add-peer, of the relay
  OneAtATime,    \* no operation begins while another is under way
  LateInstall,   \* install scripts are run after operations too
  Resubmit,      \* the form is sent again when its first attempt was cut short
  None           \* no file, no process, no setup

Peers == Founders \union Newcomers
Procs == Clis \union {Server}
Dirs == {"agent", "project"}
Files == Dirs \X Peers

\* What the others are told of a peer, and what an update may give of it.
Facts == {"name", "role"}
Abouts == [Facts -> Nat]
Gifts == [Facts -> Nat \union {None}]

ASSUME PeersAssumption ==
  /\ Founders \intersect Newcomers = {} /\ Cardinality(Founders) >= 2
  /\ IsFiniteSet(Founders) /\ IsFiniteSet(Newcomers)
  /\ Server \notin Clis /\ TeamJoiners \subseteq Peers /\ Daemons \subseteq Peers
  /\ Memberships \subseteq SUBSET Peers
  /\ Updates \subseteq Gifts
  /\ Ops \subseteq {"add", "update", "dirs", "remove", "teams"}
  /\ MaxOps \in Nat \ {0} /\ MaxCrashes \in Nat
  /\ {OneAtATime, LateInstall, Resubmit} \subseteq BOOLEAN

\* A bearer, what a yaml says of a peer, a yaml, what setup.json says of a peer.
Bearers == Peers \X Nat
PeerEntries == [secret : Nat, about : Abouts]
Yamls == [bearer : Bearers, about : Abouts, team : SUBSET Peers,
          peers : [Peers -> PeerEntries \union {None}]]
SetupEntries == [bearer : Bearers, about : Abouts, text : Yamls]
Setups == [Peers -> SetupEntries \union {None}]

\* An operation in progress: where in its plan it is, the files its current
\* loop has still to visit, what it read at its start, and what it made of it.
Operations ==
  [op : {"submit", "add", "update", "dirs", "remove", "teams"}, peer : Peers \union {None},
   n : Nat, gives : Gifts, members : SUBSET Peers, at : Nat, todo : Seq(Files),
   setup : Setups \union {None}, tokens : Seq(Bearers), text : Yamls \union {None}]

ASSUME NoneAssumption ==
  /\ None \notin Nat /\ None \notin Peers /\ None \notin PeerEntries /\ None \notin Yamls
  /\ None \notin SetupEntries /\ None \notin Setups /\ None \notin Operations

VARIABLES
  setup,    \* setup.json: per listed peer its bearer, about and kept yaml text
  tokens,   \* tokens.json: the bearers <<peer, n>> in the order of the file
  yaml,     \* per directory and peer the content of <peer>.yaml
  server,   \* the setup server: is it up, and its state.setups
  relay,    \* the relay process: "down", "starting", "loaded" or "up"; its tokens
  daemon,   \* per peer: what the running daemon holds of its yaml
  proc,     \* per process: the operation it is in the middle of
  begun,    \* number of operations begun, the source of random values
  crashes,  \* number of crashes
  cut,      \* history: <<what, peer>> that an operation cut short was changing, and
            \* none has changed since
  warned    \* history: the last reload failed, or was never tried

files == <<setup, tokens, yaml>>
vars == <<files, server, relay, daemon, proc, begun, crashes, cut, warned>>

NoServer == [up |-> FALSE, peers |-> None]
NoDaemon == [p \in Peers |-> None]

\* The setup server runs and nobody has sent the form.
Init ==
  /\ setup = None /\ tokens = <<>> /\ yaml = [f \in Files |-> None]
  /\ server = [up |-> TRUE, peers |-> None]
  /\ relay = [state |-> "down", tokens |-> {}]
  /\ daemon = NoDaemon /\ proc = [x \in Procs |-> None]
  /\ begun = 0 /\ crashes = 0 /\ cut = {} /\ warned = FALSE

\* The name and role of a peer that operation n brings, and those of which the
\* facts in K are replaced by what an update gives.
Original(n) == [k \in Facts |-> n]
With(about, gives, K) == [k \in Facts |-> IF k \in K THEN gives[k] ELSE about[k]]
NoGift == [k \in Facts |-> None]

\* The peers that a yaml or setup.json has an entry for.
Named(f) == {p \in Peers : f[p] # None}
Listed == IF setup = None THEN {} ELSE Named(setup)

\* The elements of s that are in S, in their order.
Only(s, S) ==
  LET kept[i \in 0..Len(s)] ==
        IF i = 0 THEN <<>>
        ELSE IF s[i] \in S THEN Append(kept[i - 1], s[i]) ELSE kept[i - 1]
  IN kept[Len(s)]

\* Every yaml of the peers that exists, the agent's copy before the project's.
ExistingYamls(ids) ==
  LET s == SetToSeq(ids)
      all == [i \in 1..2 * Len(s) |->
                <<IF i % 2 = 1 THEN "agent" ELSE "project", s[(i + 1) \div 2]>>]
  IN Only(all, {f \in Files : yaml[f] # None})

\* A file is replaced; a daemon will find a newer mtime on the one it watches.
WriteYaml(f, content) ==
  /\ yaml' = [yaml EXCEPT ![f] = content]
  /\ daemon' = IF f[1] = "agent" /\ daemon[f[2]] # None
               THEN [daemon EXCEPT ![f[2]].seen = FALSE] ELSE daemon

-----------------------------------------------------------------------------
\* Faulty: tokens.json is written last.
Faulty_TokensLast ==
  <<"tokens", "edit", "build", "write", "saveSetup", "saveTokens", "reloadRelay", "refresh">>

\* The steps of the operations, in the order of their calls.
AddPlan ==
  <<"tokens", "edit", "build", "write", "saveTokens", "saveSetup", "reloadRelay", "refresh">>
RemovePlan ==
  <<"tokens", "edit", "saveSetup", "kill", "delete", "reloadRelay", "refresh">>
Plans ==
  [submit |-> <<"formTokens", "write", "formRelay", "saveForm">>,
   add    |-> AddPlan,
   update |-> <<"own", "list", "edit", "saveSetup", "refresh">>,
   remove |-> RemovePlan,
   dirs   |-> <<"own", "saveSetup", "refresh">>,
   teams  |-> <<"edit">>]
Plan(op) == Plans[op]

\* The operation's next step.
At(x, step) == proc[x] # None /\ Plan(proc[x].op)[proc[x].at] = step

\* A step of the plan is done, or a file of the loop.
Stepped(o) == IF o.at = Len(Plan(o.op)) THEN None ELSE [o EXCEPT !.at = @ + 1]
Visited(o) == [o EXCEPT !.todo = Tail(@)]
Becomes(x, o) == proc' = [proc EXCEPT ![x] = o]

\* An operation starts by reading setup.json.
Operation(op, p, members) ==
  [op |-> op, peer |-> p, n |-> begun + 1, gives |-> NoGift, members |-> members, at |-> 1,
   todo |-> <<>>, setup |-> setup, tokens |-> <<>>, text |-> None]

\* The endpoints run on the setup server's event loop and await nothing: one
\* of them at a time.  The CLI is a process of its own.
MayBegin(x, op) ==
  /\ proc[x] = None /\ setup # None /\ op \in Ops /\ begun < MaxOps
  /\ x = Server => server.up /\ server.peers # None
  /\ OneAtATime => \A y \in Procs : proc[y] = None
  /\ begun' = begun + 1
  /\ UNCHANGED <<files, server, relay, daemon, crashes, cut, warned>>

BeginAdd(x, p) ==
  /\ p \notin Listed
  /\ MayBegin(x, "add")
  /\ Becomes(x, Operation("add", p, {}))

\* An update of the name, the role or both.  "dirs" is one of extra_add_dirs or
\* scribe, which no other peer sees.
BeginUpdate(p, op, gives) ==
  /\ p \in Listed /\ op = (IF gives = NoGift THEN "dirs" ELSE "update")
  /\ MayBegin(Server, op)
  /\ Becomes(Server, [Operation(op, p, {}) EXCEPT !.gives = gives,
                                                 !.todo = <<<<"project", p>>, <<"agent", p>>>>])

BeginRemove(p) ==
  /\ p \in Listed /\ Cardinality(Listed) > 2
  /\ MayBegin(Server, "remove")
  /\ Becomes(Server, Operation("remove", p, {}))

BeginTeams(members) ==
  /\ members \subseteq Listed
  /\ MayBegin(Server, "teams")
  /\ Becomes(Server, [Operation("teams", None, members) EXCEPT !.todo = ExistingYamls(Listed)])

Others(o) == Named(o.setup) \ {o.peer}

\* What an update gives, and what of it goes to the other peers: the name, and
\* a role that is not the one of setup.json.
Given(o) == {k \in Facts : o.gives[k] # None}
Spread(o) == {k \in Given(o) : k = "role" => o.gives[k] # o.setup[o.peer].about[k]}

\* What an operation changes in the files of several peers.
Changes(o) == (IF o.op = "update" THEN Spread(o) ELSE {o.op}) \X {o.peer}

\* add_peer_op reads tokens.json; remove_peer_op writes it back without the
\* peer's bearer.  Then each lists the yamls it is going to edit.
Tokens(x) ==
  /\ At(x, "tokens")
  /\ LET o == proc[x]
         kept == IF o.op = "remove"
                 THEN Only(tokens, {b \in ToSet(tokens) : b[1] # o.peer}) ELSE tokens
     IN /\ tokens' = kept
        /\ Becomes(x, [Stepped(o) EXCEPT !.tokens = kept, !.todo = ExistingYamls(Others(o))])
  /\ UNCHANGED <<setup, yaml, server, relay, daemon, begun, crashes, cut, warned>>

\* update_peer_op lists the others' yamls after it has written the peer's own.
List(x) ==
  /\ At(x, "list")
  /\ Becomes(x, [Stepped(proc[x]) EXCEPT !.todo = ExistingYamls(Others(proc[x]))])
  /\ UNCHANGED <<files, server, relay, daemon, begun, crashes, cut, warned>>

\* Faulty: a removed peer stays in the team lists.
Faulty_Edited(o, c) ==
  LET p == o.peer IN
  CASE o.op = "add" ->
         [c EXCEPT !.peers[p] = [secret |-> o.n, about |-> Original(o.n)],
                   !.team = IF p \in TeamJoiners THEN @ \union {p} ELSE @]
    [] o.op = "update" -> [c EXCEPT !.peers[p].about = With(@, o.gives, Spread(o))]
    [] o.op = "remove" -> [c EXCEPT !.peers[p] = None]
    [] o.op = "teams" -> [c EXCEPT !.team = o.members]

\* Faulty: the team lists get the new peer's name in place of its id.
Faulty_NamedTeam(o, c) ==
  LET p == o.peer IN
  CASE o.op = "add" ->
         [c EXCEPT !.peers[p] = [secret |-> o.n, about |-> Original(o.n)],
                   !.team = IF p \in TeamJoiners THEN @ \union {o.n} ELSE @]
    [] o.op = "update" -> [c EXCEPT !.peers[p].about = With(@, o.gives, Spread(o))]
    [] o.op = "remove" -> [c EXCEPT !.peers[p] = None, !.team = @ \ {p}]
    [] o.op = "teams" -> [c EXCEPT !.team = o.members]

\* What an operation makes of another peer's yaml.
Edited(o, c) ==
  LET p == o.peer IN
  CASE o.op = "add" ->
         [c EXCEPT !.peers[p] = [secret |-> o.n, about |-> Original(o.n)],
                   !.team = IF p \in TeamJoiners THEN @ \union {p} ELSE @]
    [] o.op = "update" -> [c EXCEPT !.peers[p].about = With(@, o.gives, Spread(o))]
    [] o.op = "remove" -> [c EXCEPT !.peers[p] = None, !.team = @ \ {p}]
    [] o.op = "teams" -> [c EXCEPT !.team = o.members]

\* A listed yaml that another operation has deleted ends this one with
\* FileNotFoundError, and a removal without a reload.
EditYaml(x) ==
  /\ At(x, "edit") /\ proc[x].todo # <<>>
  /\ LET o == proc[x]
         f == Head(o.todo)
     IN IF yaml[f] = None
        THEN /\ cut' = cut \union Changes(o)
             /\ Becomes(x, None)
             /\ warned' = (warned \/ o.op = "remove")
             /\ UNCHANGED <<yaml, daemon>>
        ELSE /\ IF o.op = "update" /\ o.peer \notin Named(yaml[f].peers)
                THEN UNCHANGED <<yaml, daemon>>
                ELSE WriteYaml(f, Edited(o, yaml[f]))
             /\ Becomes(x, Visited(o))
             /\ UNCHANGED <<cut, warned>>
  /\ UNCHANGED <<setup, tokens, server, relay, begun, crashes>>

\* update_peer_op on the peer's own yamls, those that exist; the text of the
\* first one is kept for setup.json.
EditOwn(x) ==
  /\ At(x, "own") /\ proc[x].todo # <<>>
  /\ LET o == proc[x]
         f == Head(o.todo)
         new == [yaml[f] EXCEPT !.about = With(@, o.gives, Given(o))]
     IN IF yaml[f] = None
        THEN Becomes(x, Visited(o)) /\ UNCHANGED <<yaml, daemon>>
        ELSE /\ WriteYaml(f, new)
             /\ Becomes(x, [Visited(o) EXCEPT !.text = IF @ = None THEN new ELSE @])
  /\ UNCHANGED <<setup, tokens, server, relay, begun, crashes, cut, warned>>

\* The form: every pair gets a secret, every peer a bearer.
FormYaml(p, n) ==
  [bearer |-> <<p, n>>, about |-> Original(n), team |-> Founders \intersect TeamJoiners,
   peers |-> [q \in Peers |-> IF q \in Founders \ {p}
                              THEN [secret |-> n, about |-> Original(n)] ELSE None]]

FormEntry(p, n) == [bearer |-> <<p, n>>, about |-> Original(n), text |-> FormYaml(p, n)]

\* The team of the new yaml is the first one an existing yaml names.
CombinedTeam(o) ==
  LET named == Only(ExistingYamls(Others(o)), {f \in Files : yaml[f] # None /\ yaml[f].team # {}})
      base == IF named = <<>> THEN {} ELSE yaml[Head(named)].team
  IN IF o.peer \in TeamJoiners THEN base \union {o.peer} ELSE base

Build(x) ==
  /\ At(x, "build")
  /\ LET o == proc[x]
         text == [bearer |-> <<o.peer, o.n>>, about |-> Original(o.n), team |-> CombinedTeam(o),
                  peers |-> [q \in Peers |-> IF q \in Others(o)
                                             THEN [secret |-> o.n, about |-> o.setup[q].about]
                                             ELSE None]]
     IN Becomes(x, [Stepped(o) EXCEPT !.text = text,
                                      !.todo = <<<<"project", o.peer>>, <<"agent", o.peer>>>>])
  /\ UNCHANGED <<files, server, relay, daemon, begun, crashes, cut, warned>>

WriteNew(x) ==
  /\ At(x, "write") /\ proc[x].todo # <<>>
  /\ LET f == Head(proc[x].todo)
     IN WriteYaml(f, IF proc[x].op = "submit" THEN FormYaml(f[2], proc[x].n) ELSE proc[x].text)
  /\ Becomes(x, Visited(proc[x]))
  /\ UNCHANGED <<setup, tokens, server, relay, begun, crashes, cut, warned>>

SaveTokens(x) ==
  /\ At(x, "saveTokens")
  /\ LET new == Append(proc[x].tokens, <<proc[x].peer, proc[x].n>>)
     IN /\ tokens' = new
        /\ Becomes(x, [Stepped(proc[x]) EXCEPT !.tokens = new])
  /\ UNCHANGED <<setup, yaml, server, relay, daemon, begun, crashes, cut, warned>>

\* setup.json is written back from what was read at the start.
Saved(o) ==
  CASE o.op = "add" ->
         [o.setup EXCEPT ![o.peer] = [bearer |-> <<o.peer, o.n>>, about |-> Original(o.n),
                                      text |-> o.text]]
    [] o.op = "remove" -> [o.setup EXCEPT ![o.peer] = None]
    [] o.op \in {"update", "dirs"} ->
         [o.setup EXCEPT ![o.peer].about = With(@, o.gives, Given(o)),
                         ![o.peer].text = IF o.text = None THEN @ ELSE o.text]

\* The files of an operation are complete: an earlier attempt is made good.
MadeGood(o) == cut' = cut \ Changes(o)

SaveSetup(x) ==
  /\ At(x, "saveSetup")
  /\ setup' = Saved(proc[x])
  /\ IF proc[x].op = "remove" THEN UNCHANGED cut ELSE MadeGood(proc[x])
  /\ Becomes(x, Stepped(proc[x]))
  /\ UNCHANGED <<tokens, yaml, server, relay, daemon, begun, crashes, warned>>

\* SIGTERM to the process that the lock of the removed peer's daemon names.  The
\* daemon is spared when there is no lock, none that can be read, or no right to
\* send the signal; and its shutdown takes up to ten seconds.
Kill(x) ==
  /\ At(x, "kill")
  /\ LET p == proc[x].peer IN
     daemon' \in {[daemon EXCEPT ![p] = None],
                  IF daemon[p] = None THEN daemon ELSE [daemon EXCEPT ![p].spared = TRUE]}
  /\ Becomes(x, [Stepped(proc[x]) EXCEPT
                   !.todo = <<<<"project", proc[x].peer>>, <<"agent", proc[x].peer>>>>])
  /\ UNCHANGED <<files, server, relay, begun, crashes, cut, warned>>

Delete(x) ==
  /\ At(x, "delete") /\ proc[x].todo # <<>>
  /\ yaml' = [yaml EXCEPT ![Head(proc[x].todo)] = None]
  /\ Becomes(x, Visited(proc[x]))
  /\ UNCHANGED <<setup, tokens, server, relay, daemon, begun, crashes, cut, warned>>

EndOfLoop(x) ==
  /\ \E loop \in {"edit", "own", "write", "delete"} : At(x, loop)
  /\ proc[x].todo = <<>>
  /\ Becomes(x, Stepped(proc[x]))
  /\ IF At(x, "delete") \/ proc[x].op = "teams" THEN MadeGood(proc[x]) ELSE UNCHANGED cut
  /\ UNCHANGED <<files, server, relay, daemon, begun, crashes, warned>>

-----------------------------------------------------------------------------
\* Faulty: the bearer of the newest peer, which the relay does not know yet.
Faulty_AnyBearer(o) == Last(o.tokens)

\* The relay accepts a reload from whoever shows a bearer it knows.
AnyBearer(o) == Head(o.tokens)
TokensOfFile == ToSet(tokens)

Accepted(o) ==
  relay.state = "up" /\ o.tokens # <<>> /\ AnyBearer(o) \in relay.tokens

\* The caller learns of a reload that failed, or was skipped for want of a
\* bearer, from the answer of the operation.
ReloadRelay(x) ==
  /\ At(x, "reloadRelay")
  /\ warned' = ~Accepted(proc[x])
  /\ relay' = IF Accepted(proc[x]) THEN [relay EXCEPT !.tokens = TokensOfFile] ELSE relay
  /\ Becomes(x, Stepped(proc[x]))
  /\ UNCHANGED <<files, server, daemon, begun, crashes, cut>>

\* A relay is started without looking for another: of two, one gets the port.
StartRelay ==
  relay' \in (IF relay.state = "up" THEN {} ELSE {[state |-> "starting", tokens |-> {}]})
             \union (IF relay.state = "down" THEN {} ELSE {relay})

\* _load_setups: every setup.json, and the relay if its /health is silent.
LoadSetups ==
  /\ server' = [up |-> TRUE, peers |-> setup]
  /\ IF setup = None \/ relay.state = "up" THEN UNCHANGED relay ELSE StartRelay

\* _refresh_setup_in_memory: the endpoint reads its own setup.json again.
RefreshSetup == server' = [server EXCEPT !.peers = setup] /\ UNCHANGED relay

\* clade-add-peer asks for /admin/reload, and goes on without it when the
\* server does not answer.
AdminReload ==
  IF server.up /\ proc[Server] = None THEN LoadSetups ELSE UNCHANGED <<server, relay>>

Refresh(x) ==
  /\ At(x, "refresh")
  /\ Becomes(x, Stepped(proc[x]))
  /\ IF x = Server THEN RefreshSetup ELSE AdminReload
  /\ UNCHANGED <<files, daemon, begun, crashes, cut, warned>>

\* POST /api/setup: tokens.json, the yamls, the relay, and setup.json last.
Submit ==
  /\ proc[Server] = None /\ server.up /\ setup = None
  /\ begun = 0 \/ (Resubmit /\ begun < MaxOps /\ relay.state # "starting")
  /\ begun' = begun + 1
  /\ Becomes(Server, Operation("submit", None, {}))
  /\ UNCHANGED <<files, server, relay, daemon, crashes, cut, warned>>

FormTokens(x) ==
  /\ At(x, "formTokens")
  /\ tokens' = [i \in 1..Cardinality(Founders) |-> <<SetToSeq(Founders)[i], proc[x].n>>]
  /\ yaml' = [f \in Files |-> None]
  /\ Becomes(x, [Stepped(proc[x]) EXCEPT !.todo = SetToSeq({"project"} \X Founders)])
  /\ UNCHANGED <<setup, server, relay, daemon, begun, crashes, cut, warned>>

FormRelay(x) ==
  /\ At(x, "formRelay")
  /\ StartRelay
  /\ Becomes(x, Stepped(proc[x]))
  /\ UNCHANGED <<files, server, daemon, begun, crashes, cut, warned>>

\* The state was registered in memory just before, without an await between.
SaveForm(x) ==
  /\ At(x, "saveForm")
  /\ setup' = [p \in Peers |-> IF p \in Founders THEN FormEntry(p, proc[x].n) ELSE None]
  /\ server' = [server EXCEPT !.peers = setup']
  /\ Becomes(x, Stepped(proc[x]))
  /\ UNCHANGED <<tokens, yaml, relay, daemon, begun, crashes, cut, warned>>

Step(x) ==
  \/ FormTokens(x) \/ FormRelay(x) \/ SaveForm(x)
  \/ Tokens(x) \/ List(x) \/ EditYaml(x) \/ EditOwn(x) \/ Build(x)
  \/ WriteNew(x) \/ SaveTokens(x) \/ SaveSetup(x) \/ Kill(x) \/ Delete(x)
  \/ EndOfLoop(x) \/ ReloadRelay(x) \/ Refresh(x)

-----------------------------------------------------------------------------
\* A process dies between two of its steps.  What it was doing stays half done
\* until somebody does the same again.
Interrupted(x) ==
  /\ crashes < MaxCrashes
  /\ crashes' = crashes + 1
  /\ proc' = [proc EXCEPT ![x] = None]
  /\ LET o == proc[x] IN
     /\ cut' = IF o # None /\ o.op # "submit" /\ Plan(o.op)[o.at] \notin {"reloadRelay", "refresh"}
               THEN cut \union Changes(o) ELSE cut
     /\ warned' = (warned \/ (o # None /\ o.op \in {"add", "remove"} /\ ~At(x, "refresh")))

CliCrash(x) ==
  /\ x \in Clis /\ proc[x] # None
  /\ Interrupted(x)
  /\ UNCHANGED <<files, server, relay, daemon, begun>>

\* The relay is in a session of its own and survives the setup server.
ServerCrash ==
  /\ server.up
  /\ Interrupted(Server)
  /\ server' = NoServer
  /\ UNCHANGED <<files, relay, daemon, begun>>

ServerStart ==
  /\ ~server.up
  /\ LoadSetups
  /\ UNCHANGED <<files, daemon, proc, begun, crashes, cut, warned>>

\* A starting relay reads tokens.json, and listens only after that.
RelayLoads ==
  /\ relay.state = "starting"
  /\ relay' = [state |-> "loaded", tokens |-> TokensOfFile]
  /\ warned' = FALSE
  /\ UNCHANGED <<files, server, daemon, proc, begun, crashes, cut>>

RelayListens ==
  /\ relay.state = "loaded"
  /\ relay' = [relay EXCEPT !.state = "up"]
  /\ UNCHANGED <<files, server, daemon, proc, begun, crashes, cut, warned>>

RelayCrash ==
  /\ relay.state # "down" /\ crashes < MaxCrashes
  /\ relay' = [state |-> "down", tokens |-> {}]
  /\ crashes' = crashes + 1
  /\ UNCHANGED <<files, server, daemon, proc, begun, cut, warned>>

\* install.sh downloads the config into the agent directory.
Install(p) ==
  /\ server.up /\ proc[Server] = None /\ server.peers # None /\ server.peers[p] # None
  /\ LateInstall \/ begun = 1
  /\ WriteYaml(<<"agent", p>>, server.peers[p].text)
  /\ UNCHANGED <<setup, tokens, server, relay, proc, begun, crashes, cut, warned>>

\* A daemon reads its yaml; config_watcher_loop records the mtime later.  Its
\* start script is there once setup.json lists the peer.
StartDaemon(p) ==
  /\ p \in Daemons \intersect Listed /\ daemon[p] = None /\ yaml[<<"agent", p>>] # None
  /\ LET y == yaml[<<"agent", p>>] IN
     daemon' = [daemon EXCEPT ![p] = [bearer |-> y.bearer, peers |-> y.peers, team |-> y.team,
                                      armed |-> FALSE, seen |-> TRUE, late |-> FALSE, spared |-> FALSE]]
  /\ UNCHANGED <<files, server, relay, proc, begun, crashes, cut, warned>>

\* The shutdown of a removed peer's daemon is over.
EndDaemon(p) ==
  /\ daemon[p] # None /\ daemon[p].spared
  /\ daemon' = [daemon EXCEPT ![p] = None]
  /\ UNCHANGED <<files, server, relay, proc, begun, crashes, cut, warned>>

ArmWatcher(p) ==
  /\ daemon[p] # None /\ ~daemon[p].armed
  /\ daemon' = [daemon EXCEPT ![p].armed = TRUE, ![p].seen = TRUE, ![p].late = ~daemon[p].seen]
  /\ UNCHANGED <<files, server, relay, proc, begun, crashes, cut, warned>>

\* Faulty: only the peers that the daemon knows already are read again.
Faulty_Watch(p) ==
  /\ daemon[p] # None /\ daemon[p].armed /\ ~daemon[p].seen
  /\ yaml[<<"agent", p>>] # None
  /\ daemon' = [daemon EXCEPT ![p].seen = TRUE,
           ![p].peers = [q \in Peers |-> IF daemon[p].peers[q] = None THEN None
                                         ELSE yaml[<<"agent", p>>].peers[q]]]
  /\ UNCHANGED <<files, server, relay, proc, begun, crashes, cut, warned>>

\* config_watcher_loop finds another mtime: only cfg.peers is replaced.
Watch(p) ==
  /\ daemon[p] # None /\ daemon[p].armed /\ ~daemon[p].seen
  /\ yaml[<<"agent", p>>] # None
  /\ daemon' = [daemon EXCEPT ![p].seen = TRUE, ![p].peers = yaml[<<"agent", p>>].peers]
  /\ UNCHANGED <<files, server, relay, proc, begun, crashes, cut, warned>>

Next ==
  \/ Submit
  \/ \E x \in Procs, p \in Peers : BeginAdd(x, p)
  \/ \E p \in Peers, op \in {"update", "dirs"}, gives \in Updates \union {NoGift} :
        BeginUpdate(p, op, gives)
  \/ \E p \in Peers : BeginRemove(p)
  \/ \E members \in Memberships : BeginTeams(members)
  \/ \E x \in Procs : Step(x) \/ CliCrash(x)
  \/ ServerCrash \/ ServerStart \/ RelayLoads \/ RelayListens \/ RelayCrash
  \/ \E p \in Peers : Install(p) \/ StartDaemon(p) \/ EndDaemon(p) \/ ArmWatcher(p) \/ Watch(p)

Spec == Init /\ [][Next]_vars

\* A process goes on with what it has begun and a daemon looks at its file
\* every five seconds; nobody has to begin anything.
FairSpec ==
  /\ Spec
  /\ \A x \in Procs : WF_vars(Step(x))
  /\ \A p \in Daemons : WF_vars(ArmWatcher(p) \/ Watch(p))
  /\ WF_vars(RelayLoads \/ RelayListens)

-----------------------------------------------------------------------------
\* Properties

\* The shape of every file and every memory.
TypeOK ==
  /\ setup \in Setups \union {None}
  /\ tokens \in Seq(Bearers) /\ IsInjective(tokens)
  /\ yaml \in [Files -> Yamls \union {None}]
  /\ server \in [up : BOOLEAN, peers : Setups \union {None}]
  /\ relay \in [state : {"down", "starting", "loaded", "up"}, tokens : SUBSET Bearers]
  /\ DOMAIN daemon = Peers /\ \A p \in Peers \ Daemons : daemon[p] = None
  /\ proc \in [Procs -> Operations \union {None}]
  /\ \A x \in Procs : proc[x] # None => proc[x].at \in 1..Len(Plan(proc[x].op))
  /\ begun \in 0..MaxOps /\ crashes \in 0..MaxCrashes
  /\ warned \in BOOLEAN

\* What operations under way are changing, or some that were cut short.
InChange == cut \union UNION {Changes(proc[x]) : x \in {y \in Procs : proc[y] # None}}
Open(kinds, p) == \E k \in kinds : <<k, p>> \in InChange
NoneOpen(kinds) == \A c \in InChange : c[1] \notin kinds
Settled == LET changing == InChange IN {p \in Listed : <<"remove", p>> \notin changing}

\* peer_ops.py, add_peer_op: setup.json is written after every yaml, so that at
\* every instant, in the middle of an operation and after a crash and any number
\* of further attempts, all copies of two listed peers' yamls know each other and
\* hold the same secret.
PairsAgree ==
  \A p, q \in Settled, d, e \in Dirs :
    p # q /\ yaml[<<d, p>>] # None /\ yaml[<<e, q>>] # None =>
      /\ q \in Named(yaml[<<d, p>>].peers) /\ p \in Named(yaml[<<e, q>>].peers)
      /\ yaml[<<d, p>>].peers[q].secret = yaml[<<e, q>>].peers[p].secret

\* peer_ops.py, add_peer_op: a listed peer's bearer, the one of setup.json, is in
\* tokens.json and in both copies of its yaml, so that the next relay that reads
\* the file lets the peer in, whichever attempt at adding it went through.
BearersMatch ==
  \A p \in Settled :
    /\ setup[p].bearer \in TokensOfFile
    /\ \A d \in Dirs : yaml[<<d, p>>] # None => yaml[<<d, p>>].bearer = setup[p].bearer

\* peer_ops.py, remove_peer_op: of a peer that is not listed, and that no attempt
\* to add or remove it has left half done, nothing remains: no yaml, no entry or
\* team of a listed peer's yaml, no bearer in tokens.json.
RemovedLeavesNothing ==
  \A p \in Peers \ Listed :
    setup # None /\ ~Open({"add", "remove"}, p) =>
      /\ \A f \in Files :
            yaml[f] # None =>
              /\ f[2] # p
              /\ f[2] \in Listed => p \notin Named(yaml[f].peers) /\ p \notin yaml[f].team
      /\ \A b \in TokensOfFile : b[1] # p

\* relay/main.py, reload_tokens: between operations a running relay lets in
\* exactly the bearers of tokens.json, unless the reload failed, which its
\* answer says, or its caller died first.
RelayHoldsFile ==
  relay.state = "up" /\ ~warned
    /\ (\A x \in Procs : \/ proc[x] = None \/ At(x, "refresh")
                         \/ proc[x].op \notin {"submit", "add", "remove"})
    => relay.tokens = TokensOfFile

\* peer_ops.py, any_bearer: a relay that followed the file so far accepts the
\* bearer that is shown for the reload, if an older one than the new peer's is left.
BearerIsKnown ==
  \A x \in Procs :
    relay.state = "up" /\ ~warned /\ At(x, "reloadRelay")
      /\ (\E b \in ToSet(proc[x].tokens) : b # <<proc[x].peer, proc[x].n>>)
      => AnyBearer(proc[x]) \in relay.tokens

\* relay/main.py, reload_tokens: the relay follows tokens.json.
RelayFollowsFile == RelayHoldsFile /\ BearerIsKnown

\* peer_ops.py: unless an attempt to set the team is under way or was cut short,
\* all yamls of listed peers have the same listed peers in it, in the middle of
\* any other operation too; and every copy of a peer's name, and of its role, is
\* the one of its own yaml, unless an update that spreads a new one is under way,
\* or was cut short and no update has spread one since.
SharedFactsAgree ==
  LET settled == Settled
      changing == InChange
  IN
  /\ NoneOpen({"teams"}) =>
       \A p, q \in settled, d, e \in Dirs :
         yaml[<<d, p>>] # None /\ yaml[<<e, q>>] # None =>
           yaml[<<d, p>>].team \intersect settled = yaml[<<e, q>>].team \intersect settled
  /\ \A p, q \in settled, d, e \in Dirs, k \in Facts :
       p # q /\ <<k, q>> \notin changing /\ yaml[<<d, p>>] # None /\ yaml[<<e, q>>] # None =>
         yaml[<<d, p>>].peers[q].about[k] = yaml[<<e, q>>].about[k]

\* peer_ops.py: all files of a setup tell one story.
FilesAgree == PairsAgree /\ SharedFactsAgree /\ BearersMatch

Reachable(p, q) ==
  /\ q \in Named(daemon[p].peers) /\ p \in Named(daemon[q].peers)
  /\ daemon[p].peers[q].secret = daemon[q].peers[p].secret
Running(p) == daemon[p] # None /\ daemon[p].armed /\ ~daemon[p].spared /\ p \in Settled

\* daemon.py, config_watcher_loop: when no more operations are begun, all daemons
\* of listed peers come to share secrets and to hold bearers of tokens.json, and
\* none of them knows a peer that is gone, without a restart.
NetworkConverges ==
  <>[](\A p \in Peers : Running(p) /\ ~daemon[p].late =>
         /\ daemon[p].bearer \in TokensOfFile
         /\ \A q \in Peers : Running(q) /\ q # p /\ ~daemon[q].late => Reachable(p, q)
         /\ \A q \in Named(daemon[p].peers) : q \in Listed \/ Open({"add", "remove"}, q))

-----------------------------------------------------------------------------
\* What does not hold, see README.

\* "Re-read setup.json + yamls for this setup so in-memory state matches disk":
\* what an idle setup server serves as a peer's config is the peer's yaml.
ServedMatchesDisk ==
  server.up /\ server.peers # None /\ (\A x \in Procs : proc[x] = None) =>
    \A p \in Named(server.peers) :
      yaml[<<"project", p>>] # None => server.peers[p].text = yaml[<<"project", p>>]

\* "existing daemons hot-reload via config_watcher_loop (peer allowlist + teams)".
TeamsHotReload ==
  \A p \in Peers :
    (daemon[p] # None) ~> (\/ daemon[p] = None \/ yaml[<<"agent", p>>] = None
                           \/ daemon[p].team = yaml[<<"agent", p>>].team)

\* The same as NetworkConverges for a daemon that read its file before an
\* operation edited it and recorded the mtime after.
EveryDaemonConverges ==
  <>[](\A p, q \in Peers : p # q /\ Running(p) /\ Running(q) => Reachable(p, q))
=============================================================================
