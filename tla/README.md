# Verification of desafio-alpha-multiplayer

TLA+ models, TLC runs and TLAPS proofs about the multiplayer game of this
repository: Players meet in a **Sala** (lobby), the Anfitrião forwards the Sala
to a **game server**, the match is played there and the Sala comes back. Names
follow `CONTEXT.md` and the source; a piece of code is named by its file and
line at the commit the models were written from.

Contents: 1 inventory, 2 modules and their correspondence with the code,
3 runs, 4 proofs, 5 what was found in the code, 6 abstractions and what is not
modelled, 7 what is left.

## 1. Inventory

| Part | State it keeps | Operations | Talks to |
|---|---|---|---|
| Lobby domain, `packages/engine/src/lobby.ts` | `EstadoDoLobby.salas`: links (Membros) with order of entry, presence, readiness; Anfitrião, blocked Players, `proximaOrdemDeEntrada`, `consistente`, state of the Sala | one pure function per command, dispatched by `aplicarComando` | called by the lobby server |
| Lobby server, `backend/lobby-server/src/salas`, `ws/ws.ts` | engine state in memory, rows in PostgreSQL (write model), projection and reconnection windows in Redis, expiration timers, registry of sockets, `encaminhamentosEmVoo` | handlers of the WebSocket messages, `handleFechamento`, `tratarReconexaoSeNecessario`, `handleExpirar`, `executarEncaminhamento`, boot (`carregar`, `rearmarAposRestart`) | PostgreSQL, Redis, game servers over HTTP |
| Callbacks, `routes/retorno.ts`, `routes/desistencia.ts` | none (state of the Sala) | a match ended; a Player gave a match up | called by the game server with retries |
| Sessions, `sessoes.ts`, `routes/auth.ts`, `ws/revalidacao-de-sessao.ts` of both servers, `api/client.ts`, `AuthProvider.tsx` | sessions, mapping and rotation markers in Redis; cookies of each browser; state of each tab | login, refresh, logout, probe, periodic revalidation | sockets of lobby and game |
| Bots, `routes/bots.ts`, `bots/*` | admission lock, runners | create a bot, connect it, play, expire | lobby and game servers, as clients |
| Match life, `backend/game-server/src/partidas`, `ws/ws.ts`, `routes/encaminhamento.ts` | the match and its presences in Redis, não-início timer, windows of an ongoing match, connections in memory | accept an offer, admit, disconnect, expire, cancel | lobby (return), Redis |
| Return client, `retorno/cliente.ts`, `partidas/handlers.ts` | pending return in Redis, promises in memory | send with unbounded retries, drain at boot | lobby callbacks |
| Match rules, `packages/engine/src/partida.ts`, `peoes.ts`, `tabuleiro.ts`, `monstros.ts`, `bot.ts` | turn, pawns, pieces on a 7x7 torus, Caixa, light, sanity, graça | commands of a turn, desistência, end of the match, strategy of bots | called by the game server |
| Page of the match, `PartidaPage.tsx`, `game/tabuleiro/reducao.ts`, `interacao*.ts` | a mirror of the match, reduced from events and snapshots | what it offers to click, chains of commands it sends by itself | game server |
| Page of the lobby and its fan-out, `useSalaWebSocket.ts`, `SalaPage.tsx`, `salas/broadcast.ts`, `salas/eventos.ts` | groups and maps of sockets; per page a Sala, the phase of the offer, blocked Players, gates, commands that wait for a socket | optimistic clicks, lots of events, reconnection | lobby server |
| Directory of game servers | heartbeat keys with TTL | register, list | lobby |
| Rest of the frontend, nginx, debug streams | presentation | — | — |

How they interact: the lobby server runs every mutation through one promise
chain (`cadeiaDeMutacoes`); inside a mutation the engine computes, PostgreSQL
commits, then the memory is replaced, then Redis and the sockets are told. The
offer to a game server is negotiated outside the chain and committed inside it.
The game server keeps a match in Redis, admits the sockets of its Players,
counts their absences, and calls back when Players give up or the match ends,
with retries and from a queue that survives a crash. Browsers mirror the match
from events, and both servers revalidate the session behind every socket.

What is hard in it, and what must hold:

- **Composition of a Sala**: any order of entries, exits, expulsions,
  expirations, restarts and two kinds of return; a Player is in one Sala only, a
  living Sala has an Anfitrião, ended links stay ended, the composition is frozen
  during a match.
- **Memory, PostgreSQL, Redis and timers**: a failure or a crash between two of
  them; memory follows the database, an absent Membro always has a deadline, a
  connected one never does.
- **Sockets**: several per Player, which open and close while mutations wait.
- **Forwarding**: the composition changes while an offer is negotiated, an
  answer is lost, a return is late or duplicated.
- **Match life**: admissions, substitutions and closings race the não-início,
  the expirations and each other between two replies of Redis; desistências and
  the return reach the lobby in any order, lost or repeated.
- **Match rules**: light, cleaning, draws, attacks and rescues happen in one
  command in a certain order; pawns, pieces and cached light must agree after it;
  a turn must never be stuck.
- **Mirror**: what a browser shows is computed from events alone, and its chains
  of commands race the events of the others.
- **Pages of the lobby**: a click is optimistic, a lot of events was sent before
  it, the socket falls or moves to another Sala; a page at rest must show the
  Sala its Player is in, and no other.
- **Sessions**: rotations interleave with the sweep that revalidates sockets and
  with calls of other tabs; answers get lost.

`PROJECT.json` lists each hazard at its line, with the properties that cover it
or the reason why none does.

## 2. Modules

`Bug...` operators are plausible mistakes in the code, one for every property,
which must catch it; no specification uses them. `MC...` modules are the
instances TLC checks, `...Proofs` modules hold theorems (section 4).

### The lobby

`LobbyDominio` — one Sala as a record and the pure operators of `lobby.ts`: the
gates (`NaoEncaminhada`, `AbertaConsistente`...), what happens to links
(`Encerrar`, `Reiniciado`, `NaoPronto`), succession (`Sucessor`,
`AnfitriaoApos`) and the Sala each command returns (`ComSaida`, `ComEntrada`,
`SalaReaberta`...). A link is identified by its order of entry; `anfitriao` is
the order of the Anfitrião's link, 0 for `null`.

`LobbyEngine` — `aplicarComando` as a state machine over several Salas, one
action per command. A rejected command, and one that returns the state it was
given, is a stuttering step. `MaxOrdem` bounds `proximaOrdemDeEntrada`.

`CicloDasSalas` — what the lobby promises: phases, occupants and Anfitrião,
without links, orders, presence or restarts. `LobbyEngine!ImplementaCiclo`
maps the engine onto it.

`SalasServidor` — one Sala in the lobby server, over the operators of
`LobbyDominio`:

| Variable | Code |
|---|---|
| `noAr`, `quedas` | the process; crashes so far |
| `sala` | the Sala in `SalasState` |
| `pg` | rows of `salas_historico` and `membros` |
| `janelas`, `timers` | keys `lobby:reconexao:*`; `timersDeReconexao` |
| `abertos`, `conectando`, `registrados` | open sockets; those whose reconnection was not looked at yet; those in `SalasBroadcaster` |
| `fila` | mutations waiting in `cadeiaDeMutacoes` with something captured |
| `oferta`, `rosters`, `canceladas` | `encaminhamentosEmVoo` and its offer; the matches game servers accepted; those told to cancel |
| `presentes`, `falhas` | history: who was connected at the crash; PostgreSQL failures |

A mutation is one step, because the chain runs them one at a time; what happens
outside it (a socket opens or closes, a timer fires, a window reaches its TTL,
an offer is answered) is a step of its own, and only enqueues. Only mutations
that captured a socket or a link wait in `fila`: for them what matters is what
changed in between. A command that carries nothing but its sender could have
arrived at any moment, so it is taken directly when it runs.

`SalaNaRede` — what the Members of several Salas see, over the actions of
`LobbyEngine`. Here a handler is one step; what interleaves is the network:

| Variable | Code |
|---|---|
| `salas` | the Salas of `LobbyEngine` |
| `emissor` | `SalasBroadcaster`: groups (`salaParaSockets`), the maps of each Player's live socket (`sala`) and of a closed one (`mortos`); `sobras` is history: Salas that kept a socket its Player took elsewhere |
| `ofertas` | `encaminhamentosEmVoo` with the roster that was offered |
| `lotes`, `pedidos` | lots of events on the way to a page; commands on the way to the server, or waiting for a socket |
| `paginas` | `useSalaWebSocket`: Sala, phase of the offer, blocked Players, gates; `defasada` and `antecipou` are history |
| `ligacao`, `gastos` | whether the socket is open; commands and falls so far |

`TraduzirEventos` is `traduzirEventos`; a handler (`AtenderEntrar`,
`AtenderExpulsar`...) pairs an action of `LobbyEngine` with what it registers,
what it sends and in which order. `Absorver` is what a page makes of one event,
`Ler` of a lot, `Clicar...` its buttons, `Cair`, `Recarregar` and `Abrir` its
socket, `CairAoEntrar` a socket that closes while its entry waits in the queue.

`Sessoes` — the session of one Player: the store in Redis (`vivas`, `mapa`,
`marcador`), the cookies of each browser (`acesso`, `renovacao`), the tabs with
the call each waits for (`aba`, `http`), and the sockets with the sweep that
revalidates them (`socket`, `varredura`). One step is one command or script of
Redis with the code that runs on its answer, or one message. `orfas` is history:
the sessions a logout unmapped and has not removed yet.

### The match

`Tabuleiro` — the board as data: torus, edges, connections, light, Limpeza,
draws, the range of monsters, and for every command of `peoes.ts` and
`tabuleiro.ts` what it accepts (`Pode...`) and the board it returns.

`Partida` — `aplicarComandoDePartida`: one action per command, with the order in
which it rescues, draws, attacks, lights and cleans.

`BotDaPartida` — `bot.ts`: what a bot considers valid in each sub-phase, and the
turns it plays with that.

`EspelhoDaPartida` — the mirror a browser keeps: each event of the wire as
`reducao.ts` applies it, and the snapshot. `ClienteDaPartida` composes match,
mirror and page: the Player `Eu` acts only through what the page offers, the page's
chains send commands of their own (`cadeia`), commands travel in `pedidos`, the
socket drops and comes back with a snapshot. `JogadorBot` sets a bot at the same
table: its mirror (`visto`) folds every lot with code of its own, its loop (`laco`)
asks `BotDaPartida`, instantiated over that mirror, what is valid, and sends it.
A step of the loop sends one command and folds its answer, since `executarTurno`
waits for it; that the loop takes 250 ms of silence for the end of a lot is left out.

`PartidaVida` — the life of one match in the game server:

| Variable | Code |
|---|---|
| `partida`, `janela`, `pendente` | Redis: metadata and engine state; window keys; pending return |
| `conexao`, `soquete` | the connections of `ws/conexao.ts`; each socket's phase, and which connection it replaced |
| `naoInicio`, `velha`, `expira` | the não-início timer and its 90 s ceiling; the expiration timers |
| `fio` | replies of Redis on their way, with what each read |
| `cadeia`, `devido`, `avisos` | `enfileirarMutacao`; the return the running mutation owes; detach callbacks |
| `retornos`, `enviado` | return callbacks on their way; `callbacksEnviados` |
| `sala`, `roster`, `orfaos` | lobby: state of the Sala and its Membros; who it was forwarded with; who left as an orphan |

The process talks to Redis over one connection, so the effect of a command
belongs to the step that issues it and its reply is handled in the same order;
everything else interleaves with the replies. The game itself is abstracted to
who still plays and whether there is a result.

## 3. Runs

| Run | Question | Bounds |
|---|---|---|
| `uma_sala` | links, Anfitrião and succession, ended links, and the refinement `ImplementaCiclo` | 4 Players, 1 Sala, limit 3, `MaxOrdem` 4; 409 thousand states |
| `servidor_sala` | memory and PostgreSQL agree (`MemoriaSegueBanco`), a forwarded Sala waits for a living match (`EncaminhadaEspera`) | 2 Players, 1 socket each, 1 match, 1 failure, 1 crash, queue of 1; 3.2 million states |
| `servidor_presenca` | every absence of an open Sala has a deadline (`AusenteTemPrazo`) and ends (`AusenciaTermina`, under fairness) | 2 Players, one a bot, queue of 1, 1 crash, no match; 601 thousand states |
| `sala_na_rede` | a Player is in one Sala at most (`AssociacaoUnica`); a page at rest shows the Sala of its Player (`PaginaConverge`), no other (`SemVinculoFantasma`) and the phase of the offer (`FaseSegueSala`); presence follows the socket (`PresencaSegueSocket`) | 2 Players, 2 Salas, `MaxOrdem` 2, 1 command and 2 lots on the way, 6 commands and 1 fall in all; 2.1 million states |
| `sessoes` | one living session, cookies that follow the rotations, sockets that live as long as their session (`SocketVencidoFecha` is liveness) | 2 tabs in one browser or in two, one socket to each server, 3 sessions, 1 hop of the sweep (`MaxSaltos`, 8 in the code), 1 failure, the `CONSTRAINT` below; 2.0 million states |
| `vida` | presence, não-início, conversions and the return, from the offer or from a match already running (`PendenteNaoEspera`, `PreparadaResolve`, `AusenciaConverte`, `TerminoReabre` are liveness) | 2 Players just forwarded, with 3 sockets and 3 connections, or 3 Players already playing; 1 crash or 1 orphan, 2 replies on their way (`CONSTRAINT Orcamento`), lost answers; 586 thousand states |
| `partida` | connected board, light, one house per turn, always a way out, occupation, passing of the turn, and a bot offers exactly what the engine accepts | 2 bots, then a human that may give up; 3x3 torus with the first Peça Inicial in a corner (moving the torus along its diagonal gives the other places), 4 boxes of 5 pieces with monsters, 3 rounds; 571 thousand states |
| `cliente` | the mirrors of page and bot equal the server, offers are accepted, the page always leaves a way on, chains follow the state of the moment, the loop of the bot ends its turns (`PilotoConclui`) | 1 person, 1 bot that may give up, 1 box, 2 rounds, 1 reload; 127 thousand states |
| `prazo_apos_partida`, `logout_indevido`, `travessia_na_graca`, `bot_no_monstro` | disagreements between code and documentation, section 5 | the smallest that show them; `travessia_na_graca` follows a story of five rounds on a 5x5 torus in which only the cell of each piece is fixed |

Why the bounds are enough for the cases to happen. Succession is wrong first with
three links, of which the middle one is Anfitrião: limit 3 with a fourth Player
reaches it, a full Sala, an expulsion and a re-entry with a later order.
`AssociacaoUnica` needs a second Sala, and is checked in `sala_na_rede`, which
takes the commands of `LobbyEngine` over two; the refinement across two Salas
rests on its proof. In the server the cases are about one link against its socket,
timer and window, with a second Player so that the Sala survives the first one's
exit and a succession reaches PostgreSQL; one crash and one failure place them
anywhere in the story. `servidor_presenca` has no match because a match is where
`AusenteTemPrazo` fails (section 5), and no PostgreSQL failure because
`handleExpirar` then gives the timer up on purpose (its comment: the restart heals
it). In `sala_na_rede` six commands are two Salas, two entries and what follows
them; the fall may come at any moment. The module was also explored once, beyond
what a run can hold, with `MaxOrdem` 3 and two falls (9.5 million states), eight
commands around one Sala (14 million) and three Players (3.6 million). In `vida`
three sockets give a substitution during an admission and a late close of the
replaced one; three Players let a desistência leave a match going on; a pending
return needs one crash and one admission after it. In `sessoes` one hop and three
sessions put a second rotation beside or before the sweep, so that a socket is
closed at the limit with its session alive. A 3x3 torus is the smallest one on
which a cell has four different neighbours; on it lines wrap after two steps, so
every rule about the edge of the grade is exercised. The boxes are chosen so that
rescue, both monsters, a crossing that draws a monster, frightened Players,
Proteção, victory and an exhausted Caixa happen. Players are symmetric where they
can be; symmetry is used in runs without liveness only.

Two runs carry a `CONSTRAINT`, which keeps TLC from looking beyond some states:
`vida` has a crash or an orphan, not both, and at most two replies of Redis on
their way (`Orcamento` of `MCPartidaVida`); `sessoes` three sessions while nothing
fails, or two and a failure (`Orcamento` of `MCSessoes`). A behaviour that leaves
these bounds is not followed; the safety properties of `PartidaVida` and `Sessoes`
are proved without them.

No run checks deadlock: the story of a Sala ends when it is closed or expired, a
match ends, and bounds end them earlier.

*Bots* of `SalasServidor` are Players of the set `Bots`. A bot that was expelled
may enter again in the model; in the code another bot would, which is more
behaviours, not fewer.

*Fairness.* `SalasServidor!SpecJusta`: `WF(Executar)` — the promise chain always
runs its next mutation; `WF(Subir)` — the supervisor restarts the process;
`SF(TimerDispara(o))` — a `setTimeout` that stays armed fires. It is strong only
because `MaxFila` may disable it now and then: the real queue has no limit, and
there weak fairness is enough. `Sessoes!SpecJusta`: the interval of the
revalidation fires, in either server. `PartidaVida`:
replies of Redis are handled, armed timers fire and the match gets old, the return
is sent and retried (a detach need not be: its time limit lets the return go on), the
process comes back. Nowhere is a Player assumed to do
anything.

## 4. Proofs

Every theorem holds for all values of the constants that satisfy the named
assumptions of the modules: any sets of Players and Salas, any limits with
`1 <= MinimoDeMembros <= LimiteDeMembros`, any tabs, sockets and bounds.

| Module | Theorem | Says |
|---|---|---|
| `LobbyEngineProofs` | `InvarianteIndutivo` | `Spec => []IInv` |
| | `TipoCorreto` | `Spec => []TypeOK` |
| | `JogadorEmUmaSoSala` | `Spec => []AssociacaoUnica` |
| | `SalaVivaTemAnfitriao` | `Spec => []AnfitriaoVivo` |
| | `AnfitriaoSegueAntiguidade` | `Spec => []AnfitriaoMaisAntigo` |
| | `SucessaoCorreta` | `Spec => SucessaoCircular`, an action property |
| | `OrdensIdentificam`, `BloqueioRespeitado`, `SalaNaoTransborda` | links and orders, block list, capacity |
| | `VinculosFicamEncerrados` | `Spec => VinculoNaoRevive`, an action property |
| | `EncaminhadaNaoMuda` | `Spec => EncaminhadaCongelada`, an action property |
| | `EngineImplementaCiclo` | `Spec => ImplementaCiclo`, the refinement |
| `SalaNaRedeProofs` | `InvarianteDaRede` | `SpecDaRede => []IInvDaRede` |
| | `RedeImplementaEngine` | `SpecDaRede => Spec` of `LobbyEngine`: the network implements the engine |
| | `RedeImplementaCiclo` | `SpecDaRede => ImplementaCiclo`, the refinement through both |
| | `PresencaDosSockets` | `SpecDaRede => []PresencaSegueSocket` |
| `SalasServidorProofs` | `InvarianteDoServidor`, `TipoDoServidor` | `Spec => []IInv`, `[]TypeOK` |
| | `MemoriaEBancoConcordam` | `Spec => []MemoriaSegueBanco` |
| | `EncaminhadaEsperaPartida` | `Spec => []EncaminhadaEspera` |
| | `ConectadoSemTimer` | `Spec => []TimerSoDeAusente` |
| | `AusenciaContada` | `AusenteTemPrazo` until the first match is accepted or PostgreSQL fails; the run `prazo_apos_partida` shows that the hypothesis is needed |
| `SessoesProofs` | `TiposDasSessoes`, `UmaSessaoAtiva` | `Spec => []TypeOK`, `[]SessaoUnica` |
| | `VarreduraNaoErra` | `Spec => RevalidacaoPreserva`, an action property |
| | `CookiesEmDia` | `Spec => []JarraEmDia` |
| `PartidaVidaProofs` | `VidaInvariante`, `TiposDaPartida` | `Spec => []Vida`, `[]TypeOK` |
| | `PresencaDoRegistro`, `AbertaSemPartida`, `RetornoDevolveASala`, `CanceladaFicaVazia` | the four invariants of the run `vida` |
| | `PendenteRetomado` | `Spec => []PendenteACaminho`: a pending return that survived a crash has been sent, or a reply that leads to sending it is on its way, once somebody is admitted to the finished match |
| | `IniciadaNaoSome` | the não-início never removes a match that started, an action property |
| `PartidaProofs` | `PecasEPeoes`, `PecasEPeoesComBots` | `Spec => []Ocupadas`, `SpecComBots => []Ocupadas` |
| | `Tipagem`, `PeoesNoTabuleiro`, `CadaPecaUmaVez`, `Amedrontados`, `PecasPartilhadas`, `GracaPartilhada` | `TypeOK`, `PeaoSobrePeca`, `CadaPecaNumLugar`, `AmedrontadoSemSanidade`, `OcupacaoTolerada`, `GracaOcupada`, each for both specifications |
| | `VezDoAcordado` | `PassagemDeVez`, an action property, for both specifications |
| | `TurnosEmOrdem`, `TurnosEmOrdemComBots` | `Spec => []Turnos`, `SpecComBots => []Turnos` |
| | `UmaCasaSempre`, `EncaixeSempre`, `LuzSempre`, `SaidaSempre` | `UmaCasaPorTurno`, `EncaixeConectado`, `LuzEmDia`, `TurnoTemSaida`, each for both specifications |
| | `BotSempreExato` | `BotExato` of `SpecComBots` |
| `MesaProofs` | `MesaImplementaPartida` | `SpecDaMesa => Spec`: the page and the bots only take steps of the match |
| | `MesaSegura`, `MesaPassaAVez` | what is proved of the match, of `SpecDaMesa` |
| | `EspelhoSempreFiel` | `EspelhoFiel` of `SpecDaMesa`: the mirror of the page is what a snapshot taken now would show |
| | `OfertaSempreAceita` | `OfertaAceita` of `SpecDaMesa`: what the page offers, the match accepts |

The arguments:

**Lobby engine.** `IInv` says that every Sala is intact (`SalaIntegra`, in
`LobbyDominioProofs`) and that two Salas share no active Player. None of the
properties is inductive alone. A living Sala has an Anfitrião after an exit only
if orders of entry are unique (otherwise the link that leaves would take another
one's order along) and natural (so that the next one exists: `MenorNatural`, by
well-foundedness). That the Anfitrião is the link of the longest standing says
that the last branch of `sucederAnfitriao`, which goes round to the first link,
is never taken: it needs that an order handed out is above all those in use.
`SucessaoCorreta` follows from it and from `NinguemPassaAFrente`: each command
either keeps the Anfitrião or brings nobody in. Each operator of `LobbyDominio`
preserves `SalaIntegra` (one lemma per command); `SubstituirIInv` and
`AssociarIInv` lift that to all Salas; `NextIInv` goes through the commands.

**Refinement.** The abstract state of a Sala is a function of its seats (order
and Player of its active links) and of the order of its Anfitrião. Every command
keeps the seats but those that leave (`Continua`) and has one of seven effects:
none, birth, entry, exit, departure to a match, end, return. Each effect is an
abstract step or a stutter. `SemPassado` (a Sala that does not exist yet has no
links) makes ended links final.

**Lobby and its pages.** `PassoDaRede` says of every action that it is a command
of the engine, or none, and touches each Player in one of seven ways: not at all,
its socket arrives in the group of its Sala (`Chega`), leaves with it (`Larga`),
stays behind when it is expelled, expires or is left out by a return (`Sobra`), its
Sala is over and the group with it (`Desfaz`), the socket closes (`SemLigacao`), a
new one opens without a Sala (`Avulso`). From the first half the engine's theorems
carry over (`RedeImplementaEngine`). `PresencaSegueSocket` is not inductive: a
command touches maps through the group of a Sala its Player may have left. `Rede`
adds that a closed socket is in no map and no group (`Fechado`) and that a group
holds a socket only because it is that of its Sala, which its map names, or one that
kept it (`NoGrupo`) - until such a Sala is over (`Perdido`), whose end takes the
maps of everybody left in its group. A dead socket in the maps excuses only what
concerns the very Sala it names (`Notado`). The closing is the delicate step: if
nothing marks the absence, the maps named another Sala or a dead socket stands in the
way (`AusenteOuExplicado`).

**Lobby server.** `IInv` has two halves. While the process runs, `Coerente`:
memory is an intact Sala, rows are typed, with one row per Player and per order,
and rows and memory mirror each other (`Espelha`). While it is down, `Parado`:
the rows alone still describe such a Sala, which boot rebuilds. The second
invariant, `Prazos`, is about deadlines: timers belong to orders already handed
out, none to a connected Membro, and every absent one is counted while nothing
broke the chain of custody.

**Sessions.** The sweep follows rotation markers while rotations add more. What it
has passed is a set of dead sessions whose markers stay inside it or lead to the
session it reads next (`Caminhos`); dead sessions stay dead, so it gives up only
when nothing alive follows, or when it took `MaxSaltos` hops: then as many
sessions lie behind it, and a living one is further away than the limit. Cookies:
as long as no answer was lost, a session that is not in a jar is in exactly one
answer on its way to the one browser that can have asked for it (`Cookies`).

**Life of a match.** `Vida` joins what makes its parts inductive: one mutation at
a time (`Corrente`); what the reply of a mutation says stays true until it is
handled (`Lote`); a return names exactly who still plays, and the Sala holds at
least them (`Devolucao`); a dead process holds nothing (`Parado`); a reply "no
such match" means there is none (`Recados`); an admission that found a match is
handled before the reply of the cancellation that closes everybody
(`Cancelamento`); what a reply on the way to a pending return read is still so
(`Reenvios`); and the invariants of the run. The replies move as `Anda(fio,
d, N, fio')`: `d` handled, the set `N` added. Every action is classified three
times, as the chain, the messages to sockets and the return see it
(`PassoDaCadeia`, `PassoDoRecado`, `PassoDaDevolucao`), and the invariants are
proved over the classes.

**Match.** `Tipos` is the shape of the state: where each piece is (`Bom`, of the
board), which Players are on the roster with which pawn, whose turn it is. It is
inductive because every operator of the board keeps `Bom` (one lemma each) and
every command is a composition of them: an attack returns to the Caixa only what
its Player had drawn, a cleaning takes no piece with a pawn on it, a rescue changes no
piece. `PassoDosRamos` lists the commands once for Players and bots: what a bot
plays is a Player's command, or some turns of a piece and its encaixe at once.
`OcupacaoTolerada` and `GracaOcupada` are proved together with `Tipos`
(`Ocupadas`): a movement to a shared piece needs somebody affected there, and the
rescue that heals them puts the piece in the graça.

**Turns.** `Turnos` adds to `Tipos` what a turn remembers (`NaVez`), its house
(`UmaCasa`) and its encaixe (`Encaixada`). The commands are classified by what they
do to the turn (`Seleciona`, `Gira`, `Passa`, `Encerra`, `Confirma`...), and the
invariants are proved over the classes. `UmaCasa` says of a crossing that its piece
goes to a cell beside the start of the turn; a movement without crossing is inside
the zone. `Encaixada` says that a vaga is an open edge of the piece under the pawn
and stays one until a piece is put there, which then may only be turned into
orientations that keep it connected. `LuzEmDia` speaks of the beginning of a turn,
but its light was computed in an earlier one: `ClaraDepois` says that after the
definitive point of a turn the light is that of the board, `ClaraAntes` that before it
the light is that of the board with the pawn put back where the turn began
(`NoInicio`), and `Ordem` that in the first turns the Players come in the order of
entry, those still to come being neither on the board nor hurt.
`TurnoTemSaida` is not inductive: that a waiting piece has a free edge has to hold
for all that wait at once. `Saidas` counts them: after a confirmation they never
outnumber the free edges around the pawn (`Sobras`; each encaixe takes one of each),
and a crossing has one piece and one locked edge, or the piece it put there, which
stays connected and free of other pawns (`TravessiaAberta`). It also needs that
only a drawn piece can be turned after the first turn (`ViraRecebida`), which is why
the theorem, like the property, leaves the first turn out: there the initial piece
under the pawn can be turned and close the edges that were counted.
`BotExato` compares, branch by branch, what the bot enumerates with the guards of
the commands. The two differ in what they look at (the bot does not check the zone
of a crossing it confirms, nor that the cell of a chosen edge is still empty, nor
that nobody stands on its initial piece), and `Espelhado` says why that is enough: in
a crossing the pawn is where the turn began or on the piece of the crossing, a
chosen piece keeps its cell and its selection, a first turn draws only after the
pawn entered. It holds for humans too, whose turns come between those of bots.

**Table.** `SpecDaMesa => Spec` is a refinement by inclusion: the variables of the
match are the same, those of the page and the bots hide. It still needs an
invariant, since a step of the table executes whatever stands first in a queue:
`Mesas` says that what waits in `pedidos` or in the loop of a bot is a command the
match knows (`ComandoTipado`), and that its arguments come from mirrors with the
shape of what they mirror (`EspelhoTipado`, `VistoTipado`). A mirror is a fold over
a lot; that a fold keeps a shape is proved by the first place where it would fail
(`PrimeiroNatural`, from the well-foundedness of `<` on `Nat`), which needs no
induction over an operator. `ComandoJogada` maps each command of the wire, a bot's
or the person's, to a disjunct of `Jogada`.

**Mirror of the page.** `Fiel` says that a mirror is a picture of the state
(`Retrato`, one part each for the table, the pawns, the turn, the roster, and the
light, generators and card), and `FotoFiel` that a snapshot makes one. Of each event
a lemma says which fields it writes and what it leaves (`Intocados`), and
`DobraJunta` that a lot is its parts one after the other, so that the lot of a
command is followed event by event. `ComandoMostra` then says of every command, with the light, the
Limpeza, the attacks, the rescues and the change of turn it drags along, that its lot takes
any picture of the state before it to a picture of the state after it (`Mostrado`).
This is false of arbitrary states, since some events say less than what the engine
did. It needs that the selected piece is off the board, that the initial pieces are
those of the roster, that a drawn piece has a cell before its edge only in a crossing,
and that a piece can be turned before the light changes only where the pawn is going
to stand: `Apresentavel` states these facts and is kept with the pictures.
The inductive invariant is `Retratada`: `Mesas`, and, while the match runs
with everybody in it, the state is `Apresentavel`, the pieces the page remembers have left
the Caixa (the counter of those that remain depends on it, and the page keeps the
memory off line), and on line its mirror is `Fiel`. The mirrors of the bots, which
fold with code of their own, are only model-checked.

**Offers of the page.** `OfertaAceita` compares the guards of the page with those of the
commands, over a picture of the state. `ServidoDiz`, `PaginaDiz` and `PecasVistas` say what the page
reads of it (an empty cell, the neighbours of a piece, who stands on one, how many it
takes), and one lemma per kind of offer (`ValeVaga`, `ValeTravessia`, `ValeBotao`...)
that what is read is what the guard asks. The page checks less than the match:
it takes the first edge next to a cell a crossing locked, without looking whether the cell is
empty (`TravessiaAberta`); offers a crossing by the light as of the last definitive
point, where the match computes the light anew (`ClaraAntes`); turns whatever is
selected; and selects whatever can be turned. The last two need
the invariant to say more than `Retratada`: `Servida` adds that no Peça
Inicial of a Player whose first turn is over waits on the table
(so that only a drawn piece is selected), and that after a first turn the piece that can be turned
lies on the board, through cleanings and changes of turn (`Assentada`). The theorem, like the
property, leaves the first turn out: in it the page offers every Peça Inicial on the board
to the pawn, the occupied ones too, and the server decides.

Model-checked only: liveness (`AusenciaTermina`, `SocketVencidoFecha`,
`PendenteNaoEspera`, `PreparadaResolve`, `AusenciaConverte`, `TerminoReabre`), because the proof
system does not reason about fairness and `ENABLED`; of `BotDaPartida`, `BotSoTravaNaGraca`
(that twenty actions suffice needs a count of what is left of a turn);
what the page never runs out of (`UiTemSaida`,
`CadeiaAoVivo`), the mirror of a bot and the length of its loop (`EspelhoDoBotExato`,
`PilotoConclui`); of `SalaNaRede`, what a page shows (`PaginaConverge`, `SemVinculoFantasma`,
`FaseSegueSala`): a page trails the server by a queue of
broadcasts, so the invariant would have to say what the fold of a queue of any length
makes of the page, in every phase of its reconnection. That is not proved; a lot of the
match has a few events in an order the command fixes, which is why `EspelhoFiel` is.

`SalasServidor` also states `ReinicioPreservaVinculos`, that a crash ends no link
of a Membro who was connected. It is false by one Player, a crash and a boot
(section 5) and neither proved nor run.

## 5. What was found in the code

By violation runs:

- `prazo_apos_partida`: a window that runs out during a match is dropped with
  its timer (`:2095`); after the return the absent Membro has no deadline left.
- `logout_indevido`: the upgrade of the lobby looks at the access cookie alone
  (`ws/ws.ts:273`), and the page takes its 4401 for the end of the session: a tab
  whose access cookie expired becomes a visitor although its session lives.
- `travessia_na_graca`: a crossing of the dark that draws a monster is closed by a
  Permanência (`partida.ts:1290`, ADR-0017), but the graça refuses it first
  (`:1276`). A Player rescued by somebody in Baixa stays in Baixa on a piece in its
  graça; a crossing from there into a monster leaves it without a legal command,
  and the match waits until somebody leaves. `PresoNaGraca` is the exception
  `TurnoTemSaida` makes.
- `bot_no_monstro`: the mirror of a bot never learns which piece a crossing drew
  (`jogador-bot.ts:355`; the snapshot has it, the adapter drops it), so a bot whose
  crossing drew a monster is never offered the Permanência that would close its turn
  (`bot.ts:610`). Its failsafe is refused, the loop gives up, and the match waits
  on its turn until it is removed. `PilotoConclui` makes this exception by name.

Noted while modelling, without a run:

- The decision that the last socket closed is taken when it closes and applied
  when its mutation runs (`salas/handlers.ts:1908`), without a second look. If a
  second tab reconnects while it waits, the Membro becomes `em_reconexao` with a
  registered, open socket, and expires: `DesconexaoSoSemSocket` of
  `SalasServidor` fails with two tabs, against the comment at `:1896`.
- Mutations register the socket they captured (`salas/handlers.ts:468`, `:552`,
  `:2065`) even if it closed while they waited; its close has passed, so the Membro
  stays `conectado` without a socket (`ConectadoTemSocket` is false by a creation
  whose socket closes in the queue). Its maps stay (`mortos`), so later closes of
  the same Player go unnoticed too.
- A socket that an expulsion, an expiration or a return leaves in the group of a
  Sala (`sobras`; `broadcast.ts:14-18` says it goes) hears that Sala beside the
  next one: its events replace the Sala on the page, and when it is closed
  (`removerPorSala`) the maps of the socket go, so that its close is not noticed
  and the Player stays `conectado` in the other Sala.
- A click on Sair that crosses an expulsion, or a page that shows no Sala: its own
  MEMBRO_EXPULSO takes the general path and shows the Sala it was expelled from
  (`useSalaWebSocket.ts:456-471`). A page that comes back to no link keeps the Sala
  it showed, since `tratarReconexaoSeNecessario` returns without a word
  (`:1992`). The return of a match shows the Sala again to a Player whose
  desistência did not reach the lobby before (`routes/retorno.ts:233`), and until it
  does, events of the others show the Sala to who gave up.
- A repeated ENTRAR_NA_SALA is answered with nothing; PARTIDA_PREPARANDO is undone
  by the SALA_ATUALIZADA of its own lot, as the Sala is still `aberta`; a Sair
  clicked without a socket is cleared with the queue it was put in
  (`useSalaWebSocket.ts:688-694`), and the page shows the Sala again after the
  reconnection. `PaginaConverge` and `SemVinculoFantasma` except by name what
  these leave apart.
- The mirror of a bot: a rescue by somebody in Baixa, or one that leaves more than
  one point of sanity, is folded as light and one point (`:473`; history `desviado`);
  `DESISTENCIA_REGISTRADA` is not folded, so the pawn of the leaver stays; a bot
  admitted while somebody plays a hand takes the announced TURNO_INICIADO for a new
  turn and forgets the hand (`:525`). The first two end the mirror's exactness, the
  third is kept out by `InitDaMesa`. Refused actions and the count of actions
  live as long as the loop, across two turns in a row.
- After a reconnection the page resumes the chain of a crossing from the snapshot,
  with the same guards as live (`PartidaPage.tsx:859-897`), but the server announces
  TURNO_INICIADO after the snapshot (`ws.ts:581`), which clears what the chain sent
  (`PartidaPage.tsx:708-719`). So the ack of the MOVER_PEAO it resumed with does not
  send the Confirmação, and the ack of that not ENCERRAR_TURNO, against the comment,
  which has the acks go on "pela via de evento". `CadeiaAoVivo` asks the
  chain to go on by itself while nothing fell, and after a fall that the page offers by
  hand a command that goes on and is accepted (without that alternative TLC finds the
  idle page in the run `cliente`).
- The sweep of the sessions follows at most eight rotations
  (`revalidacao-de-sessao.ts:26`, `:55`) and closes the socket of a session that
  lives further away than that; it takes that many rotations between two sweeps.
- The catch around the acceptance of an offer (`salas/handlers.ts:1329`) also takes a
  failure of Redis in the projection (`:1316`): PostgreSQL and memory have the Sala
  encaminhada by then, its match is cancelled, and
  `registrar_falha_do_encaminhamento` is refused for a Sala that is not open.
- A page reloaded in the middle of a movement offers Permanecer alone; if another
  pawn took the house it came from, that is refused and there is no way on. It needs
  three pieces more than the run has.
- Restart: only members that were already absent have a window in Redis, and the
  boot expires at once whoever has none (`salas/handlers.ts:1875-1876`): a crash
  ends the links of all members that were connected, against ADR-0002.
- `montarSalaDominio` recomputes `proximaOrdemDeEntrada` from the rows that
  remain, so an order may be handed out again after a restart, against the
  comment above it (`estado.ts:240`). The model does the same; no code compares
  orders across a restart.
- `revogarSessao` reads the session, deletes the mapping and then the session: a
  login or a rotation between them leaves a living session that no mapping names
  (`orfas`), where `CONTEXT.md` wants at most one. `SessaoUnica` exempts these.
- A command is accepted while the match is still `preparada`
  (`partidas/handlers.ts:206`). After a desistência the return of the não-início
  names the whole roster, the lobby refuses it for good and the Sala stays
  forwarded. The history variable `cedo` keeps that case out of the properties.
- A close between `adicionarConexao` and the listener of the socket
  (`ws.ts:459`, `:679`) leaves a dead connection in force; after a crash
  presences stay `conectado` with neither socket nor window; a return for
  não-início is lost by a crash; one between the save of a result and its pending
  key (`partidas/handlers.ts:254`, `:520`, `:1087`) loses the return as well.
- In the first turn, turning the Inicial under the pawn while received pieces
  wait, or another Player's desistência that takes the dark piece of the crossing
  or the Inicial along, leaves the Player of the turn without a legal command
  (`peoes.ts:241`, `:538`); after another's desistência, selecting one's own
  Inicial unselects a received piece whose edge is dead. A bot may be shut in on
  a piece in its graça, against `test/bot.test.ts:741-745`, and so may a person:
  the wire says nothing of the graça, the page offers Permanecer there, which is
  refused, and shows Confirmar only after a movement. `TurnoTemSaida`,
  `BotSoTravaNaGraca`, `OfertaAceita` and `UiTemSaida` except these cases by name.
- The header of `partida.ts` says attacks come after the Limpeza; confirming a
  position attacks before it.
- Mirror: Proteção that is spent stays on the page until the next snapshot
  (`partida.ts:1679-1688`, `reducao.ts`); a desistência removes a piece under the
  leaver that the server may keep lit; `aplicarSnapshot` cuts the Iniciais to the
  number of Players left and may drop the last one's; the phase of movement goes
  ahead of the server (`reducao.ts:351`). `EspelhoFiel` names these exceptions.

## 6. Abstractions and what is not modelled

**Lobby server.** Sala codes and their collisions, apelidos and texts are left
out; the wire is in `SalaNaRede`. PostgreSQL failures that leave everything as it
was are no steps; the two that change something (`expirarMembroAtomico`, the
commit of a forwarding) are. Redis does not fail and keeps its keys across a
crash. The hot projection is not modelled: memory is its only source after boot.
With Redis not failing, the step that accepts an offer (`FinalizarE`) ends in a
forwarded Sala or in a failure of PostgreSQL; in the code its catch
(`salas/handlers.ts:1329`) takes a failure of the projection (`:1316`) as well,
after the commit (section 5). Whether a forwarded Sala is orphan is decided by the
state of the match, which is not in `SalasServidor`: `SairDeOrfa` may happen in
any forwarded Sala, which is more than the code allows. A window and its renewal
are the same key. Hydration of a Sala outside boot (a fallback when memory lacks
it) is not modelled. Database rows of a Sala that is over, and the Sala after it,
are cut off.

**Page of the lobby.** A lot is sent and read whole, and every event of it carries
the same Sala; a reconnection is handled as the socket opens; one socket per
Player; `salaRef` follows `sala` at once. Bots, chat, notices and the modal of an
expulsion are left out, and the clean-up of an orphan match in CRIAR_SALA and
ENTRAR_NA_SALA, which is the exit SAIR_DA_SALA has. That a handler is one step is
what `SalasServidor` looks into. A page asks only for codes that were once
handed out.

**Sessions.** Passwords, tokens, registration, rate limits, deleted Players, bots
(exempt from revalidation) and the TTL of sessions and markers are left out. A tab
has one socket and one call at a time; a refresh racing a command of the same tab
is left out. The limit of hops is the constant `MaxSaltos`: `RevalidacaoPreserva`
claims nothing of a session further away than that (section 5). A handshake is a
read and a registration; other answers of one Redis connection come in order, so
command and continuation are one step. A call that finds no session number left
(the bound) answers 500.

**Life of a match.** Merged into one step: the não-início's read and the window
read after `marcarDesconexao`; the three reads that validate an expired window;
the two writes of `salvarEstado`, after its TTL; the reads of a command or
conversion (a command reads first and writes replies later, and what happens
between is not lost); an admission's snapshot, its announcement of the turn and
its look at the pending key, which comes before the reads and the sending of the
return; retention and the start of the detaches; boot and its re-arming; the
pending key and the first POST. Between the TTL and the SET of a command the key
of a match not yet started may go, and the SET then brings back a state without
metadata: that is left out. A command or a conversion that finds a result
(`partidas/handlers.ts:218`, `:711`) sends a pending return too; only the
admission does in the model, so a return waits longer there, not shorter. Redis
does not fail, a SIGTERM is a crash, backoff times are left out, and a retained
match does not expire within the story. After the result sockets rest, but for
those that find a pending return after a crash.

**Match.** Colours, texts and `peoesNoAlcance` are left out. The wire lets cells
0 to 6 through only, so the torus of the model has no other cells. `Lado` is at
least 3. The real Caixa of 89 pieces is a sequence given as a constant.

**Page.** One command's events arrive at once: that an attack holds part of them
back (`FilaDeAtaque`) is left out, as are drawing, chat and confirmations.

**Not modelled.** The hot projection of the lobby; the bot
runner and its admission lock; the directory
of game servers (a list that may be empty, hence a refused offer); the other
pages, nginx and debug streams.

## 7. What is left

- Proofs: the length of a bot's turn (`BotSoTravaNaGraca`); that the mirrors of the bots are exact.
- Models: the admission of bots (`routes/bots.ts`, `bot-runner.ts`), the queue of
  attacks of the page, windows told apart from their renewals.
