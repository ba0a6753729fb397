---------------------------- MODULE SalasServidor ---------------------------
(***************************************************************************)
(* One Sala inside the lobby server: backend/lobby-server/src/salas, the   *)
(* upgrade path of ws/ws.ts and the callbacks of the game server           *)
(* (routes/retorno.ts, routes/desistencia.ts).  The Sala exists twice, in  *)
(* the memory of the process (engine state) and in PostgreSQL (the write   *)
(* model); windows of reconnection live in Redis, timers and the registry  *)
(* of sockets in memory.                                                   *)
(*                                                                         *)
(* cadeiaDeMutacoes runs one mutation at a time, in order of arrival, so a *)
(* mutation is one step.  Closing a socket, opening one and a timer that   *)
(* fires happen outside it and only enqueue: fila holds the mutations that *)
(* they captured something for (a socket, a link).  A command that carries *)
(* nothing but who sent it could have arrived at any moment, so it is a    *)
(* step of its own, taken when it runs.  A command that the engine rejects *)
(* or PostgreSQL refuses leaves everything as it was and is no step.       *)
(***************************************************************************)
EXTENDS LobbyDominio, Sequences

CONSTANTS
  Bots,         (* Players whose Cadastro is of a bot.                     *)
  Ninguem,      (* anfitriao_id NULL.                                       *)
  Abas,         (* Sockets a Player may have open at the same time.        *)
  MaxOrdem,     (* Bound on the orders of entry handed out.                *)
  MaxFila,      (* Bound on the mutations waiting.                         *)
  MaxPartidas,  (* Bound on the matches accepted by a game server.         *)
  MaxFalhas,    (* Bound on the failures of PostgreSQL that matter.        *)
  MaxQuedas     (* Bound on the crashes of the server.                     *)

ASSUME ServidorAssumption ==
  /\ Bots \subseteq Jogadores /\ Ninguem \notin Jogadores
  /\ {MaxOrdem, MaxFila, MaxPartidas, MaxFalhas, MaxQuedas} \subseteq Nat
  /\ MaxOrdem > 0

Conexoes == Jogadores \X Abas
Dono(c) == c[1]

VARIABLES
  noAr,        (* The process runs.                                        *)
  sala,        (* The Sala in the engine's state.                          *)
  pg,          (* Its rows in salas_historico and membros.                 *)
  janelas,     (* Players with a key lobby:reconexao:<sala>:<jogador>.     *)
  timers,      (* timersDeReconexao, by order of entry of the link.        *)
  abertos,     (* Sockets that are open.                                   *)
  conectando,  (* Sockets whose automatic reconnection was not looked at.  *)
  registrados, (* Sockets the broadcaster holds for this Sala.             *)
  fila,        (* Mutations waiting in cadeiaDeMutacoes.                   *)
  oferta,      (* encaminhamentosEmVoo and the offer under negotiation.    *)
  rosters,     (* The roster each match was accepted with.                 *)
  canceladas,  (* Matches the lobby told the game server to cancel.        *)
  presentes,   (* Players connected when it crashed (of the model).        *)
  falhas,      (* Failures of PostgreSQL so far.                           *)
  quedas       (* Crashes so far.                                          *)

memoria == <<sala, timers>>
redes   == <<abertos, conectando, registrados>>
jogo    == <<oferta, rosters, canceladas>>
conta   == <<falhas, quedas, presentes>>
vars == <<noAr, sala, pg, janelas, timers, abertos, conectando, registrados,
          fila, oferta, rosters, canceladas, falhas, quedas, presentes>>

-----------------------------------------------------------------------------
(* Mutations that wait with something captured.                            *)

Tarefas ==
  [tipo: {"criar", "entrar", "reconexao"}, conexao: Conexoes]
    \cup [tipo: {"fechamento"}, jogador: Jogadores]
    \cup [tipo: {"expirar"}, ordem: 1 .. MaxOrdem]

Enfileira(t) == Append(fila, t)
DoSocket(tipo, c) == [tipo |-> tipo, conexao |-> c]
Expirar(o) == [tipo |-> "expirar", ordem |-> o]
NaFila(c) == \E i \in DOMAIN fila : "conexao" \in DOMAIN fila[i] /\ fila[i].conexao = c

SemOferta == [fase |-> "nenhuma", roster |-> {}, partida |-> 0]

(* Bound: the story of a Sala stops when it is over in PostgreSQL.         *)
EmCurso == noAr /\ pg.status \notin Terminal

(* The task at the head of the queue, which the step consumes.             *)
Cabeca(tipo) == EmCurso /\ fila # <<>> /\ Head(fila).tipo = tipo

-----------------------------------------------------------------------------
(* PostgreSQL: the statements of SalasRepo.                                *)

Linha == [jogador: Jogadores, ordem: 1 .. MaxOrdem, bloqueado: BOOLEAN]

BancoVazio == [status |-> "inexistente", membros |-> {}, anfitriao |-> Ninguem,
               partida |-> 0]

LinhasAtivas == {l \in pg.membros : ~ l.bloqueado}
LinhaDe(j) == {l \in pg.membros : l.jogador = j}

JogadorAnfitriao(s) ==
  IF TemAnfitriao(s)
  THEN (CHOOSE m \in Ativos(s) : EhAnfitriao(s, m)).jogador ELSE Ninguem

(* Mutant: the succession of the Anfitrião is left out of the commit.      *)
BugPgTermina(j, depois) ==
  [pg EXCEPT !.membros = @ \ LinhaDe(j),
             !.status = IF depois.estado \in Terminal THEN depois.estado ELSE @]

(* terminarVinculoAtomico: the row goes and, in the same commit, the Sala  *)
(* ends or the successor of the Anfitrião is recorded.                     *)
PgTermina(j, depois) ==
  [pg EXCEPT
     !.membros = @ \ LinhaDe(j),
     !.status = IF depois.estado \in Terminal THEN depois.estado ELSE @,
     !.anfitriao = IF depois.estado \in Terminal THEN Ninguem
                   ELSE IF depois.anfitriao # sala.anfitriao
                   THEN JogadorAnfitriao(depois) ELSE @]

PgExpulsa(j) ==
  [pg EXCEPT !.membros = (@ \ LinhaDe(j))
                           \cup {[l EXCEPT !.bloqueado = TRUE] : l \in LinhaDe(j)}]

PgEncerra == [pg EXCEPT !.membros = @ \ LinhasAtivas, !.status = "encerrada",
                        !.anfitriao = Ninguem]

(* reabrirSalaComMarkerAtomico, reabrirSalaComSaidasAtomico                *)
PgReabre(saem, depois) ==
  [pg EXCEPT !.membros = {l \in @ : l.jogador \notin saem},
             !.status = "aberta", !.partida = 0,
             !.anfitriao = IF depois.anfitriao = sala.anfitriao THEN @
                           ELSE JogadorAnfitriao(depois)]

(* Mutant: the Anfitrião of the rows, a Player, is taken for a link.       *)
BugReconstruida ==
  [estado |-> pg.status, consistente |-> TRUE, proxima |-> MaxOrdem,
   membros |-> {MembroAtivo(l.jogador, l.ordem) : l \in LinhasAtivas},
   bloqueados |-> {}, anfitriao |-> pg.anfitriao]

(* montarSalaDominio: the Sala the rows describe.  A link that left is not *)
(* rebuilt, and its order may be handed out again.                         *)
Reconstruida ==
  LET ativos == {MembroAtivo(l.jogador, l.ordem) : l \in LinhasAtivas}
      ordens == {l.ordem : l \in pg.membros}
      donos  == {m \in ativos : m.jogador = pg.anfitriao}
  IN  [estado |-> pg.status, membros |-> ativos, consistente |-> TRUE,
       proxima |-> 1 + (CHOOSE o \in ordens \cup {0} : \A p \in ordens : p <= o),
       bloqueados |-> {l.jogador : l \in pg.membros \ LinhasAtivas},
       anfitriao |-> CASE donos # {} -> (CHOOSE m \in donos : TRUE).ordem
                       [] donos = {} /\ ativos # {} -> PrimeiraOrdem(ativos)
                       [] OTHER -> SemAnfitriao]

-----------------------------------------------------------------------------
Init ==
  /\ noAr = TRUE
  /\ sala = SalaInexistente /\ pg = BancoVazio
  /\ janelas = {} /\ timers = {}
  /\ abertos = {} /\ conectando = {} /\ registrados = {}
  /\ fila = <<>>
  /\ oferta = SemOferta /\ rosters = <<>> /\ canceladas = {}
  /\ falhas = 0 /\ quedas = 0 /\ presentes = {}

MembrosDe(j) == {m \in Ativos(sala) : m.jogador = j}
ConexoesDe(j) == {c \in registrados : Dono(c) = j}

(* A mutation of the Sala that PostgreSQL confirmed.                       *)
Confirma(nova, linhas) == sala' = nova /\ pg' = linhas

(* Mutants: the timer of a link is never armed, never cleared.             *)
BugAgendarExpiracao(o) == timers
BugLimparTimer(o) == timers

AgendarExpiracao(o) == timers \cup {o}
LimparTimer(o) == timers \ {o}

-----------------------------------------------------------------------------
(* Sockets: what happens outside the queue.                                *)

(* wss.on('connection'): the close listener is there from the start, the   *)
(* socket is authenticated and its reconnection looked at later.           *)
AbrirConexao(c) ==
  /\ EmCurso /\ c \notin abertos \cup conectando \cup registrados /\ ~ NaFila(c)
  /\ abertos' = abertos \cup {c} /\ conectando' = conectando \cup {c}
  /\ UNCHANGED <<noAr, memoria, pg, janelas, registrados, fila, jogo, conta>>

(* tratarReconexaoSeNecessario up to the queue, whether or not the socket  *)
(* is still open.                                                          *)
TratarReconexao(c) ==
  /\ EmCurso /\ c \in conectando
  /\ conectando' = conectando \ {c}
  /\ IF MembrosDe(Dono(c)) # {}
     THEN Len(fila) < MaxFila /\ fila' = Enfileira(DoSocket("reconexao", c))
     ELSE fila' = fila
  /\ UNCHANGED <<noAr, memoria, pg, janelas, abertos, registrados, jogo, conta>>

(* handleFechamento: only the last socket registered starts a window.      *)
FecharConexao(c) ==
  /\ EmCurso /\ c \in abertos
  /\ abertos' = abertos \ {c} /\ registrados' = registrados \ {c}
  /\ IF ConexoesDe(Dono(c)) = {c}
     THEN /\ Len(fila) < MaxFila
          /\ fila' = Enfileira([tipo |-> "fechamento", jogador |-> Dono(c)])
     ELSE fila' = fila
  /\ UNCHANGED <<noAr, memoria, pg, janelas, conectando, jogo, conta>>

(* CRIAR_SALA and ENTRAR_NA_SALA register the socket they came from.       *)
PedirEntrada(c) ==
  /\ EmCurso /\ c \in abertos /\ ~ NaFila(c) /\ Len(fila) < MaxFila
  /\ fila' = Enfileira(DoSocket(IF sala.estado = "inexistente" THEN "criar"
                                ELSE "entrar", c))
  /\ UNCHANGED <<noAr, memoria, pg, janelas, redes, jogo, conta>>

TimerDispara(o) ==
  /\ EmCurso /\ o \in timers /\ Len(fila) < MaxFila
  /\ timers' = timers \ {o} /\ fila' = Enfileira(Expirar(o))
  /\ UNCHANGED <<noAr, sala, pg, janelas, redes, jogo, conta>>

(* The key of a window reaches its EX in Redis.                            *)
JanelaVence(j) ==
  /\ j \in janelas /\ janelas' = janelas \ {j}
  /\ UNCHANGED <<noAr, memoria, pg, redes, fila, jogo, conta>>

-----------------------------------------------------------------------------
(* Mutations taken from the queue.                                         *)

ExecutarCriar ==
  /\ Cabeca("criar")
  /\ fila' = Tail(fila)
  /\ LET c == Head(fila).conexao
         j == Dono(c)
     IN  IF sala.estado = "inexistente"
         THEN /\ Confirma(SalaCriada(j),
                   [pg EXCEPT !.status = "aberta", !.anfitriao = j,
                              !.membros = {[jogador |-> j, ordem |-> 1,
                                            bloqueado |-> FALSE]}])
              /\ registrados' = registrados \cup {c}
         ELSE UNCHANGED <<sala, pg, registrados>>
  /\ UNCHANGED <<noAr, janelas, timers, abertos, conectando, jogo, conta>>

(* A Player that is already a Membro only gains a socket in the fan-out.   *)
ExecutarEntrar ==
  /\ Cabeca("entrar")
  /\ fila' = Tail(fila)
  /\ LET c == Head(fila).conexao
         j == Dono(c)
     IN  CASE AbertaConsistente(sala) /\ MembrosDe(j) # {}
                -> registrados' = registrados \cup {c} /\ UNCHANGED <<sala, pg>>
           [] PodeEntrar(sala, j) /\ MembrosDe(j) = {} /\ sala.proxima <= MaxOrdem
                -> /\ Confirma(ComEntrada(sala, j),
                        [pg EXCEPT !.membros = @ \cup
                          {[jogador |-> j, ordem |-> sala.proxima, bloqueado |-> FALSE]}])
                   /\ registrados' = registrados \cup {c}
           [] OTHER -> UNCHANGED <<sala, pg, registrados>>
  /\ UNCHANGED <<noAr, janelas, timers, abertos, conectando, jogo, conta>>

(* The window decides: without its key the Membro is expired by a mutation *)
(* of its own, and the socket is registered all the same.                  *)
ExecutarReconexao ==
  /\ Cabeca("reconexao")
  /\ LET c == Head(fila).conexao
         ausentes == {m \in MembrosDe(Dono(c)) : m.presenca = "em_reconexao"}
     IN  /\ registrados' = registrados \cup {c}
         /\ \/ /\ ausentes = {}
               /\ fila' = Tail(fila) /\ UNCHANGED <<sala, janelas, timers>>
            \/ \E m \in ausentes :
                 IF Dono(c) \in janelas
                 THEN /\ sala' = ComPresenca(sala, m, "conectado")
                      /\ janelas' = janelas \ {Dono(c)}
                      /\ timers' = LimparTimer(m.ordem)
                      /\ fila' = Tail(fila)
                 ELSE /\ fila' = Append(Tail(fila), Expirar(m.ordem))
                      /\ UNCHANGED <<sala, janelas, timers>>
  /\ UNCHANGED <<noAr, pg, abertos, conectando, jogo, conta>>

(* The registry is not looked at again: the mutation only asks for the     *)
(* presence.                                                               *)
ExecutarFechamento ==
  /\ Cabeca("fechamento")
  /\ fila' = Tail(fila)
  /\ LET j == Head(fila).jogador
         conectados == {m \in MembrosDe(j) : m.presenca = "conectado"}
     IN  \/ conectados = {} /\ UNCHANGED <<sala, janelas, timers>>
         \/ \E m \in conectados :
              /\ sala' = ComPresenca(sala, m, "em_reconexao")
              /\ janelas' = janelas \cup {j} /\ timers' = AgendarExpiracao(m.ordem)
  /\ UNCHANGED <<noAr, pg, redes, jogo, conta>>

(* handleExpirar: a rejection by the engine drops window and timer too; a  *)
(* failure of PostgreSQL keeps the window and re-arms nothing.             *)
ExecutarExpirar ==
  /\ Cabeca("expirar")
  /\ fila' = Tail(fila)
  /\ LET o == Head(fila).ordem
         alvos == {m \in sala.membros : m.ordem = o}
         donos == {m.jogador : m \in alvos}
     IN  \/ /\ \A m \in alvos : ~ PodeExpirar(sala, m)
            /\ janelas' = janelas \ donos /\ timers' = LimparTimer(o)
            /\ UNCHANGED <<sala, pg, falhas>>
         \/ \E m \in alvos :
              /\ PodeExpirar(sala, m)
              /\ \/ LET depois == ComSaida(sala, m, "expiracao", "expirada")
                    IN  /\ Confirma(depois, PgTermina(m.jogador, depois))
                        /\ janelas' = janelas \ donos /\ timers' = LimparTimer(o)
                        /\ falhas' = falhas
                 \/ /\ falhas < MaxFalhas /\ falhas' = falhas + 1
                    /\ UNCHANGED <<sala, pg, janelas, timers>>
  /\ UNCHANGED <<noAr, redes, jogo, quedas, presentes>>

-----------------------------------------------------------------------------
(* Commands that carry only who sent them.                                 *)

(* SAIR_DA_SALA through the socket c: the other sockets of the Player stay *)
(* in the fan-out; window and timer are left to themselves.                *)
Sair(c) ==
  /\ EmCurso /\ c \in abertos
  /\ \E m \in MembrosDe(Dono(c)) :
       LET depois == ComSaida(sala, m, "saida", "encerrada")
       IN  /\ NaoEncaminhada(sala)
           /\ Confirma(depois, PgTermina(m.jogador, depois))
  /\ registrados' = registrados \ {c}
  /\ UNCHANGED <<noAr, janelas, timers, abertos, conectando, fila, jogo, conta>>

(* Bypass of an orphan match: the decision, computed outside the queue and *)
(* revalidated inside, is of the world of the game server.                 *)
SairDeOrfa(j) ==
  /\ EmCurso /\ oferta = SemOferta
  /\ EncaminhadaConsistente(sala)
  /\ \E m \in MembrosDe(j) :
       LET depois == ComSaida(sala, m, "saida", "encerrada")
       IN  Confirma(depois, PgTermina(j, depois))
  /\ registrados' = registrados \ ConexoesDe(j)
  /\ UNCHANGED <<noAr, janelas, timers, abertos, conectando, fila, jogo, conta>>

(* anfitriaoEstaAutorizando: the sender is the Anfitrião.                  *)
Autoriza(j) == EmCurso /\ \E m \in MembrosDe(j) : EhAnfitriao(sala, m)

(* EXPULSAR_MEMBRO: a bot leaves without being blocked.                    *)
Expulsar(j) ==
  /\ Autoriza(j) /\ NaoEncaminhada(sala)
  /\ \E alvo \in Ativos(sala) :
       /\ ~ EhAnfitriao(sala, alvo)
       /\ IF alvo.jogador \in Bots
          THEN Confirma(ComBotRemovido(sala, alvo),
                        [pg EXCEPT !.membros = @ \ LinhaDe(alvo.jogador)])
          ELSE Confirma(ComExpulsao(sala, alvo), PgExpulsa(alvo.jogador))
       /\ janelas' = janelas \ {alvo.jogador}
       /\ timers' = LimparTimer(alvo.ordem)
  /\ UNCHANGED <<noAr, redes, fila, jogo, conta>>

Desbloquear(j) ==
  /\ Autoriza(j) /\ NaoEncaminhada(sala)
  /\ \E alvo \in sala.bloqueados :
       Confirma([sala EXCEPT !.bloqueados = @ \ {alvo}],
                [pg EXCEPT !.membros = @ \ LinhaDe(alvo)])
  /\ UNCHANGED <<noAr, janelas, timers, redes, fila, jogo, conta>>

(* Readiness is only in memory and in the projection.                      *)
AlternarProntidao(j) ==
  /\ EmCurso /\ AbertaConsistente(sala)
  /\ \E m \in MembrosDe(j) : sala' = ComProntidaoAlternada(sala, m)
  /\ UNCHANGED <<noAr, pg, janelas, timers, redes, fila, jogo, conta>>

EncerrarSala(j) ==
  /\ Autoriza(j) /\ AbertaConsistente(sala)
  /\ Confirma(SalaEncerrada(sala), PgEncerra)
  /\ registrados' = {}
  /\ UNCHANGED <<noAr, janelas, timers, abertos, conectando, fila, jogo, conta>>

-----------------------------------------------------------------------------
(* Encaminhamento.                                                         *)

(* INICIAR_PARTIDA takes the lock and the composition of the moment.       *)
IniciarPartida(j) ==
  /\ oferta = SemOferta
  /\ Autoriza(j) /\ AbertaConsistente(sala) /\ ComposicaoValida(sala)
  /\ oferta' = [fase |-> "enviada", roster |-> JogadoresAtivos(sala), partida |-> 0]
  /\ UNCHANGED <<noAr, memoria, pg, janelas, redes, fila, rosters, canceladas, conta>>

(* The game server accepts: a match exists from then on.                   *)
OfertaAceita ==
  /\ EmCurso /\ oferta.fase = "enviada" /\ Len(rosters) < MaxPartidas
  /\ rosters' = Append(rosters, oferta.roster)
  /\ oferta' = [oferta EXCEPT !.fase = "aceita", !.partida = Len(rosters) + 1]
  /\ UNCHANGED <<noAr, memoria, pg, janelas, redes, fila, canceladas, conta>>

(* A refusal, no game server, an error or the abort at timeoutMs; in the   *)
(* last two the match may have been created all the same.                  *)
OfertaPerdida ==
  /\ EmCurso /\ oferta.fase = "enviada"
  /\ oferta' = [oferta EXCEPT !.fase = "perdida"]
  /\ \/ rosters' = rosters
     \/ Len(rosters) < MaxPartidas /\ rosters' = Append(rosters, oferta.roster)
  /\ UNCHANGED <<noAr, memoria, pg, janelas, redes, fila, canceladas, conta>>

(* Mutant: the memory changes before PostgreSQL is asked.                  *)
BugFinalizarEncaminhamento ==
  /\ EmCurso /\ oferta.fase = "aceita" /\ PodeAceitar(sala, oferta.roster)
  /\ oferta' = SemOferta
  /\ sala' = [sala EXCEPT !.estado = "encaminhada"]
  /\ \/ pg' = [pg EXCEPT !.status = "encaminhada", !.partida = oferta.partida]
        /\ UNCHANGED <<canceladas, falhas>>
     \/ /\ falhas < MaxFalhas /\ falhas' = falhas + 1
        /\ canceladas' = canceladas \cup {oferta.partida} /\ pg' = pg
  /\ UNCHANGED <<noAr, janelas, timers, redes, fila, rosters, quedas, presentes>>

(* The end of executarEncaminhamento, inside the queue: commit, or cancel  *)
(* the match when the composition changed or PostgreSQL failed.            *)
FinalizarEncaminhamento ==
  /\ EmCurso /\ oferta.fase \in {"aceita", "perdida"}
  /\ oferta' = SemOferta
  /\ \/ /\ oferta.fase = "perdida"
        /\ UNCHANGED <<sala, pg, canceladas, falhas>>
     \/ /\ oferta.fase = "aceita" /\ PodeAceitar(sala, oferta.roster)
        /\ Confirma([sala EXCEPT !.estado = "encaminhada"],
                    [pg EXCEPT !.status = "encaminhada", !.partida = oferta.partida])
        /\ UNCHANGED <<canceladas, falhas>>
     \/ /\ oferta.fase = "aceita"
        /\ \/ ~ PodeAceitar(sala, oferta.roster) /\ falhas' = falhas
           \/ falhas < MaxFalhas /\ falhas' = falhas + 1
        /\ canceladas' = canceladas \cup {oferta.partida}
        /\ UNCHANGED <<sala, pg>>
  /\ UNCHANGED <<noAr, janelas, timers, redes, fila, rosters, quedas, presentes>>

(* POST /api/retorno of the match p with the Players that remain.  Only a  *)
(* forwarded Sala that waits for p changes; any other answer is of the     *)
(* protocol with the game server.                                          *)
DaPartidaVigente(p) == pg.status = "encaminhada" /\ p = pg.partida

Retorno(p, restantes) ==
  LET saidas == {m \in Ativos(sala) : m.jogador \notin restantes}
      depois == SalaReaberta(sala, saidas)
  IN  /\ EmCurso /\ DaPartidaVigente(p)
      /\ restantes # {} /\ restantes \subseteq {l.jogador : l \in LinhasAtivas}
      /\ PodeReabrir(sala, saidas)
      /\ Confirma(depois, PgReabre({m.jogador : m \in saidas}, depois))
      /\ UNCHANGED <<noAr, janelas, timers, redes, fila, jogo, conta>>

(* POST /api/desistencia: j left the match p, and leaves the Sala.         *)
Desistencia(p, j) ==
  /\ EmCurso /\ DaPartidaVigente(p) /\ EncaminhadaConsistente(sala)
  /\ \E m \in MembrosDe(j) :
       LET depois == ComSaida(sala, m, "saida", "encerrada")
       IN  /\ Confirma(depois, PgTermina(j, depois))
           /\ timers' = LimparTimer(m.ordem)
  /\ janelas' = janelas \ {j}
  /\ registrados' = registrados \ ConexoesDe(j)
  /\ UNCHANGED <<noAr, abertos, conectando, fila, jogo, conta>>

-----------------------------------------------------------------------------
(* The process ends: what was in its memory is lost.                       *)
Cair ==
  /\ EmCurso /\ quedas < MaxQuedas /\ quedas' = quedas + 1
  /\ noAr' = FALSE
  /\ presentes' = {m.jogador : m \in {n \in Ativos(sala) : n.presenca = "conectado"}}
  /\ sala' = SalaInexistente /\ timers' = {}
  /\ abertos' = {} /\ conectando' = {} /\ registrados' = {}
  /\ fila' = <<>> /\ oferta' = SemOferta
  /\ UNCHANGED <<pg, janelas, rosters, canceladas, falhas>>

(* The loop of rearmarAposRestart takes the links in order of entry.       *)
Percorre(q, ordens) ==
  /\ \A i, k \in DOMAIN q : i < k => q[i] < q[k]
  /\ \A o \in ordens : \E i \in DOMAIN q : q[i] = o

(* carregar and rearmarAposRestart, before the server listens: every link  *)
(* comes back em_reconexao; one whose window is gone expires at once.      *)
Subir ==
  /\ ~ noAr /\ noAr' = TRUE /\ presentes' = {}
  /\ IF pg.status \in Viva
     THEN LET lida == [ComReinicio(Reconstruida) EXCEPT !.consistente = TRUE]
              comJanela == {m \in Ativos(lida) : m.jogador \in janelas}
              ordens == {m.ordem : m \in Ativos(lida) \ comJanela}
          IN  /\ sala' = lida
              /\ timers' = {m.ordem : m \in comJanela}
              /\ \E q \in [1 .. Cardinality(ordens) -> ordens] :
                   Percorre(q, ordens) /\ fila' = [i \in DOMAIN q |-> Expirar(q[i])]
     ELSE UNCHANGED <<sala, timers, fila>>
  /\ UNCHANGED <<pg, janelas, redes, jogo, falhas, quedas>>

Executar == \/ ExecutarCriar \/ ExecutarEntrar \/ ExecutarReconexao
            \/ ExecutarFechamento \/ ExecutarExpirar

Next ==
  \/ \E c \in Conexoes :
       \/ AbrirConexao(c) \/ TratarReconexao(c) \/ FecharConexao(c)
       \/ PedirEntrada(c) \/ Sair(c)
  \/ \E j \in Jogadores :
       \/ SairDeOrfa(j) \/ Expulsar(j) \/ Desbloquear(j) \/ AlternarProntidao(j)
       \/ EncerrarSala(j) \/ IniciarPartida(j) \/ JanelaVence(j)
  \/ \E o \in timers : TimerDispara(o)
  \/ Executar
  \/ OfertaAceita \/ OfertaPerdida \/ FinalizarEncaminhamento
  \/ \E p \in DOMAIN rosters :
       \/ \E restantes \in SUBSET rosters[p] : Retorno(p, restantes)
       \/ \E j \in rosters[p] : Desistencia(p, j)
  \/ Cair \/ Subir

Spec == Init /\ [][Next]_vars

(* The queue advances and a timer that is armed fires; strongly fair, as   *)
(* the bound MaxFila may hold it back.                                     *)
Justica ==
  /\ WF_vars(Executar) /\ WF_vars(Subir)
  /\ \A o \in 1 .. MaxOrdem : SF_vars(TimerDispara(o))
SpecJusta == Spec /\ Justica

TypeOK ==
  /\ noAr \in BOOLEAN /\ sala \in Sala
  /\ pg \in [status: EstadosDaSala, membros: SUBSET Linha,
             anfitriao: Jogadores \cup {Ninguem}, partida: 0 .. MaxPartidas]
  /\ janelas \subseteq Jogadores /\ timers \subseteq 1 .. MaxOrdem
  /\ abertos \cup conectando \cup registrados \subseteq Conexoes
  /\ fila \in Seq(Tarefas)
  /\ oferta \in [fase: {"nenhuma", "enviada", "aceita", "perdida"},
                 roster: SUBSET Jogadores, partida: 0 .. MaxPartidas]
  /\ rosters \in Seq(SUBSET Jogadores) /\ canceladas \subseteq 1 .. MaxPartidas
  /\ falhas \in 0 .. MaxFalhas /\ quedas \in 0 .. MaxQuedas

-----------------------------------------------------------------------------
(* Memory and PostgreSQL never disagree on who is in the Sala, in which    *)
(* order, who is its Anfitrião, who is blocked and what state it is in,    *)
(* whatever failed or raced: a restart rebuilds the Sala that was there.   *)
MemoriaSegueBanco ==
  noAr =>
    /\ sala.estado = pg.status
    /\ {<<m.jogador, m.ordem>> : m \in Ativos(sala)}
         = {<<l.jogador, l.ordem>> : l \in LinhasAtivas}
    /\ sala.bloqueados = {l.jogador : l \in pg.membros \ LinhasAtivas}
    /\ JogadorAnfitriao(sala) = pg.anfitriao

(* A forwarded Sala waits for one match that a game server accepted and    *)
(* nobody cancelled, only Players of that match are in it, and no second   *)
(* offer is in flight.                                                     *)
EncaminhadaEspera ==
  sala.estado = "encaminhada" =>
    /\ pg.partida \in DOMAIN rosters \ canceladas
    /\ JogadoresAtivos(sala) \subseteq rosters[pg.partida]
    /\ oferta = SemOferta

(* A Membro that is connected has no timer counting against it.            *)
TimerSoDeAusente ==
  \A m \in Ativos(sala) : m.presenca = "conectado" => m.ordem \notin timers

(* Reconexão (CONTEXT.md): the link of an absent Membro of an open Sala    *)
(* ends when the window does, so something always counts: a timer, or its  *)
(* expiration already in the queue.                                        *)
AusenteTemPrazo ==
  sala.estado = "aberta" =>
    \A m \in Ativos(sala) : m.presenca = "em_reconexao" =>
      \/ m.ordem \in timers
      \/ \E i \in DOMAIN fila : fila[i].tipo = "expirar" /\ fila[i].ordem = m.ordem

Ausente(j) == \E m \in MembrosDe(j) : m.presenca = "em_reconexao"

(* The absence of a Membro ends: it comes back or its link is over,        *)
(* whatever sockets open and close, and whatever waits in the queue        *)
(* (handleFechamento, handleExpirar, tratarReconexaoSeNecessario).         *)
AusenciaTermina == \A j \in Jogadores : Ausente(j) ~> ~ Ausente(j)

(* handleFechamento: the window of a Player starts when its last socket    *)
(* closes, so nobody goes absent with a socket open in the fan-out.        *)
DesconexaoSoSemSocket ==
  [][\A m \in Ativos(sala) :
       (noAr' /\ m.presenca = "conectado"
         /\ [m EXCEPT !.presenca = "em_reconexao"] \in sala'.membros)
       => ConexoesDe(m.jogador) \cap abertos = {}]_vars

(* Presença (CONTEXT.md): a Membro that is connected has a socket open, or *)
(* the mutation that will mark it absent waits.                            *)
ConectadoTemSocket ==
  \A m \in Ativos(sala) : m.presenca = "conectado" =>
    \/ \E c \in abertos : Dono(c) = m.jogador
    \/ [tipo |-> "fechamento", jogador |-> m.jogador] \in {fila[i] : i \in DOMAIN fila}

(* ADR-0002: order of entry and Anfitrião survive a restart.  Nobody that  *)
(* was connected when the process ended expires without a window.          *)
ReinicioPreservaVinculos ==
  [][(~ noAr /\ noAr') =>
       \A m \in Ativos(sala') : m.jogador \in presentes =>
         Expirar(m.ordem) \notin {fila'[i] : i \in DOMAIN fila'}]_vars
=============================================================================
