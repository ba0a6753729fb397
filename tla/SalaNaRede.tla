----------------------------- MODULE SalaNaRede -----------------------------
(***************************************************************************)
(* A Sala as its Members see it: the pages (useSalaWebSocket), the fan-out *)
(* of the lobby server (SalasBroadcaster), the events it translates domain *)
(* events into (traduzirEventos) and the handlers that pair a command of   *)
(* LobbyEngine with what is sent, to whom and in which order.              *)
(*                                                                         *)
(* A handler is one step: SalasServidor models the queue, the stores and   *)
(* the timers under it.  What is between a click and its handling, and     *)
(* between a mutation and the pages that hear of it, is not one step:      *)
(* commands and lots of events are on the way, sockets fall, pages reload. *)
(* A Player has one socket at a time; every event of a lot carries the     *)
(* same Sala, and a page reads a lot whole.  Bots, chat, apelidos and      *)
(* notices are left out, and so is the clean-up of an orphan match that    *)
(* CRIAR_SALA and ENTRAR_NA_SALA also do: it is the exit of SAIR_DA_SALA.  *)
(***************************************************************************)
EXTENDS LobbyEngine, Sequences
LOCAL INSTANCE SequencesExt

CONSTANTS
  Nada,        (* null: no Sala, no offer, no argument.                    *)
  MaxPedidos,  (* Bound on the commands of a page on the way.              *)
  MaxLotes,    (* Bound on the lots on the way to a page.                  *)
  MaxCliques,  (* Bound on the commands of all the pages.                  *)
  MaxQuedas    (* Bound on the sockets that close.                         *)

ASSUME NadaAssumption == Nada \notin Salas

ASSUME LimitesDaRedeAssumption ==
  {MaxPedidos, MaxLotes, MaxCliques, MaxQuedas} \subseteq Nat

VARIABLES
  emissor,   (* SalasBroadcaster: grupos (salaParaSockets), sala (the maps *)
             (* of the live socket) and mortos (maps of a closed socket).  *)
             (* sobras is history: the other Salas whose group or maps     *)
             (* kept a socket that the Player took elsewhere.              *)
  ofertas,   (* encaminhamentosEmVoo, with the roster that was offered.    *)
  lotes,     (* Per Player, the lots on the way to its page.               *)
  pedidos,   (* Per Player, the commands on the way, or, without a socket, *)
             (* comandosPendentesRef.                                      *)
  paginas,   (* Per Player, the state of its page.                         *)
  ligacao,   (* Whether the socket of the Player is open.                  *)
  gastos     (* Commands sent and sockets closed so far.                   *)

varsDaRede ==
  <<salas, emissor, ofertas, lotes, pedidos, paginas, ligacao, gastos>>

-----------------------------------------------------------------------------
(* On the wire.                                                            *)

(* mapearSala: only active links travel, and the target of a forwarded     *)
(* Sala only where the caller looked it up.                                *)
MapearSala(s, sala, encaminhamento) ==
  [id |-> s, estado |-> sala.estado, anfitriao |-> sala.anfitriao,
   membros |-> Ativos(sala),
   alvo |-> encaminhamento /\ sala.estado = "encaminhada"]

Evento(tipo, j) == [tipo |-> tipo, jogador |-> j]
Atualizada == Evento("SALA_ATUALIZADA", Nada)

(* The domain events that have a wire event of their own.                  *)
Proprios ==
  [membro_admitido     |-> "MEMBRO_ENTROU",
   membro_saiu         |-> "MEMBRO_SAIU",
   vinculo_expirado    |-> "MEMBRO_SAIU",
   membro_expulsado    |-> "MEMBRO_EXPULSO",
   anfitriao_sucedido  |-> "ANFITRIAO_SUBSTITUIDO",
   prontidao_alterada  |-> "PRONTIDAO_ATUALIZADA",
   membro_desconectado |-> "MEMBRO_DESCONECTADO",
   membro_reconectado  |-> "MEMBRO_RECONECTADO",
   encaminhamento_iniciado |-> "PARTIDA_PREPARANDO"]

(* Each domain event gives its own event, if any, and SALA_ATUALIZADA.     *)
TraduzirEventos(eventos) ==
  FoldLeft(LAMBDA saida, e :
             IF e.tipo \in DOMAIN Proprios
             THEN saida \o <<Evento(Proprios[e.tipo], e.jogador), Atualizada>>
             ELSE Append(saida, Atualizada),
           <<>>, eventos)

(* The events of the exit of a link, in the order the engine emits them.   *)
EventosDaSaida(antes, depois, tipo, m) ==
  << Evento(tipo, m.jogador) >>
  \o (IF depois.anfitriao \notin {antes.anfitriao, SemAnfitriao}
      THEN << Evento("anfitriao_sucedido", Nada) >> ELSE << >>)
  \o (IF depois.estado \in Terminal
      THEN << Evento("sala_encerrada", Nada) >> ELSE << >>)

Lote(sala, eventos) == [sala |-> sala, eventos |-> eventos]
LoteDe(s, sala, eventos) ==
  Lote(MapearSala(s, sala, FALSE), TraduzirEventos(eventos))
LoteDeErro == Lote(Nada, << Evento("ERRO_DA_SALA", Nada) >>)

-----------------------------------------------------------------------------
(* The fan-out.                                                            *)

(* registrarSocket: the socket joins the group of the Sala and leaves no   *)
(* other group.                                                            *)
Registrado(j, s) ==
  [emissor EXCEPT !.grupos[s] = @ \cup {j}, !.sala[j] = s, !.sobras[j] = @ \ {s}]

(* Expulsion, expiration and return leave the socket where it is.          *)
ComSobras(s, foram) ==
  [emissor EXCEPT !.sobras =
     [j \in Jogadores |->
        IF j \in foram \cap emissor.grupos[s] THEN @[j] \cup {s} ELSE @[j]]]

(* Mutant: a Player that leaves stays in the fan-out of the Sala.          *)
BugSemSocket(j) == [emissor EXCEPT !.sala[j] = Nada]

(* removerSocket: the socket leaves the group its map names, if any.       *)
SemSocket(j) ==
  IF emissor.sala[j] = Nada THEN emissor
  ELSE [emissor EXCEPT !.grupos[emissor.sala[j]] = @ \ {j}, !.sala[j] = Nada]

(* removerSocketPorJogadorId: every socket of the Player, dead ones too.   *)
SemSocketsDe(j) == [SemSocket(j) EXCEPT !.mortos[j] = Nada]

(* removerPorSala: the maps of every socket of the group go, the ones that *)
(* name another Sala too.                                                  *)
SemSala(s) ==
  [grupos |-> [emissor.grupos EXCEPT ![s] = {}],
   sala   |-> [j \in Jogadores |->
                 IF j \in emissor.grupos[s] THEN Nada ELSE emissor.sala[j]],
   mortos |-> [j \in Jogadores |->
                 IF emissor.mortos[j] = s THEN Nada ELSE emissor.mortos[j]],
   sobras |-> emissor.sobras]

(* A closed socket is sent nothing: it is dropped from the groups that     *)
(* removerSocket leaves it in.                                             *)
SocketFechado(j) ==
  [SemSocket(j) EXCEPT !.grupos = [s \in Salas |-> @[s] \ {j}],
                       !.sobras[j] = @ \cup ({emissor.mortos[j]} \ {Nada})]

Difundir(grupo, lote) ==
  /\ \A j \in grupo : Len(lotes[j]) < MaxLotes
  /\ lotes' = [j \in Jogadores |->
                 IF j \in grupo THEN Append(lotes[j], lote) ELSE lotes[j]]

(* enviarErro: only the socket of origin hears of a refusal.               *)
Recusar(j) ==
  /\ Difundir({j}, LoteDeErro)
  /\ UNCHANGED <<salas, emissor, ofertas>>

-----------------------------------------------------------------------------
(* The handlers.                                                           *)

Pedido(tipo, arg) == [tipo |-> tipo, arg |-> arg]

(* The first command of the socket of j is of this type; it is consumed.   *)
Atendendo(j, tipo) ==
  /\ ligacao[j] = "aberta"
  /\ pedidos[j] # << >> /\ Head(pedidos[j]).tipo = tipo
  /\ pedidos' = [pedidos EXCEPT ![j] = Tail(@)]
  /\ UNCHANGED <<paginas, ligacao, gastos>>

Argumento(j) == Head(pedidos[j]).arg

VinculosDe(j) ==
  {v \in UNION {{s} \X Ativos(salas[s]) : s \in Salas} : v[2].jogador = j}

(* anfitriaoEstaAutorizando, in a Sala that is not forwarded.              *)
SalasQueManda(j) ==
  {v[1] : v \in {u \in VinculosDe(j) : /\ salas[u[1]].estado = "aberta"
                                       /\ EhAnfitriao(salas[u[1]], u[2])}}

AtenderCriar(j) ==
  /\ Atendendo(j, "CRIAR_SALA")
  /\ IF Associado(j) THEN Recusar(j)
     ELSE \E s \in Salas :
            /\ CriarSala(s, j)
            /\ emissor' = Registrado(j, s)
            /\ Difundir(emissor'.grupos[s],
                 LoteDe(s, salas'[s], << Evento("sala_criada", Nada) >>))
            /\ UNCHANGED ofertas

Entrar(j, s) ==
  /\ EntrarNaSala(s, j)
  /\ emissor' = Registrado(j, s)
  /\ Difundir(emissor'.grupos[s],
       LoteDe(s, salas'[s], << Evento("membro_admitido", j) >>))
  /\ UNCHANGED ofertas

(* entrarNaSala of who is already there: registered, and told nothing.     *)
EntrarDeNovo(j, s) ==
  /\ emissor' = Registrado(j, s)
  /\ UNCHANGED <<salas, ofertas, lotes>>

AtenderEntrar(j) ==
  /\ Atendendo(j, "ENTRAR_NA_SALA")
  /\ LET s == Argumento(j)
         esta == AbertaConsistente(salas[s]) /\ j \in JogadoresAtivos(salas[s])
     IN  \/ esta /\ EntrarDeNovo(j, s)
         \/ ~ esta /\ Entrar(j, s)
         \/ /\ ~ esta /\ (Associado(j) \/ ~ PodeEntrar(salas[s], j))
            /\ Recusar(j)

(* The exit is sent first, so that who leaves hears of it too.             *)
Sair(j, s, m) ==
  /\ SairDaSala(s, m)
  /\ emissor' = SemSocket(j)
  /\ Difundir(emissor.grupos[s],
       LoteDe(s, salas'[s], EventosDaSaida(salas[s], salas'[s], "membro_saiu", m)))
  /\ UNCHANGED ofertas

(* aplicarBypassOrfa and removerDesistente: the exit from a forwarded Sala,*)
(* whose offer is over.                                                    *)
SairDaEncaminhada(s, m) ==
  /\ SairDaSalaEncaminhada(s, m)
  /\ emissor' = SemSocketsDe(m.jogador)
  /\ Difundir(emissor.grupos[s],
       LoteDe(s, salas'[s], EventosDaSaida(salas[s], salas'[s], "membro_saiu", m)))
  /\ UNCHANGED ofertas

AtenderSair(j) ==
  /\ Atendendo(j, "SAIR_DA_SALA")
  /\ \/ \E v \in VinculosDe(j) : Sair(j, v[1], v[2]) \/ SairDaEncaminhada(v[1], v[2])
     \/ /\ \A v \in VinculosDe(j) : salas[v[1]].estado = "encaminhada"
        /\ Recusar(j)

AtenderExpulsar(j) ==
  /\ Atendendo(j, "EXPULSAR_MEMBRO")
  /\ LET alvos(s) == {m \in Ativos(salas[s]) : /\ m.ordem = Argumento(j)
                                               /\ ~ EhAnfitriao(salas[s], m)}
     IN  \/ \E s \in SalasQueManda(j) : \E alvo \in alvos(s) :
              /\ ExpulsarMembro(s, alvo)
              /\ Difundir(emissor.grupos[s], LoteDe(s, salas'[s],
                   << Evento("membro_expulsado", alvo.jogador) >>))
              /\ emissor' = ComSobras(s, {alvo.jogador})
              /\ UNCHANGED ofertas
         \/ /\ \A s \in SalasQueManda(j) : alvos(s) = {}
            /\ Recusar(j)

AtenderDesbloquear(j) ==
  /\ Atendendo(j, "DESBLOQUEAR_JOGADOR")
  /\ \/ \E s \in SalasQueManda(j) :
          /\ AutorizarRetorno(s, Argumento(j))
          /\ Difundir(emissor.grupos[s],
               LoteDe(s, salas'[s], << Evento("retorno_autorizado", Nada) >>))
          /\ UNCHANGED <<emissor, ofertas>>
     \/ /\ \A s \in SalasQueManda(j) : Argumento(j) \notin salas[s].bloqueados
        /\ Recusar(j)

AtenderProntidao(j) ==
  /\ Atendendo(j, "ALTERNAR_PRONTIDAO")
  /\ \/ \E v \in VinculosDe(j) :
          /\ AlternarProntidao(v[1], v[2])
          /\ Difundir(emissor.grupos[v[1]], LoteDe(v[1], salas'[v[1]],
               << Evento("prontidao_alterada", Nada) >>))
          /\ UNCHANGED <<emissor, ofertas>>
     \/ /\ \A v \in VinculosDe(j) : salas[v[1]].estado = "encaminhada"
        /\ Recusar(j)

(* The closing is sent before the group is taken down.                     *)
AtenderEncerrar(j) ==
  /\ Atendendo(j, "ENCERRAR_SALA")
  /\ IF SalasQueManda(j) = {} THEN Recusar(j)
     ELSE \E s \in SalasQueManda(j) :
            /\ EncerrarSala(s)
            /\ emissor' = SemSala(s)
            /\ Difundir(emissor.grupos[s],
                 LoteDe(s, salas'[s], << Evento("sala_encerrada", Nada) >>))
            /\ UNCHANGED ofertas

PodeOfertar(s) == ofertas[s] = Nada /\ ComposicaoValida(salas[s])

AtenderIniciar(j) ==
  /\ Atendendo(j, "INICIAR_PARTIDA")
  /\ \/ \E s \in SalasQueManda(j) :
          /\ PodeOfertar(s)
          /\ ofertas' = [ofertas EXCEPT ![s] = JogadoresAtivos(salas[s])]
          /\ Difundir(emissor.grupos[s],
               LoteDe(s, salas[s], << Evento("encaminhamento_iniciado", Nada) >>))
          /\ UNCHANGED <<salas, emissor>>
     \/ /\ \A s \in SalasQueManda(j) : ~ PodeOfertar(s)
        /\ Recusar(j)

Atender(j) ==
  \/ AtenderCriar(j) \/ AtenderEntrar(j) \/ AtenderSair(j)
  \/ AtenderExpulsar(j) \/ AtenderDesbloquear(j) \/ AtenderProntidao(j)
  \/ AtenderEncerrar(j) \/ AtenderIniciar(j)

-----------------------------------------------------------------------------
(* What the lobby does that no page asked for.                             *)

ForaDasPaginas == UNCHANGED <<pedidos, paginas, ligacao, gastos>>

Encerrada(s) == ofertas' = [ofertas EXCEPT ![s] = Nada]

(* Mutant: the acceptance is told as any other command is.                 *)
BugAceitarOferta(s) ==
  /\ ofertas[s] # Nada
  /\ AceitarEncaminhamento(s, ofertas[s])
  /\ Encerrada(s)
  /\ Difundir(emissor.grupos[s],
       LoteDe(s, salas'[s], << Evento("encaminhamento_aceito", Nada) >>))
  /\ ForaDasPaginas /\ UNCHANGED emissor

(* executarEncaminhamento, the game server accepted: the target travels in *)
(* both events.                                                            *)
AceitarOferta(s) ==
  /\ ofertas[s] # Nada
  /\ AceitarEncaminhamento(s, ofertas[s])
  /\ Encerrada(s)
  /\ Difundir(emissor.grupos[s],
       Lote(MapearSala(s, salas'[s], TRUE),
            << Evento("PARTIDA_DISPONIVEL", Nada), Atualizada >>))
  /\ ForaDasPaginas /\ UNCHANGED emissor

(* The composition is not the offered one any more: only an open Sala      *)
(* still has events of its own.                                            *)
OfertaDesatualizada(s) ==
  /\ ofertas[s] # Nada
  /\ ~ PodeAceitar(salas[s], ofertas[s])
  /\ Encerrada(s)
  /\ Difundir(emissor.grupos[s],
       Lote(MapearSala(s, salas[s], FALSE),
            << Evento("PARTIDA_FALHOU", Nada) >>
            \o (IF AbertaConsistente(salas[s]) THEN << Atualizada >> ELSE << >>)))
  /\ ForaDasPaginas /\ UNCHANGED <<salas, emissor>>

(* Refused, failed, or accepted and not persisted.                         *)
OfertaFrustrada(s) ==
  /\ ofertas[s] # Nada
  /\ Encerrada(s)
  /\ \E desfecho \in {"PARTIDA_RECUSADA", "PARTIDA_FALHOU"} :
       Difundir(emissor.grupos[s], Lote(Nada, << Evento(desfecho, Nada) >>))
  /\ ForaDasPaginas /\ UNCHANGED <<salas, emissor>>

(* The return of a match says only how the Sala is; who it leaves out      *)
(* stays in the fan-out.                                                   *)
Retornar(s, saidas) ==
  /\ ReabrirSala(s, saidas)
  /\ Difundir(emissor.grupos[s], LoteDe(s, salas'[s], << Evento("sala_reaberta", Nada) >>))
  /\ emissor' = ComSobras(s, {m.jogador : m \in saidas})
  /\ ForaDasPaginas /\ UNCHANGED ofertas

RemoverDesistente(s, m) == SairDaEncaminhada(s, m) /\ ForaDasPaginas

(* handleExpirar: a socket that waits in the group stays in it.            *)
Expirar(s, m) ==
  /\ ExpirarReconexao(s, m)
  /\ Difundir(emissor.grupos[s], LoteDe(s, salas'[s],
       EventosDaSaida(salas[s], salas'[s], "vinculo_expirado", m)))
  /\ emissor' = ComSobras(s, {m.jogador})
  /\ ForaDasPaginas /\ UNCHANGED ofertas

-----------------------------------------------------------------------------
(* The page.                                                               *)

(* saiu stands for the gates expulsoRef and saiuRef.  The last two are     *)
(* history: the page lost its socket (defasada), or let go of its Sala (a  *)
(* click on Sair, marcarSaidaPropria: antecipou), and has read since       *)
(* neither of its exit nor of a Sala that lists it, open for antecipou.    *)
PaginaNova ==
  [sala |-> Nada, fase |-> "ocioso", bloqueados |-> {}, saiu |-> FALSE,
   erro |-> FALSE, defasada |-> FALSE, antecipou |-> FALSE]

Lista(j, sala) == sala # Nada /\ \E m \in sala.membros : m.jogador = j

SemSalaNaPagina(p) ==
  [p EXCEPT !.sala = Nada, !.fase = "ocioso", !.bloqueados = {}]

(* sincronizarEncaminhamentoDoSnapshot                                     *)
FaseDoSnapshot(fase, sala) ==
  CASE sala.estado = "encaminhada" /\ sala.alvo -> "disponivel"
    [] sala.estado = "aberta" -> "ocioso"
    [] OTHER -> fase

(* aplicarEventoDeEncaminhamento                                           *)
FaseDoEvento ==
  [PARTIDA_PREPARANDO |-> "preparando", PARTIDA_DISPONIVEL |-> "disponivel",
   PARTIDA_RECUSADA |-> "recusada", PARTIDA_FALHOU |-> "falhou"]

(* The blocked of another Sala are forgotten; who is present is not        *)
(* blocked.                                                                *)
BloqueadosApos(p, sala, e) ==
  IF p.sala = Nada \/ p.sala.id # sala.id THEN {}
  ELSE (p.bloqueados \cup (IF e.tipo = "MEMBRO_EXPULSO" THEN {e.jogador} ELSE {}))
         \ {m.jogador : m \in sala.membros}

ComSalaNaPagina(p, sala, e) ==
  IF sala.estado \in Terminal THEN SemSalaNaPagina(p)
  ELSE [p EXCEPT !.sala = sala, !.fase = FaseDoSnapshot(@, sala),
                 !.bloqueados = BloqueadosApos(p, sala, e)]

(* Mutant: the events after the exit of the page are not kept out.         *)
BugPortaoFechado(p, j, sala) == FALSE

PortaoFechado(p, j, sala) == p.saiu /\ ~ Lista(j, sala)

(* The page reads that its Player was expelled, while it shows it in a     *)
(* Sala, or left.                                                          *)
PropriaSaida(p, j, sala, e) ==
  /\ e.jogador = j
  /\ \/ e.tipo = "MEMBRO_EXPULSO" /\ Lista(j, p.sala)
     \/ e.tipo = "MEMBRO_SAIU" /\ ~ Lista(j, sala)

Absorver(p, j, sala, e) ==
  CASE e.tipo = "ERRO_DA_SALA" -> [p EXCEPT !.erro = TRUE]
    [] e.tipo \in DOMAIN FaseDoEvento ->
         IF p.saiu THEN p ELSE [p EXCEPT !.fase = FaseDoEvento[e.tipo]]
    [] e.tipo = "MEMBRO_RECONECTADO" -> p
    [] OTHER ->
         CASE PortaoFechado(p, j, sala) -> p
           [] PropriaSaida(p, j, sala, e) ->
                [SemSalaNaPagina(p) EXCEPT !.saiu = TRUE, !.defasada = FALSE,
                                           !.antecipou = FALSE]
           [] OTHER ->
                [ComSalaNaPagina(p, sala, e) EXCEPT
                   !.saiu = FALSE, !.defasada = @ /\ ~ Lista(j, sala),
                   !.antecipou = @ /\ ~ (Lista(j, sala) /\ sala.estado = "aberta")]

Ler(j) ==
  /\ lotes[j] # << >>
  /\ LET lote == Head(lotes[j])
     IN  paginas' = [paginas EXCEPT ![j] =
           FoldLeft(LAMBDA p, e : Absorver(p, j, lote.sala, e), @, lote.eventos)]
  /\ lotes' = [lotes EXCEPT ![j] = Tail(@)]
  /\ UNCHANGED <<salas, emissor, ofertas, pedidos, ligacao, gastos>>

-----------------------------------------------------------------------------
(* Clicks.                                                                 *)

(* EncaminhamentoOverlay covers the buttons.                               *)
Coberta(p) == p.fase \in {"preparando", "disponivel"}

(* enviar: sent, or kept while there is no socket.                         *)
Enviar(j, tipo, arg) ==
  /\ Len(pedidos[j]) < MaxPedidos /\ gastos.cliques < MaxCliques
  /\ gastos' = [gastos EXCEPT !.cliques = @ + 1]
  /\ pedidos' = [pedidos EXCEPT ![j] = Append(@, Pedido(tipo, arg))]
  /\ UNCHANGED <<salas, emissor, ofertas, lotes, ligacao>>

Mostrar(j, p) == paginas' = [paginas EXCEPT ![j] = p]

(* The page shows its Player as the Anfitrião.                             *)
MostraAnfitriao(j) ==
  /\ paginas[j].sala # Nada /\ ~ Coberta(paginas[j])
  /\ \E m \in paginas[j].sala.membros :
       m.jogador = j /\ paginas[j].sala.anfitriao = m.ordem

(* The button asks for a socket.  The bound on Salas lives here: a page    *)
(* asks for a new one while there is one left.                             *)
ClicarCriar(j) ==
  /\ paginas[j].sala = Nada /\ ligacao[j] = "aberta"
  /\ \E s \in Salas : ~ Existe(s)
  /\ Enviar(j, "CRIAR_SALA", Nada)
  /\ Mostrar(j, [paginas[j] EXCEPT !.erro = FALSE])

(* By code or by invitation, which may be opened without a socket; a code  *)
(* that is of no Sala yet is refused as one that is not of any any more.   *)
ClicarEntrar(j, s) ==
  /\ paginas[j].sala = Nada /\ Existe(s)
  /\ Enviar(j, "ENTRAR_NA_SALA", s)
  /\ Mostrar(j, [paginas[j] EXCEPT !.erro = FALSE])

(* Optimistic: the page turns the readiness of its Player at once.         *)
ClicarProntidao(j) ==
  /\ paginas[j].sala # Nada /\ ~ Coberta(paginas[j])
  /\ Enviar(j, "ALTERNAR_PRONTIDAO", Nada)
  /\ Mostrar(j, [paginas[j] EXCEPT !.sala.membros =
       {IF m.jogador = j THEN [m EXCEPT !.pronto = ~ @] ELSE m : m \in @}])

(* Optimistic: the Sala goes at once, and with it what was not sent yet,   *)
(* this command included.                                                  *)
ClicarSair(j) ==
  /\ paginas[j].sala # Nada /\ ~ Coberta(paginas[j])
  /\ IF ligacao[j] = "aberta" THEN Enviar(j, "SAIR_DA_SALA", Nada)
     ELSE /\ pedidos' = [pedidos EXCEPT ![j] = << >>]
          /\ UNCHANGED <<salas, emissor, ofertas, lotes, ligacao, gastos>>
  /\ Mostrar(j, [paginas[j] EXCEPT !.sala = Nada, !.bloqueados = {},
                                     !.antecipou = TRUE])

ClicarComoAnfitriao(j) ==
  /\ MostraAnfitriao(j)
  /\ \/ \E m \in paginas[j].sala.membros :
          /\ m.jogador # j
          /\ Enviar(j, "EXPULSAR_MEMBRO", m.ordem) /\ UNCHANGED paginas
     \/ \E alvo \in paginas[j].bloqueados :
          /\ Enviar(j, "DESBLOQUEAR_JOGADOR", alvo)
          /\ Mostrar(j, [paginas[j] EXCEPT !.bloqueados = @ \ {alvo}])
     \/ Enviar(j, "ENCERRAR_SALA", Nada) /\ UNCHANGED paginas
     \/ /\ Cardinality(paginas[j].sala.membros) \in MinimoDeMembros .. LimiteDeMembros
        /\ \A m \in paginas[j].sala.membros : m.presenca = "conectado" /\ m.pronto
        /\ Enviar(j, "INICIAR_PARTIDA", Nada) /\ UNCHANGED paginas

NaoEnvia == UNCHANGED <<salas, emissor, ofertas, lotes, pedidos, ligacao, gastos>>

(* limparAvisoDeEncaminhamento                                             *)
FecharAviso(j) ==
  /\ paginas[j].fase \in {"recusada", "falhou"}
  /\ Mostrar(j, [paginas[j] EXCEPT !.fase = "ocioso", !.erro = FALSE])
  /\ NaoEnvia

(* marcarSaidaPropria, at a desistência: the lobby hears of it later, from *)
(* the game server.                                                        *)
Desistir(j) ==
  /\ paginas[j].sala # Nada /\ paginas[j].sala.estado = "encaminhada"
  /\ Mostrar(j, [SemSalaNaPagina(paginas[j]) EXCEPT !.saiu = TRUE,
                                                   !.antecipou = TRUE])
  /\ NaoEnvia

Clicar(j) ==
  \/ ClicarCriar(j) \/ (\E s \in Salas : ClicarEntrar(j, s)) \/ ClicarProntidao(j)
  \/ ClicarSair(j) \/ ClicarComoAnfitriao(j) \/ FecharAviso(j) \/ Desistir(j)

-----------------------------------------------------------------------------
(* Sockets.                                                                *)

(* handleFechamento: the absence of a Membro begins when the maps named    *)
(* its Sala and no other socket of it, dead ones included, is in them.     *)
Ausentar(j) ==
  LET saiu == {v \in VinculosDe(j) : /\ v[1] = emissor.sala[j]
                                     /\ v[2].presenca = "conectado"
                                     /\ emissor.mortos[j] = Nada}
  IN  \/ saiu = {} /\ UNCHANGED salas /\ lotes' = [lotes EXCEPT ![j] = << >>]
      \/ \E v \in saiu :
           LET grupo == emissor.grupos[v[1]] \ {j}
               lote  == LoteDe(v[1], salas'[v[1]], << Evento("membro_desconectado", j) >>)
           IN  /\ DesconectarJogador(v[1], v[2])
               /\ \A k \in grupo : Len(lotes[k]) < MaxLotes
               /\ lotes' = [k \in Jogadores |->
                    CASE k = j -> << >>
                      [] k \in grupo -> Append(lotes[k], lote)
                      [] OTHER -> lotes[k]]

Fechar(j) ==
  /\ ligacao[j] = "aberta" /\ gastos.quedas < MaxQuedas
  /\ gastos' = [gastos EXCEPT !.quedas = @ + 1]
  /\ ligacao' = [ligacao EXCEPT ![j] = "fechada"]
  /\ pedidos' = [pedidos EXCEPT ![j] = << >>]

(* The socket falls and the page stays.                                    *)
Cair(j) ==
  /\ Fechar(j)
  /\ Ausentar(j)
  /\ emissor' = SocketFechado(j)
  /\ Mostrar(j, [paginas[j] EXCEPT !.defasada = TRUE])
  /\ UNCHANGED ofertas

(* A reload, or the redirection to the match and back: a new page.         *)
Recarregar(j) ==
  /\ Fechar(j)
  /\ Ausentar(j)
  /\ emissor' = SocketFechado(j)
  /\ Mostrar(j, [PaginaNova EXCEPT !.defasada = TRUE])
  /\ UNCHANGED ofertas

(* The socket falls while its ENTRAR_NA_SALA waits for the queue: the      *)
(* handler then registers a socket that is closed already.                 *)
CairAoEntrar(j) ==
  /\ pedidos[j] # << >> /\ Head(pedidos[j]).tipo = "ENTRAR_NA_SALA"
  /\ Fechar(j)
  /\ LET s == Argumento(j)
     IN  /\ EntrarNaSala(s, j)
         /\ emissor' = [SocketFechado(j) EXCEPT !.mortos[j] = s]
         /\ \A k \in emissor.grupos[s] \ {j} : Len(lotes[k]) < MaxLotes
         /\ lotes' = [k \in Jogadores |->
              CASE k = j -> << >>
                [] k # j /\ k \in emissor.grupos[s] -> Append(lotes[k],
                     LoteDe(s, salas'[s], << Evento("membro_admitido", j) >>))
                [] OTHER -> lotes[k]]
  /\ Mostrar(j, [paginas[j] EXCEPT !.defasada = TRUE])
  /\ UNCHANGED ofertas

(* onopen and tratarReconexaoSeNecessario.  Out of its window a link is    *)
(* only registered, and its expiration asked for.                          *)
Reconectar(j, s, m) ==
  /\ emissor' = [Registrado(j, s) EXCEPT !.sobras[j] = {}]
  /\ \/ /\ m.presenca = "conectado"
        /\ Difundir({j}, Lote(MapearSala(s, salas[s], TRUE), << Atualizada >>))
        /\ UNCHANGED salas
     \/ /\ ReconectarJogador(s, m)
        /\ Difundir(emissor'.grupos[s],
             Lote(MapearSala(s, salas'[s], TRUE),
                  TraduzirEventos(<< Evento("membro_reconectado", j) >>)))
     \/ m.presenca = "em_reconexao" /\ UNCHANGED <<salas, lotes>>

Abrir(j) ==
  /\ ligacao[j] = "fechada"
  /\ ligacao' = [ligacao EXCEPT ![j] = "aberta"]
  /\ Mostrar(j, [paginas[j] EXCEPT !.erro = FALSE])
  /\ \/ /\ ~ Associado(j)
        /\ emissor' = [emissor EXCEPT !.sobras[j] = {}]
        /\ UNCHANGED <<salas, lotes>>
     \/ \E v \in VinculosDe(j) : Reconectar(j, v[1], v[2])
  /\ UNCHANGED <<ofertas, pedidos, gastos>>

-----------------------------------------------------------------------------
InitDaRede ==
  /\ Init
  /\ emissor = [grupos |-> [s \in Salas |-> {}],
                sala   |-> [j \in Jogadores |-> Nada],
                mortos |-> [j \in Jogadores |-> Nada],
                sobras |-> [j \in Jogadores |-> {}]]
  /\ ofertas = [s \in Salas |-> Nada]
  /\ lotes = [j \in Jogadores |-> << >>]
  /\ pedidos = [j \in Jogadores |-> << >>]
  /\ paginas = [j \in Jogadores |-> PaginaNova]
  /\ ligacao = [j \in Jogadores |-> "aberta"]
  /\ gastos = [cliques |-> 0, quedas |-> 0]

NextDaRede ==
  \/ \E j \in Jogadores :
       \/ Atender(j) \/ Ler(j) \/ Clicar(j)
       \/ Cair(j) \/ Recarregar(j) \/ CairAoEntrar(j) \/ Abrir(j)
  \/ \E s \in Salas :
       \/ AceitarOferta(s) \/ OfertaDesatualizada(s) \/ OfertaFrustrada(s)
       \/ \E saidas \in SUBSET Ativos(salas[s]) : Retornar(s, saidas)
       \/ \E m \in Ativos(salas[s]) : RemoverDesistente(s, m) \/ Expirar(s, m)

SpecDaRede == InitDaRede /\ [][NextDaRede]_varsDaRede

-----------------------------------------------------------------------------
(* At rest: nothing is on the way to or from the page of j.                *)
Quieta(j) ==
  ligacao[j] = "aberta" /\ lotes[j] = << >> /\ pedidos[j] = << >>

(* A socket of j is, or was, in the group or the maps of another Sala.     *)
SobrouEmOutra(j, s) == emissor.sobras[j] \ {s} # {}

(* A page at rest shows the Sala of its Player as the server has it,       *)
(* whatever crossed on the way: optimistic clicks, events of others,       *)
(* falls and reloads.  Left out: a page with an error to tell (a refused   *)
(* SAIR_DA_SALA left it without the Sala), a desistência the lobby has not *)
(* heard of, a socket left in the group of another Sala and an absence     *)
(* that is not over.                                                       *)
PaginaConverge ==
  \A j \in Jogadores : \A v \in VinculosDe(j) :
    ( /\ Quieta(j) /\ v[2].presenca = "conectado"
      /\ ~ paginas[j].erro /\ ~ paginas[j].antecipou
      /\ ~ SobrouEmOutra(j, v[1]) )
    => /\ paginas[j].sala # Nada
       /\ [paginas[j].sala EXCEPT !.alvo = FALSE] = MapearSala(v[1], salas[v[1]], FALSE)

(* The return of a match left j out of the Sala and in its group.          *)
ForaNoRetorno(j, s) ==
  s \in emissor.sobras[j] /\ \E m \in salas[s].membros :
                               m.jogador = j /\ m.motivo = "saida"

(* A page at rest shows no Sala but one its Player is in: neither the      *)
(* events after its exit nor those of the Sala it left bring it back.      *)
(* Left out: a page that came back to no link, which nothing tells         *)
(* (tratarReconexaoSeNecessario returns); a page that showed no Sala when  *)
(* it read that it was expelled; a Player that the return of a match left  *)
(* out; a socket left in the group of another Sala than it went on to.     *)
SemVinculoFantasma ==
  \A j \in Jogadores :
    ( /\ Quieta(j) /\ ~ paginas[j].defasada /\ ~ paginas[j].antecipou
      /\ paginas[j].sala # Nada /\ ~ ForaNoRetorno(j, paginas[j].sala.id)
      /\ \A s \in Salas : \A m \in salas[s].membros :
           m.jogador = j => ~ SobrouEmOutra(j, s) )
    => j \in JogadoresAtivos(salas[paginas[j].sala.id])

(* A page at rest is on its way to the match, its buttons covered, exactly *)
(* while its Sala is forwarded.                                            *)
FaseSegueSala ==
  \A j \in Jogadores : \A v \in VinculosDe(j) :
    ( /\ Quieta(j) /\ v[2].presenca = "conectado"
      /\ ~ paginas[j].erro /\ ~ paginas[j].antecipou
      /\ ~ SobrouEmOutra(j, v[1]) )
    => (paginas[j].fase = "disponivel" <=> salas[v[1]].estado = "encaminhada")

(* A Membro is connected only while its socket is open and the fan-out     *)
(* will notice that it closes.  Left out: a socket left in the group of    *)
(* another Sala and a dead one in the maps.                                *)
PresencaSegueSocket ==
  \A j \in Jogadores : \A v \in VinculosDe(j) :
    ( /\ v[2].presenca = "conectado"
      /\ emissor.mortos[j] = Nada /\ ~ SobrouEmOutra(j, v[1]) )
    => /\ ligacao[j] = "aberta"
       /\ emissor.sala[j] = v[1] /\ j \in emissor.grupos[v[1]]
=============================================================================
