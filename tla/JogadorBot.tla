------------------------------ MODULE JogadorBot ------------------------------
(***************************************************************************)
(* The driver of a bot in a match, jogador-bot.ts of the lobby server: a   *)
(* client of the wire like the page.  It keeps a mirror of the state of the*)
(* engine, seeded by the snapshot of its admission (adaptarSnapshotPara-   *)
(* Espelho) and advanced by the events of every lot (aplicarEventoNo-      *)
(* Espelho); on its own TURNO_INICIADO it opens a loop (executarTurno) that*)
(* asks the strategy of BotDaPartida about the mirror, sends what it draws *)
(* and waits for the lot or for the refusal.                               *)
(*                                                                         *)
(* The mirror has the shape of the state of Partida, so the strategy over  *)
(* the mirror is BotDaPartida with the mirror for its variables.  A step   *)
(* sends one command and folds its answer, since the loop waits for it. The*)
(* match is that of ClienteDaPartida: a person at the page, this bot.      *)
(***************************************************************************)
EXTENDS ClienteDaPartida

VARIABLES
  visto,        (* EspelhoDoBot of each bot                                *)
  laco,         (* its loop: rodando (turnoEmAndamento), how many acoes it *)
                (* took, those recusados, the commands of the one under way*)
                (* (fila), whether it ends after the next answer (desiste) *)
  desviado      (* history: a rescue told more than a mirror reads         *)

varsDosBots == <<visto, laco, desviado>>
varsDaMesa  == <<varsDoCliente, varsDosBots>>

Ocioso == [rodando |-> FALSE, acoes |-> 0, recusados |-> {}, fila |-> <<>>, desiste |-> FALSE]
Aberto == [Ocioso EXCEPT !.rodando = TRUE]

-----------------------------------------------------------------------------
(* The mirror.                                                             *)

(* EspelhoDoBot: the state, and whose last Confirmação was in a Sala Médica*)
EstadoDaMesa ==
  [tab |-> [tab EXCEPT !.caixa = Len(@)], jogadores |-> jogadores, turno |-> turno,
   iluminadas |-> iluminadas, graca |-> graca, geradores |-> geradores,
   cartao |-> cartao, resultado |-> resultado, escudo |-> Nada]

(* adaptarSnapshotParaEspelho: the Caixa is a count, graça and crossing are*)
(* not read.                                                               *)
AdaptarSnapshot ==
  [EstadoDaMesa EXCEPT !.graca = {}, !.turno.atravessou = FALSE, !.turno.travessia = Nada]

PecaGiradaNoBot(e, ev) ==
  CASE ev.peca \in Mesa(e.tab) ->
         [e EXCEPT !.tab.posicionadas[ev.peca].orientacao = ev.orientacao]
    [] ev.peca \in Pendentes(e.tab) ->
         [e EXCEPT !.tab.recebidas[ev.peca].orientacao = ev.orientacao]
    [] ev.peca \in DOMAIN e.tab.iniciais -> [e EXCEPT !.tab.iniciais[ev.peca] = ev.orientacao]
    [] OTHER -> e

(* The type of the piece is that of the table or of the hand: any other one*)
(* is ignored.                                                             *)
PecaPosicionadaNoBot(e, ev) ==
  IF ev.peca \notin DOMAIN e.tab.iniciais \cup Pendentes(e.tab) THEN e
  ELSE [e EXCEPT
          !.tab.iniciais = Restringir(@, DOMAIN @ \ {ev.peca}),
          !.tab.recebidas = Restringir(@, DOMAIN @ \ {ev.peca}),
          !.tab.posicionadas = Estender(@, ev.peca, [celula |-> ev.celula,
                                                     orientacao |-> ev.orientacao]),
          !.tab.selecionada = Nada,
          !.tab.manipulacao = IF EhEspecial(ev.peca) \/ EhMonstro(ev.peca) THEN Nada ELSE ev.peca]

VagaEscolhidaNoBot(e, ev) ==
  IF ev.peca \notin Pendentes(e.tab) THEN e
  ELSE [e EXCEPT !.tab.recebidas[ev.peca].vaga = ev.vaga,
                 !.tab.recebidas[ev.peca].alvo = ev.alvo,
                 !.tab.selecionada = ev.peca]

PeaoNaPeca(e, j, p) ==
  [e EXCEPT !.tab.peoes = IF j \in DOMAIN @ THEN [@ EXCEPT ![j] = p] ELSE @, !.tab.peao = j]

(* Mutant: the movement leaves the pawn unselected (what the comment of    *)
(* PEAO_MOVIDO says of an earlier version).                                *)
BugPeaoMovidoNoBot(e, ev) ==
  [PeaoNaPeca(e, ev.peao, ev.para) EXCEPT
     !.tab.peao = Nada, !.graca = (@ \ ({ev.de} \ {ev.para})) \cap Mesa(e.tab)]

PeaoMovidoNoBot(e, ev) ==
  [PeaoNaPeca(e, ev.peao, ev.para) EXCEPT
     !.graca = (@ \ ({ev.de} \ {ev.para})) \cap Mesa(e.tab)]

PosicaoConfirmadaNoBot(e, ev) ==
  [e EXCEPT !.turno.confirmada = TRUE,
            !.escudo = IF Tipo(ev.peca) = "sala_medica" THEN ev.jogador ELSE Nada,
            !.geradores = IF Tipo(ev.peca) = "gerador" THEN @ \cup {ev.peca} ELSE @,
            !.cartao = @ \/ Tipo(ev.peca) = "sala_do_diretor",
            !.jogadores = IF ev.jogador \in DOMAIN @
                          THEN [@ EXCEPT ![ev.jogador].protegido = ev.protegido] ELSE @]

LimpezaNoBot(e, ev) ==
  [e EXCEPT !.tab.posicionadas = Restringir(@, DOMAIN @ \ ev.pecas),
            !.graca = @ \ ev.pecas]

(* The shield a Sala Médica has just given outlives the attack of the same *)
(* command.                                                                *)
AtaqueNoBot(e, ev) ==
  LET Resultante(j) ==
        LET s == e.jogadores[j]
            ferido == IF j \in DOMAIN ev.estados
                      THEN [s EXCEPT !.baixa = ev.estados[j].baixa,
                                     !.sanidade = ev.estados[j].sanidade,
                                     !.amedrontado = ev.estados[j].amedrontado]
                      ELSE s
        IN  IF j \in ev.protegidos /\ j # e.escudo
            THEN [ferido EXCEPT !.protegido = FALSE] ELSE ferido
  IN  [e EXCEPT !.jogadores = [j \in DOMAIN @ |-> Resultante(j)], !.escudo = Nada]

(* What the event says of light and sanity is not read: a rescue in the    *)
(* dark leaves baixa as it was, and the frightened wake with two points.   *)
ResgateNoBot(e, ev) ==
  LET Salvo(s) == [s EXCEPT !.baixa = FALSE, !.amedrontado = FALSE,
                            !.sanidade = IF s.amedrontado THEN 1 ELSE @]
  IN  [e EXCEPT !.graca = @ \cup {ev.peca},
                !.jogadores = IF ev.jogador \in DOMAIN @
                              THEN [@ EXCEPT ![ev.jogador] = Salvo(@)] ELSE @]

TurnoEncerradoNoBot(e, ev) ==
  [e EXCEPT !.escudo = Nada,
            !.jogadores = IF ev.jogador \in DOMAIN @
                          THEN [@ EXCEPT ![ev.jogador].primeiroTurno = FALSE] ELSE @]

(* Mutant: the piece the turn began on is that of the turn before.         *)
BugTurnoIniciadoNoBot(e, ev) ==
  [e EXCEPT !.escudo = Nada, !.tab = SemSequencia(@),
            !.turno = [ativo |-> ev.jogador, rodada |-> ev.rodada, inicio |-> @.inicio,
                       confirmada |-> FALSE, atravessou |-> FALSE, travessia |-> Nada]]

TurnoIniciadoNoBot(e, ev) ==
  [e EXCEPT !.escudo = Nada, !.tab = SemSequencia(@),
            !.turno = [ativo |-> ev.jogador, rodada |-> ev.rodada,
                       inicio |-> IF ev.jogador \in DOMAIN e.tab.peoes
                                  THEN e.tab.peoes[ev.jogador] ELSE Nada,
                       confirmada |-> FALSE, atravessou |-> FALSE, travessia |-> Nada]]

(* aplicarEventoNoEspelho.  No event tells the piece of a crossing, and    *)
(* DESISTENCIA_REGISTRADA is none of those it knows.                       *)
Dobrar(e, ev) ==
  CASE ev.tipo = "PECA_SELECIONADA" -> [e EXCEPT !.tab.selecionada = ev.peca]
    [] ev.tipo = "PECA_DESELECIONADA" ->
         [e EXCEPT !.tab.selecionada = IF @ = ev.peca THEN Nada ELSE @]
    [] ev.tipo = "PECA_GIRADA" -> PecaGiradaNoBot(e, ev)
    [] ev.tipo = "PECA_POSICIONADA" -> PecaPosicionadaNoBot(e, ev)
    [] ev.tipo = "MANIPULACAO_FINALIZADA" -> [e EXCEPT !.tab.manipulacao = Nada]
    [] ev.tipo = "PEAO_SELECIONADO" -> [e EXCEPT !.tab.peao = ev.peao]
    [] ev.tipo = "PEAO_DESELECIONADO" ->
         [e EXCEPT !.tab.peao = IF @ = ev.peao THEN Nada ELSE @]
    [] ev.tipo = "PECA_SORTEADA" ->
         [e EXCEPT !.tab.caixa = IF @ < Cardinality(ev.pecas) THEN 0
                                 ELSE @ - Cardinality(ev.pecas)]
    [] ev.tipo = "RECEBIMENTO_GERADO" -> [e EXCEPT !.tab.recebidas = ev.recebidas]
    [] ev.tipo = "PEAO_POSICIONADO" -> PeaoNaPeca(e, ev.peao, ev.peca)
    [] ev.tipo = "VAGA_DA_PECA_RECEBIDA_ESCOLHIDO" -> VagaEscolhidaNoBot(e, ev)
    [] ev.tipo = "PEAO_MOVIDO" -> PeaoMovidoNoBot(e, ev)
    [] ev.tipo = "PEAO_PERMANECEU" -> [e EXCEPT !.tab.peao = Nada]
    [] ev.tipo = "ATRAVESSOU_O_ESCURO" -> [e EXCEPT !.turno.atravessou = TRUE]
    [] ev.tipo = "POSICAO_CONFIRMADA" -> PosicaoConfirmadaNoBot(e, ev)
    [] ev.tipo = "CELULAS_ILUMINADAS" -> [e EXCEPT !.iluminadas = ev.celulas]
    [] ev.tipo = "LIMPEZA_APLICADA" -> LimpezaNoBot(e, ev)
    [] ev.tipo = "ATAQUE_RESOLVIDO" -> AtaqueNoBot(e, ev)
    [] ev.tipo = "RESGATE_REALIZADO" -> ResgateNoBot(e, ev)
    [] ev.tipo = "TURNO_ENCERRADO" -> TurnoEncerradoNoBot(e, ev)
    [] ev.tipo = "TURNO_INICIADO" -> TurnoIniciadoNoBot(e, ev)
    [] ev.tipo = "PARTIDA_TERMINADA" -> [e EXCEPT !.resultado = ev.desfecho]
    [] OTHER -> e

DobrarLote(e, lote) ==
  LET passo[i \in 0..Len(lote)] == IF i = 0 THEN e ELSE Dobrar(passo[i - 1], lote[i])
  IN  passo[Len(lote)]

(* What acoesValidasDaSubfase makes of the mirror of b.  The strategy only *)
(* asks whether the Caixa is empty.                                        *)
NoEspelho(b) == INSTANCE BotDaPartida WITH
  tab        <- [visto[b].tab EXCEPT !.caixa = [i \in 1..@ |-> Nada]],
  jogadores  <- visto[b].jogadores,
  turno      <- visto[b].turno,
  iluminadas <- visto[b].iluminadas,
  graca      <- visto[b].graca,
  geradores  <- visto[b].geradores,
  cartao     <- visto[b].cartao,
  resultado  <- visto[b].resultado

Candidatas(b) == NoEspelho(b)!AcoesValidasDaSubfase(b) \ laco[b].recusados

(* expandirPosicionamentoDoBot: the turns before an encaixe, those after   *)
(* which the piece is connected to the one it was drawn from.              *)
Expansoes(e, a) ==
  LET p == a[2]
      o == IF p \in Pendentes(e.tab) THEN e.tab.recebidas[p].orientacao ELSE e.tab.iniciais[p]
      Serve(x) == p \in Pendentes(e.tab) => ConectaNaVaga(p, x, e.tab.recebidas[p].vaga)
      Girando(g, n) == [i \in 1..n |-> <<"girar_peca", p, g>>] \o <<a>>
  IN  IF a[1] # "posicionar_peca" \/ e.tab.selecionada # p \/ BordasBase(Tipo(p)) = Bordas
      THEN {<<a>>}
      ELSE {Girando(x[1], x[2]) : x \in {y \in Giros \X (0..2) : Serve(Rotacionar(o, y[1] * y[2]))}}

-----------------------------------------------------------------------------
(* What arrives: every lot goes to every bot.                              *)

Fim == Se(resultado' # Nada, [tipo |-> "PARTIDA_TERMINADA", desfecho |-> resultado'])

AbreVezDe(b, lote) ==
  \E i \in DOMAIN lote : lote[i].tipo = "TURNO_INICIADO" /\ lote[i].jogador = b

(* A loop that runs only sees activity in its own TURNO_INICIADO; it ends  *)
(* when the mirror says that the turn, or the match, is over, and after the*)
(* answer of its last command.                                             *)
LacoApos(l, b, e, lote) ==
  IF ~l.rodando THEN IF AbreVezDe(b, lote) THEN Aberto ELSE Ocioso
  ELSE IF l.desiste \/ e.turno.ativo # b \/ e.resultado # Nada THEN Ocioso
  ELSE l

Calado(lote) ==
  \E i \in DOMAIN lote :
    lote[i].tipo = "RESGATE_REALIZADO" /\ (lote[i].baixa \/ lote[i].sanidade > 1)

(* l are the loops as they wait for the lot.                               *)
Ouvir(lote, l) ==
  /\ visto' = [b \in Bots |-> DobrarLote(visto[b], lote \o Fim)]
  /\ laco' = [b \in Bots |-> LacoApos(l[b], b, visto'[b], lote)]
  /\ desviado' = (desviado \/ Calado(lote))
BotsOuvem(lote) == \E l \in {lote} : Ouvir(l, laco)

-----------------------------------------------------------------------------
(* The loop.                                                               *)

(* Sends the first of comandos; the action they belong to is named by its  *)
(* last one.  A command that is taken without an event is never answered:  *)
(* the loop gives the turn up (timeoutDeRespostaMs), as it does when the   *)
(* turn is not its own.                                                    *)
Enviar(b, l, comandos) ==
  LET a == Head(comandos)
      recusada == [l EXCEPT !.recusados = @ \cup {comandos[Len(comandos)]}, !.fila = <<>>]
  IN  IF AceitaComando(b, a)
      THEN /\ ExecutaComando(b, a) /\ UNCHANGED passos
           /\ \E lote \in {Lote(b, a)} :
                /\ Receber(lote, a, pedidos)
                /\ Ouvir(lote, [laco EXCEPT ![b] =
                     [l EXCEPT !.fila = Tail(comandos), !.desiste = @ \/ lote = <<>>]])
      ELSE /\ laco' = [laco EXCEPT ![b] = IF l.desiste \/ turno.ativo # b THEN Ocioso
                                         ELSE recusada]
           /\ UNCHANGED <<varsDoCliente, visto, desviado>>

(* executarTurno: an action that is drawn, the rest of it, or the failsafe.*)
Piloto(b) ==
  LET l == laco[b]
      maisUma == [l EXCEPT !.acoes = @ + 1]
  IN  /\ resultado = Nada /\ l.rodando
      /\ \/ l.fila # <<>> /\ Enviar(b, l, l.fila)
         \/ /\ l.fila = <<>> /\ l.acoes < MaxAcoesPorTurno
            /\ \E a \in Candidatas(b) : \E s \in Expansoes(visto[b], a) :
                 Enviar(b, maisUma, s)
         \/ /\ l.fila = <<>> /\ (l.acoes = MaxAcoesPorTurno \/ Candidatas(b) = {})
            /\ Enviar(b, [l EXCEPT !.desiste = TRUE], <<<<"encerrar_turno">>>>)

-----------------------------------------------------------------------------
(* The table: the person, and what it makes the bots hear.                 *)

SemNovidade == UNCHANGED varsDosBots

Pessoa ==
  \/ (Clicar \/ Religar \/ Recarregar) /\ SemNovidade
  \/ Atender /\ IF AceitaDoCliente(Head(pedidos)) THEN BotsOuvem(Lote(Eu, Head(pedidos)))
                 ELSE SemNovidade
  \/ Cair /\ IF vars' = vars THEN SemNovidade ELSE BotsOuvem(Lote(Eu, Head(pedidos)))

DesistenciaOuvida(j) == DesistenciaVista(j) /\ BotsOuvem(LoteDaDesistencia(j))

(* aoReceberSnapshot, and the turn announced to the socket that is admitted*)
(* (anunciarTurnoAtual).  Bound: the bots are admitted before the first    *)
(* command: later, the announcement takes the hand of whoever plays off the*)
(* mirror, which then ignores its pieces.                                  *)
InitDaMesa ==
  /\ InitDoCliente
  /\ visto = [b \in Bots |-> Dobrar(AdaptarSnapshot, [tipo |-> "TURNO_INICIADO",
                               jogador |-> turno.ativo, rodada |-> turno.rodada])]
  /\ laco = [b \in Bots |-> IF turno.ativo = b THEN Aberto ELSE Ocioso]
  /\ desviado = FALSE

NextDaMesa ==
  \/ Pessoa
  \/ \E j \in Desistentes \ {Eu} : DesistenciaOuvida(j)
  \/ \E b \in Bots : Piloto(b)

SpecDaMesa == InitDaMesa /\ [][NextDaMesa]_varsDaMesa

-----------------------------------------------------------------------------
(* Properties.                                                             *)

(***************************************************************************)
(* "na vez do bot o espelho está exato" (jogador-bot.ts:18): the mirror a  *)
(* bot decides on is the state of the match, whoever played before and     *)
(* however the turns went; but for the piece of a crossing, which no event *)
(* names, and until a rescue of which it reads less than the event says.   *)
(***************************************************************************)
SemTravessia(e) == [e EXCEPT !.escudo = Nada, !.turno.travessia = Nada]

EspelhoDoBotExato ==
  resultado = Nada /\ ElencoCompleto /\ ~desviado =>
    \A b \in Bots : turno.ativo = b => SemTravessia(visto[b]) = SemTravessia(EstadoDaMesa)

(***************************************************************************)
(* The loop of a bot does not give its turn up (executarTurno returns on a *)
(* command that is never answered, or whose failsafe is refused): as long  *)
(* as the turn is its own the loop runs, but on a piece in its graça whose *)
(* neighbours are taken and after a crossing into a monster.               *)
(***************************************************************************)
PilotoConclui ==
  resultado = Nada /\ ElencoCompleto =>
    \A b \in Bots : turno.ativo = b =>
      \/ laco[b].rodando
      \/ TravessiaEmMonstro
      \/ NaPeca(b) \in graca /\ Destinos(b) = {}

(***************************************************************************)
(* "o turno fechado via Permanência" (bot.ts:613): a bot whose crossing    *)
(* drew a monster, and from whom the match would take the Permanência, has *)
(* its loop running.  It is false: the mirror does not know the piece of   *)
(* the crossing, so the strategy never offers to stay.                     *)
(***************************************************************************)
MonstroNaoTravaOBot ==
  resultado = Nada /\ ElencoCompleto =>
    \A b \in Bots :
      turno.ativo = b /\ TravessiaEmMonstro /\ PodePermanecerNaPeca(b) => laco[b].rodando
=============================================================================
