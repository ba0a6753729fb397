--------------------------- MODULE EspelhoDaPartida ---------------------------
(***************************************************************************)
(* The mirror of the match that every browser keeps: reduzirEvento of      *)
(* frontend reducao.ts applies the events of the wire (traducao.ts, one to *)
(* one with those of the engine), aplicarSnapshot of snapshot.ts the photo *)
(* paraSnapshotWire takes of the server's state.                           *)
(*                                                                         *)
(* An event is a record whose field tipo is the type on the wire.  A pawn  *)
(* is named by its Player; a pawn of the mirror lies on a cell, that of    *)
(* the server on a piece.  PECA_SORTEADA stands for the run of them that a *)
(* draw sends.  Left out: colours, names, clocks, the order in which pawns *)
(* came to a cell (layout only) and the fallbacks for an older wire.       *)
(***************************************************************************)
EXTENDS Partida

VARIABLE espelho      (* EstadoDoTabuleiroNoCliente                        *)

PercepcaoDe(s) ==
  [sanidade |-> s.sanidade, baixa |-> s.baixa,
   amedrontado |-> s.amedrontado, protegido |-> s.protegido]

-----------------------------------------------------------------------------
(* The photo of the server (paraSnapshotWire) as aplicarSnapshot reads it. *)

(* The first |jogadores| Peças Iniciais that are still on the table, in    *)
(* the order of the engine.                                                *)
IniciaisDoRoster(t, n) ==
  {p \in DOMAIN t.iniciais : Cardinality({q \in DOMAIN t.iniciais : q[2] < p[2]}) < n}

(* repararInicialEmFoco: a selected Inicial that the cut dropped.          *)
IniciaisReparadas(t, n) ==
  LET cortadas == IniciaisDoRoster(t, n)
  IN  IF t.selecionada \in PecasIniciais /\ t.selecionada \notin cortadas \cup Mesa(t)
      THEN cortadas \cup {t.selecionada} ELSE cortadas

CelulaDoPeao(t, j) == IF PecaSob(t, j) = Nada THEN Nada ELSE CelulaDe(t, PecaSob(t, j))

(* The phase of movement is not on the wire: it stays as the deltas taught *)
(* it, unless the position is confirmed.                                   *)
AplicarSnapshot(e) ==
  [iniciais     |-> LET mesa == IniciaisReparadas(tab, Cardinality(DOMAIN jogadores))
                    IN  [p \in mesa |-> IF p \in DOMAIN tab.iniciais THEN tab.iniciais[p]
                                        ELSE IF p \in DOMAIN e.iniciais THEN e.iniciais[p]
                                        ELSE 0],
   posicionadas |-> tab.posicionadas,
   selecionada  |-> tab.selecionada,
   manipulacao  |-> tab.manipulacao,
   peoes        |-> [j \in DOMAIN jogadores |-> CelulaDoPeao(tab, j)],
   peao         |-> tab.peao,
   recebidas    |-> tab.recebidas,
   conhecidas   |-> e.conhecidas \cup Pendentes(tab),
   iluminadas   |-> iluminadas,
   ativo        |-> turno.ativo,
   rodada       |-> turno.rodada,
   movimentou   |-> turno.confirmada \/ e.movimentou,
   confirmada   |-> turno.confirmada,
   atravessou   |-> turno.atravessou,
   travessia    |-> turno.travessia,
   inicio       |-> turno.inicio,
   dono         |-> [j \in DOMAIN jogadores |-> j],
   jogadores    |-> [j \in DOMAIN jogadores |-> PercepcaoDe(jogadores[j])],
   restam       |-> Len(tab.caixa),
   geradores    |-> geradores,
   cartao       |-> cartao]

(* criarEstadoInicialDoCliente, as far as a snapshot reads it.             *)
SemFoto == [iniciais |-> <<>>, conhecidas |-> {}, movimentou |-> FALSE]

-----------------------------------------------------------------------------
(* Where things are in the mirror.                                         *)

PecasEm(e, c) == {p \in DOMAIN e.posicionadas : c # Nada /\ e.posicionadas[p].celula = c}
PecaEm(e, c) == IF PecasEm(e, c) = {} THEN Nada ELSE CHOOSE p \in PecasEm(e, c) : TRUE
SobOPeao(e, k) == IF k \in DOMAIN e.peoes THEN PecaEm(e, e.peoes[k]) ELSE Nada
DonoDe(e, j) == IF j \in DOMAIN e.dono THEN e.dono[j] ELSE Nada

(* aprenderPeaoDoAtivo: a pawn that acts belongs to whoever's turn it is.  *)
Aprendido(e, k) ==
  IF e.ativo = Nada THEN e ELSE [e EXCEPT !.dono = Estender(@, e.ativo, k)]

SemFase(e) ==
  [e EXCEPT !.movimentou = FALSE, !.confirmada = FALSE, !.atravessou = FALSE,
            !.travessia = Nada, !.peao = Nada, !.selecionada = Nada,
            !.manipulacao = Nada, !.recebidas = <<>>]

SemPecas(e, removidas) ==
  [e EXCEPT !.posicionadas = Restringir(@, DOMAIN @ \ removidas),
            !.selecionada = IF @ \in removidas THEN Nada ELSE @,
            !.manipulacao = IF @ \in removidas THEN Nada ELSE @]

-----------------------------------------------------------------------------
(* reduzirEvento, case by case.                                            *)

PecaGirada(e, ev) ==
  IF ev.peca \in DOMAIN e.posicionadas
  THEN [e EXCEPT !.posicionadas[ev.peca].orientacao = ev.orientacao]
  ELSE IF ev.peca \in DOMAIN e.recebidas
  THEN [e EXCEPT !.recebidas[ev.peca].orientacao = ev.orientacao]
  ELSE IF ev.peca \in DOMAIN e.iniciais
  THEN [e EXCEPT !.iniciais[ev.peca] = ev.orientacao] ELSE e

(* The wire does not carry the type of the piece that is placed: a piece   *)
(* nobody announced is ignored.                                            *)
(* Mutant: every pending piece is dropped, not only that of the cell.      *)
BugPecaPosicionada(e, ev) ==
  [e EXCEPT !.iniciais = Restringir(@, DOMAIN @ \ {ev.peca}),
            !.posicionadas = Estender(@, ev.peca, [celula |-> ev.celula,
                                                   orientacao |-> ev.orientacao]),
            !.selecionada = Nada,
            !.manipulacao = IF EhEspecial(ev.peca) \/ EhMonstro(ev.peca) THEN Nada ELSE ev.peca,
            !.recebidas = <<>>]

FechaTravessia(e, ev) ==
  e.atravessou /\ ev.peca \in DOMAIN e.recebidas /\ e.recebidas[ev.peca].alvo = ev.celula

PecaPosicionada(e, ev) ==
  IF ev.peca \notin DOMAIN e.iniciais \cup e.conhecidas \cup DOMAIN e.recebidas THEN e
  ELSE [e EXCEPT
          !.iniciais = Restringir(@, DOMAIN @ \ {ev.peca}),
          !.posicionadas = Estender(@, ev.peca, [celula |-> ev.celula,
                                                 orientacao |-> ev.orientacao]),
          !.selecionada = Nada,
          !.manipulacao = IF EhEspecial(ev.peca) \/ EhMonstro(ev.peca) THEN Nada ELSE ev.peca,
          !.recebidas = Restringir(@, {r \in DOMAIN @ : @[r].alvo # ev.celula}),
          !.travessia = IF FechaTravessia(e, ev) THEN ev.peca ELSE @]

PecasSorteadas(e, ev) ==
  [e EXCEPT !.conhecidas = @ \cup ev.pecas,
            !.restam = LET n == Cardinality(ev.pecas \ e.conhecidas)
                       IN  IF @ < n THEN 0 ELSE @ - n]

VagaEscolhida(e, ev) ==
  IF ev.peca \notin DOMAIN e.recebidas THEN e
  ELSE [e EXCEPT !.recebidas[ev.peca].vaga = ev.vaga, !.recebidas[ev.peca].alvo = ev.alvo,
                 !.conhecidas = @ \cup {ev.peca}, !.selecionada = ev.peca]

PeaoNaCelula(e, ev) ==
  IF ev.peao \in DOMAIN e.peoes THEN [e EXCEPT !.peoes[ev.peao] = ev.celula] ELSE e
PeaoPosicionado(e, ev) ==
  [Aprendido(PeaoNaCelula(e, ev), ev.peao) EXCEPT !.peao = ev.peao]
PeaoMovido(e, ev) ==
  [Aprendido(PeaoNaCelula(e, ev), ev.peao) EXCEPT
     !.peao = ev.peao, !.movimentou = @ \/ e.ativo # Nada]

(* A turn that is announced again (every admission does) only confirms     *)
(* itself; a new one begins on the piece under the pawn of its Player.     *)
(* Mutant: the announcement after a snapshot resets the turn (issue #258). *)
BugTurnoIniciado(e, ev) ==
  [SemFase(e) EXCEPT !.ativo = ev.jogador, !.rodada = ev.rodada,
                     !.inicio = SobOPeao(e, DonoDe(e, ev.jogador))]

TurnoIniciado(e, ev) ==
  IF e.ativo = ev.jogador /\ e.rodada = ev.rodada THEN e
  ELSE [SemFase(e) EXCEPT !.ativo = ev.jogador, !.rodada = ev.rodada,
                          !.inicio = SobOPeao(e, DonoDe(e, ev.jogador))]

PosicaoConfirmada(e, ev) ==
  [e EXCEPT !.confirmada = TRUE,
            !.geradores = IF Tipo(ev.peca) = "gerador" THEN @ \cup {ev.peca} ELSE @,
            !.cartao = @ \/ Tipo(ev.peca) = "sala_do_diretor",
            !.jogadores = IF ev.jogador \in DOMAIN @
                          THEN [@ EXCEPT ![ev.jogador].protegido = ev.protegido] ELSE @]

(* coreografarAtaque gives each attacker the wounded and the protected it  *)
(* reaches, reduzirFatiaDoAtaque applies the slots one after the other: a  *)
(* Vulto the light, an Espectro the sanity.  ev.atacantes is the set of    *)
(* [tipo, alcance], ev.estados what became of the Players that changed.    *)
AtingidoPor(ev, tipo, j) ==
  \E a \in ev.atacantes : a.tipo = tipo /\ j \in a.alcance /\ j \in ev.atingidos

AtaqueResolvido(e, ev) ==
  LET Ferido(j) == j \in DOMAIN ev.estados
      ComFatias(j) ==
        LET s == e.jogadores[j] IN
        [sanidade    |-> IF Ferido(j) /\ AtingidoPor(ev, "espectro", j)
                         THEN ev.estados[j].sanidade ELSE s.sanidade,
         baixa       |-> IF Ferido(j) /\ AtingidoPor(ev, "vulto", j)
                         THEN ev.estados[j].baixa ELSE s.baixa,
         amedrontado |-> IF Ferido(j) /\ AtingidoPor(ev, "espectro", j)
                         THEN ev.estados[j].amedrontado ELSE s.amedrontado,
         protegido   |-> s.protegido /\ j \notin ev.protegidos]
  IN  [e EXCEPT !.jogadores = [j \in DOMAIN @ |-> ComFatias(j)]]

ResgateRealizado(e, ev) ==
  IF ev.jogador \notin DOMAIN e.jogadores THEN e
  ELSE [e EXCEPT !.jogadores[ev.jogador] =
          [@ EXCEPT !.sanidade = ev.sanidade, !.baixa = ev.baixa,
                    !.amedrontado = ev.sanidade = 0]]

(* The piece under the pawn that leaves falls at once; the light, the      *)
(* cleaning and the turn come in the same lot.                             *)
DesistenciaRegistrada(e, ev) ==
  LET hospedeira == {SobOPeao(e, ev.peao)} \ {Nada}
      semPeca    == SemPecas(e, hospedeira)
      eraAtivo   == e.ativo = ev.jogador
  IN  IF ev.jogador \notin DOMAIN e.jogadores \cup DOMAIN e.dono /\ ev.peao \notin DOMAIN e.peoes
      THEN e
      ELSE [semPeca EXCEPT
              !.jogadores = Restringir(@, DOMAIN @ \ {ev.jogador}),
              !.dono = Restringir(@, DOMAIN @ \ {ev.jogador}),
              !.peoes = Restringir(@, DOMAIN @ \ {ev.peao}),
              !.peao = IF @ = ev.peao THEN Nada ELSE @,
              !.selecionada = IF eraAtivo THEN Nada ELSE @,
              !.manipulacao = IF eraAtivo THEN Nada ELSE @]

ReduzirEvento(e, ev) ==
  CASE ev.tipo = "PECA_SELECIONADA" -> [e EXCEPT !.selecionada = ev.peca]
    [] ev.tipo = "PECA_DESELECIONADA" ->
         [e EXCEPT !.selecionada = IF @ = ev.peca THEN Nada ELSE @]
    [] ev.tipo = "PECA_GIRADA" -> PecaGirada(e, ev)
    [] ev.tipo = "PECA_POSICIONADA" -> PecaPosicionada(e, ev)
    [] ev.tipo = "MANIPULACAO_FINALIZADA" ->
         [e EXCEPT !.manipulacao = IF @ = ev.peca THEN Nada ELSE @]
    [] ev.tipo = "PEAO_SELECIONADO" -> [e EXCEPT !.peao = ev.peao]
    [] ev.tipo = "PEAO_DESELECIONADO" -> [e EXCEPT !.peao = IF @ = ev.peao THEN Nada ELSE @]
    [] ev.tipo = "RECEBIMENTO_GERADO" ->
         [e EXCEPT !.recebidas = ev.recebidas, !.conhecidas = @ \cup DOMAIN ev.recebidas]
    [] ev.tipo = "PECA_SORTEADA" -> PecasSorteadas(e, ev)
    [] ev.tipo = "VAGA_DA_PECA_RECEBIDA_ESCOLHIDO" -> VagaEscolhida(e, ev)
    [] ev.tipo = "PEAO_POSICIONADO" -> PeaoPosicionado(e, ev)
    [] ev.tipo = "PEAO_MOVIDO" -> PeaoMovido(e, ev)
    [] ev.tipo = "PEAO_PERMANECEU" -> [Aprendido(e, ev.peao) EXCEPT !.peao = Nada]
    [] ev.tipo = "TURNO_INICIADO" -> TurnoIniciado(e, ev)
    [] ev.tipo = "TURNO_ENCERRADO" -> [SemFase(e) EXCEPT !.ativo = Nada, !.inicio = Nada]
    [] ev.tipo = "POSICAO_CONFIRMADA" -> PosicaoConfirmada(e, ev)
    [] ev.tipo = "CELULAS_ILUMINADAS" -> [e EXCEPT !.iluminadas = ev.celulas]
    [] ev.tipo = "LIMPEZA_APLICADA" -> SemPecas(e, ev.pecas)
    [] ev.tipo = "ATAQUE_RESOLVIDO" -> AtaqueResolvido(e, ev)
    [] ev.tipo = "RESGATE_REALIZADO" -> ResgateRealizado(e, ev)
    [] ev.tipo = "ATRAVESSOU_O_ESCURO" -> [e EXCEPT !.atravessou = TRUE]
    [] ev.tipo = "DESISTENCIA_REGISTRADA" -> DesistenciaRegistrada(e, ev)

(* reduzirEventos: a lot, in its order.                                    *)
ReduzirEventos(e, lote) ==
  LET passo[i \in 0..Len(lote)] ==
        IF i = 0 THEN e ELSE ReduzirEvento(passo[i - 1], lote[i])
  IN  passo[Len(lote)]
=============================================================================
