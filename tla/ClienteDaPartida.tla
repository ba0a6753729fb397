--------------------------- MODULE ClienteDaPartida ---------------------------
(***************************************************************************)
(* A match with a person at a browser: the engine of BotDaPartida, the     *)
(* mirror of EspelhoDaPartida and PartidaPage.tsx between them.  The Player*)
(* Eu acts only through what the page offers, computed from the mirror     *)
(* (interacaoPeoes.ts, interacao.ts and the buttons of the turn); the page *)
(* also sends commands by itself, the chain that finishes a crossing of    *)
(* the dark.  The other Players are bots.                                  *)
(*                                                                         *)
(* A command travels in pedidos; the server answers it with one lot of     *)
(* events, which the page applies at once.  That an attack holds part of   *)
(* the lot back is FilaDeAtaque.  A command is a tuple as in BotDaPartida; *)
(* the cell it carries on the wire is named by the piece that lies there.  *)
(***************************************************************************)
EXTENDS BotDaPartida, EspelhoDaPartida

CONSTANT
  Eu,               (* the Player at the browser                           *)
  Quedas            (* bound: reloads and reconnections                    *)

ASSUME ClienteAssumption ==
  /\ Eu \in (1..NumeroDeJogadores) \ Bots /\ Quedas \in Nat
  /\ Nada \notin {"encerrar", "confirmar", "permanecer"}

VARIABLES
  pedidos,          (* commands sent and not handled yet                   *)
  cadeia,           (* the ...EncadeadoRef of the page: what the chain of  *)
                    (* the crossing sent in this turn                      *)
  conectado,        (* of the socket of Eu                                 *)
  quedas

varsDoCliente == <<vars, espelho, pedidos, cadeia, conectado, quedas>>

SemCadeia == [mover |-> Nada, permanecer |-> Nada, escolha |-> Nada,
              confirmar |-> FALSE, encerrar |-> FALSE]

-----------------------------------------------------------------------------
(* The lot of events that a command of j emits, from the state before and  *)
(* after it.  The light and the cleaning are sent once more when an attack *)
(* darkens somebody; the last ones are those below.                        *)

Se(condicao, evento) == IF condicao THEN <<evento>> ELSE <<>>

(* The elements of a finite set, one after the other.                      *)
EmOrdem(S) ==
  CHOOSE s \in [1..Cardinality(S) -> S] : \A i, k \in DOMAIN s : s[i] = s[k] => i = k

Finalizada ==
  Se(tab.manipulacao # Nada, [tipo |-> "MANIPULACAO_FINALIZADA", peca |-> tab.manipulacao])

LuzELimpeza ==
  Se(iluminadas' # iluminadas, [tipo |-> "CELULAS_ILUMINADAS", celulas |-> iluminadas'])
  \o Se(~(Mesa(tab) \subseteq Mesa(tab')),
        [tipo |-> "LIMPEZA_APLICADA", pecas |-> Mesa(tab) \ Mesa(tab')])

Passagem(j) ==
  <<[tipo |-> "TURNO_ENCERRADO", jogador |-> j]>> \o Finalizada
  \o Se(Acordados(jogadores') # {},
        [tipo |-> "TURNO_INICIADO", jogador |-> turno'.ativo, rodada |-> turno'.rodada])

Sorteio ==
  IF Pendentes(tab') \subseteq Pendentes(tab) THEN <<>>
  ELSE <<[tipo |-> "PECA_SORTEADA", pecas |-> Pendentes(tab') \ Pendentes(tab)],
         [tipo |-> "RECEBIMENTO_GERADO", recebidas |-> tab'.recebidas]>>

(* ataque_resolvido, on the board t and the roster js as it strikes.       *)
Ataque(t, js, inicio, decidida) ==
  LET feridos  == Atacados(t, js, inicio, decidida)
      slots    == {[tipo |-> Tipo(m),
                    alcance |-> {j \in DOMAIN js : t.peoes[j] \in CalcularAlcance(t, m)}] :
                     m \in Atacantes(t, inicio, decidida)}
      noAlcance == UNION {s.alcance : s \in slots}
      mudados  == {j \in noAlcance :
                     ~js[j].protegido /\ PercepcaoDe(feridos[j]) # PercepcaoDe(js[j])}
  IN  Se(slots # {},
         [tipo |-> "ATAQUE_RESOLVIDO", atacantes |-> slots,
          atingidos  |-> {j \in noAlcance : ~js[j].protegido},
          protegidos |-> {j \in noAlcance : js[j].protegido},
          estados    |-> [j \in mudados |-> PercepcaoDe(feridos[j])]])

LoteDaSelecao(p) ==
  IF p = tab.manipulacao THEN Finalizada
  ELSE IF p = tab.selecionada THEN <<[tipo |-> "PECA_DESELECIONADA", peca |-> p]>>
  ELSE Finalizada \o <<[tipo |-> "PECA_SELECIONADA", peca |-> p]>>

(* A bot may turn the piece first.                                         *)
LoteDoEncaixe(p) ==
  LET nova  == tab'.posicionadas[p]
      antes == IF EhInicial(p) THEN tab.iniciais[p] ELSE tab.recebidas[p].orientacao
  IN  Se(nova.orientacao # antes,
         [tipo |-> "PECA_GIRADA", peca |-> p, orientacao |-> nova.orientacao])
      \o <<[tipo |-> "PECA_POSICIONADA", peca |-> p, celula |-> nova.celula,
            orientacao |-> nova.orientacao]>>

OrientacaoDe(t, p) ==
  IF p \in Mesa(t) THEN t.posicionadas[p].orientacao
  ELSE IF p \in Pendentes(t) THEN t.recebidas[p].orientacao ELSE t.iniciais[p]

LoteDaVaga(r) ==
  Finalizada \o <<[tipo |-> "VAGA_DA_PECA_RECEBIDA_ESCOLHIDO", peca |-> r,
                   vaga |-> tab'.recebidas[r].vaga, alvo |-> tab'.recebidas[r].alvo]>>

LoteDoPeaoPosicionado(j, p) ==
  LET noLugar == PosicionarPeao(tab, j, p)
      limpo   == AplicarLimpeza(noLugar, Luz(noLugar, jogadores))
  IN  <<[tipo |-> "PEAO_POSICIONADO", peao |-> j, peca |-> p, celula |-> CelulaDe(tab, p)]>>
      \o Sorteio \o Ataque(limpo, jogadores, Nada, p) \o LuzELimpeza

LoteDaPermanencia(j) ==
  <<[tipo |-> "PEAO_PERMANECEU", peao |-> j]>>
  \o Ataque(tab, jogadores, NaPeca(j), NaPeca(j)) \o LuzELimpeza \o Passagem(j)

(* posicao_confirmada carries the Proteção the command leaves behind.      *)
LoteDaConfirmacao(j) ==
  LET p       == NaPeca(j)
      curados == Resgatados(tab, jogadores, p, j)
      resgates == {[tipo |-> "RESGATE_REALIZADO", jogador |-> k, peca |-> p,
                    sanidade |-> curados[k].sanidade, baixa |-> curados[k].baixa] :
                     k \in {x \in DOMAIN jogadores : curados[x] # jogadores[x]}}
  IN  <<[tipo |-> "POSICAO_CONFIRMADA", jogador |-> j, peca |-> p,
         protegido |-> jogadores'[j].protegido]>>
      \o Sorteio \o EmOrdem(resgates)
      \o Ataque(tab, curados, turno.inicio, p) \o LuzELimpeza

LoteDaDesistencia(j) ==
  <<[tipo |-> "DESISTENCIA_REGISTRADA", jogador |-> j, peao |-> j]>> \o LuzELimpeza
  \o (IF j = turno.ativo THEN Passagem(j) ELSE <<>>)

Lote(j, a) ==
  CASE a[1] = "selecionar_peca" -> LoteDaSelecao(a[2])
    [] a[1] = "girar_peca" ->
         <<[tipo |-> "PECA_GIRADA", peca |-> a[2], orientacao |-> OrientacaoDe(tab', a[2])]>>
    [] a[1] = "finalizar_manipulacao" -> Finalizada
    [] a[1] = "posicionar_peca" -> LoteDoEncaixe(a[2])
    [] a[1] = "selecionar_peao" ->
         IF tab.peao = j THEN <<>>
         ELSE Finalizada \o <<[tipo |-> "PEAO_SELECIONADO", peao |-> j]>>
    [] a[1] = "desselecionar_peao" ->
         (IF tab.peao = j THEN Finalizada ELSE <<>>)
         \o <<[tipo |-> "PEAO_DESELECIONADO", peao |-> j]>>
    [] a[1] = "escolher_vaga_da_peca_recebida" -> LoteDaVaga(a[2])
    [] a[1] = "posicionar_peao" -> LoteDoPeaoPosicionado(j, a[2])
    [] a[1] = "mover_peao" ->
         <<[tipo |-> "PEAO_MOVIDO", peao |-> j, de |-> NaPeca(j), para |-> a[2],
            celula |-> CelulaDe(tab, a[2])]>>
    [] a[1] = "atravessar_o_escuro" ->
         IF turno'.atravessou
         THEN <<[tipo |-> "ATRAVESSOU_O_ESCURO", peao |-> j]>> \o Sorteio ELSE <<>>
    [] a[1] = "permanecer" -> LoteDaPermanencia(j)
    [] a[1] = "confirmar_posicao_do_peao" -> LoteDaConfirmacao(j)
    [] a[1] = "encerrar_turno" -> Passagem(j)

-----------------------------------------------------------------------------
(* What the page offers: a set of sequences of commands, one per click.    *)

MinhaVez == espelho.ativo = Eu
MeuPeao  == DonoDe(espelho, Eu)
SobMeuPeao == SobOPeao(espelho, MeuPeao)
NaMesa(k) == k \in DOMAIN espelho.peoes /\ espelho.peoes[k] = Nada
VaziaNoEspelho(c) == PecasEm(espelho, c) = {}
AberturasNoEspelho(p) == BordasAbertas(p, espelho.posicionadas[p].orientacao)
VizinhasNoEspelho(p) ==
  {q \in DOMAIN espelho.posicionadas : \E b \in AberturasNoEspelho(p) :
     /\ espelho.posicionadas[q].celula = Vizinha(espelho.posicionadas[p].celula, b)
     /\ Oposta(b) \in AberturasNoEspelho(q)}

(* peaoDeReferenciaDaSequencia: with pieces pending and no pawn selected,  *)
(* the pawn of whoever's turn it is.                                       *)
PeaoDeReferencia ==
  IF espelho.peao # Nada THEN espelho.peao
  ELSE IF espelho.recebidas = <<>> THEN Nada
  ELSE DonoDe(espelho, espelho.ativo)

ReferenciaEmBaixa ==
  PeaoDeReferencia \in DOMAIN espelho.jogadores /\ espelho.jogadores[PeaoDeReferencia].baixa

SemVaga  == {r \in DOMAIN espelho.recebidas : espelho.recebidas[r].vaga = Nada}
Travadas == {r \in SemVaga : espelho.recebidas[r].alvo # Nada}

(* vagasDisponiveisDoPeao                                                  *)
VagasDoPeao ==
  LET origem == SobOPeao(espelho, PeaoDeReferencia)
      Celula(b) == Vizinha(espelho.posicionadas[origem].celula, b)
  IN  IF origem = Nada THEN {}
      ELSE IF Travadas # {}
      THEN {b \in AberturasNoEspelho(origem) : \E r \in Travadas : Celula(b) = espelho.recebidas[r].alvo}
      ELSE {b \in AberturasNoEspelho(origem) :
              /\ \A r \in DOMAIN espelho.recebidas : espelho.recebidas[r].vaga # b
              /\ VaziaNoEspelho(Celula(b))
              /\ ReferenciaEmBaixa => Celula(b) \notin espelho.iluminadas}

(* The tray offers the first piece that has no edge yet.                   *)
Corrente == CHOOSE r \in SemVaga : \A q \in SemVaga : r[2] <= q[2]

CliquesEmVaga ==
  IF SemVaga = {} \/ (espelho.confirmada /\ ReferenciaEmBaixa) THEN {}
  ELSE {<<<<"escolher_vaga_da_peca_recebida", Corrente, b>>>> : b \in VagasDoPeao}

(* The piece in focus goes to its cell, by a click or by Espaço.           *)
CliquesDeEncaixe ==
  {<<<<"posicionar_peca", r, espelho.recebidas[r].alvo>>>> :
     r \in {q \in DOMAIN espelho.recebidas :
              q = espelho.selecionada /\ espelho.recebidas[q].alvo # Nada
              /\ espelho.recebidas[q].vaga # Nada}}

(* destinosConectadosDoPeao and mapearMovimentacao                         *)
OcupantesNoEspelho(p) ==
  {k \in DOMAIN espelho.peoes : espelho.peoes[k] = espelho.posicionadas[p].celula}
AfetadoNoEspelho(k) ==
  k \in DOMAIN espelho.jogadores /\ Afetado(espelho.jogadores[k])
TetoNoEspelho(p) ==
  LET base == IF EhPortao(p) THEN Menor(Cardinality(DOMAIN espelho.jogadores), 4) ELSE 1
  IN  IF \E k \in OcupantesNoEspelho(p) : AfetadoNoEspelho(k) THEN base + 1 ELSE base
NaZonaDoEspelho(p) ==
  espelho.inicio \in DOMAIN espelho.posicionadas =>
    p \in {espelho.inicio} \cup VizinhasNoEspelho(espelho.inicio)

(* Mutant: after a crossing the page offers every neighbour, not only the  *)
(* piece that was crossed to.                                              *)
BugDestinosDoPeao ==
  {p \in VizinhasNoEspelho(SobOPeao(espelho, espelho.peao)) :
     /\ NaZonaDoEspelho(p)
     /\ ~EhMonstro(p)
     /\ Cardinality(OcupantesNoEspelho(p)) < TetoNoEspelho(p)}

DestinosDoPeao ==
  {p \in VizinhasNoEspelho(SobOPeao(espelho, espelho.peao)) :
     /\ NaZonaDoEspelho(p)
     /\ ~EhMonstro(p)
     /\ Cardinality(OcupantesNoEspelho(p)) < TetoNoEspelho(p)
     /\ espelho.atravessou /\ espelho.travessia # Nada => p = espelho.travessia}

CliquesDeMovimento ==
  IF espelho.confirmada \/ SobOPeao(espelho, espelho.peao) = Nada THEN {}
  ELSE {<<<<"mover_peao", p>>>> : p \in DestinosDoPeao}

CliquesNaInicial ==
  IF ~NaMesa(espelho.peao) THEN {}
  ELSE {<<<<"posicionar_peao", p>>>> : p \in DOMAIN espelho.posicionadas \cap PecasIniciais}

(* mapearTravessiaDoEscuro                                                 *)
CliquesDeTravessia ==
  LET origem == SobOPeao(espelho, espelho.peao)
  IN  IF \/ origem = Nada \/ espelho.atravessou \/ espelho.confirmada
         \/ ~ReferenciaEmBaixa \/ espelho.inicio \notin {Nada, origem} THEN {}
      ELSE {<<<<"atravessar_o_escuro", Vizinha(espelho.posicionadas[origem].celula, b)>>>> :
              b \in VagasDoPeao}

(* fallbackST09ParaCelula: no pawn, no piece pending.                      *)
CliquesDaMesa ==
  {<<<<"selecionar_peca", p>>>> : p \in DOMAIN espelho.posicionadas \cap {espelho.manipulacao}}
  \cup {<<<<"posicionar_peca", p, c>>>> :
          p \in DOMAIN espelho.iniciais \cap {espelho.selecionada},
          c \in {d \in CelulasDeInicio : VaziaNoEspelho(d)}}

CliquesEmCelula ==
  IF espelho.recebidas # <<>> THEN CliquesEmVaga \cup CliquesDeEncaixe
  ELSE IF espelho.peao # Nada
  THEN CliquesDeMovimento \cup CliquesNaInicial \cup CliquesDeTravessia
  ELSE IF espelho.confirmada THEN {} ELSE CliquesDaMesa

(* Only the pawn and the Inicial of the Player: the page lets one click on *)
(* those of the others too, and the server refuses.                        *)
CliquesNoPeao ==
  IF espelho.recebidas # <<>> \/ MeuPeao = Nada THEN {}
  ELSE IF espelho.peao = MeuPeao THEN {<<<<"desselecionar_peao">>>>}
  ELSE IF NaMesa(MeuPeao) /\ <<"inicial", MeuPeao>> \notin DOMAIN espelho.posicionadas THEN {}
  ELSE {<<<<"selecionar_peao">>>>}

CliquesNaPecaDaMesa ==
  IF espelho.recebidas # <<>> \/ espelho.confirmada THEN {}
  ELSE {<<<<"selecionar_peca", p>>>> : p \in DOMAIN espelho.iniciais \cap {<<"inicial", Eu>>}}

(* The keys R and E turn the piece that is being turned, else the selected *)
(* one, unless it is open on all sides.                                    *)
(* Mutant: only a placed piece is turned.                                  *)
BugAlvoDeGiro == espelho.manipulacao

AlvoDeGiro == IF espelho.manipulacao # Nada THEN espelho.manipulacao ELSE espelho.selecionada
Teclas ==
  (IF AlvoDeGiro = Nada THEN {}
   ELSE IF ~EhInicial(AlvoDeGiro) /\ Tipo(AlvoDeGiro) = "cruz" THEN {}
   ELSE {<<<<"girar_peca", AlvoDeGiro, passo>>>> : passo \in Giros})
  \cup (IF espelho.manipulacao = Nada THEN CliquesDeEncaixe ELSE {<<<<"finalizar_manipulacao">>>>})

(* faseDoTurno: which button the turn shows.                               *)
FaseDoTurno ==
  IF espelho.confirmada THEN "encerrar"
  ELSE IF espelho.rodada = 1
  THEN IF MeuPeao # Nada /\ ~NaMesa(MeuPeao) /\ espelho.recebidas = <<>> THEN "encerrar" ELSE Nada
  ELSE IF espelho.recebidas # <<>> THEN Nada
  ELSE IF espelho.atravessou
  THEN IF espelho.travessia \in DOMAIN espelho.posicionadas /\ EhMonstro(espelho.travessia)
       THEN "permanecer"
       ELSE IF espelho.travessia # Nada /\ SobMeuPeao = espelho.travessia THEN "confirmar" ELSE Nada
  ELSE IF espelho.movimentou /\ (espelho.inicio = Nada \/ SobMeuPeao # espelho.inicio)
  THEN "confirmar" ELSE "permanecer"

ComSelecaoAntes(comando) ==
  IF espelho.peao = MeuPeao THEN <<comando>> ELSE <<<<"selecionar_peao">>, comando>>

BotaoDoTurno ==
  CASE FaseDoTurno = "encerrar" -> {<<<<"encerrar_turno">>>>}
    [] FaseDoTurno = "confirmar" -> {<<<<"confirmar_posicao_do_peao">>>>}
    [] FaseDoTurno = "permanecer" -> {ComSelecaoAntes(<<"permanecer">>)}
    [] OTHER -> {}

Ofertas ==
  IF ~MinhaVez THEN {}
  ELSE CliquesEmCelula \cup CliquesNoPeao \cup CliquesNaPecaDaMesa \cup Teclas \cup BotaoDoTurno

-----------------------------------------------------------------------------
(* What the page does by itself.                                           *)

(* bordaDaTravessiaPendente: the piece of a crossing has one edge to go    *)
(* to; the page chooses it as soon as it sees it, once (escolha).          *)
EscolhaAutomatica(e, c) ==
  LET travadas == {r \in DOMAIN e.recebidas :
                     e.recebidas[r].vaga = Nada /\ e.recebidas[r].alvo # Nada}
      origem   == SobOPeao(e, IF e.peao # Nada THEN e.peao ELSE DonoDe(e, e.ativo))
  IN  {x \in travadas \X Bordas :
         /\ e.ativo = Eu /\ ~e.confirmada /\ origem # Nada
         /\ x[1] # c.escolha
         /\ x[2] \in BordasAbertas(origem, e.posicionadas[origem].orientacao)
         /\ Vizinha(e.posicionadas[origem].celula, x[2]) = e.recebidas[x[1]].alvo}

(* The chain after a lot: mirror before and after, refs, and the command   *)
(* that was answered.  What it sends goes after what is under way.         *)
Selecionando(e) == IF e.peao = Eu THEN <<>> ELSE <<<<"selecionar_peao">>>>

AposEncaixe(antes, e, c, p) ==
  LET naVez == e.atravessou /\ ~e.confirmada /\ e.ativo = Eu
      fecha == <<<<"finalizar_manipulacao">>>>
  IN  IF p \notin DOMAIN antes.recebidas THEN [cadeia |-> c, envia |-> <<>>]
      ELSE IF naVez /\ ~EhMonstro(p) /\ c.mover # p
      THEN [cadeia |-> [c EXCEPT !.mover = p],
            envia  |-> fecha \o Selecionando(e) \o <<<<"mover_peao", p>>>>]
      ELSE IF naVez /\ EhMonstro(p) /\ c.permanecer # p
      THEN [cadeia |-> [c EXCEPT !.permanecer = p],
            envia  |-> fecha \o Selecionando(e) \o <<<<"permanecer">>>>]
      ELSE [cadeia |-> c, envia |-> IF e.ativo = Eu THEN fecha ELSE <<>>]

(* Mutant: nothing follows the movement.                                   *)
BugAposMovimento(e, c, p) == [cadeia |-> c, envia |-> <<>>]

AposMovimento(e, c, p) ==
  IF c.mover = p /\ ~c.confirmar /\ ~e.confirmada /\ e.ativo = Eu
  THEN [cadeia |-> [c EXCEPT !.confirmar = TRUE], envia |-> <<<<"confirmar_posicao_do_peao">>>>]
  ELSE [cadeia |-> c, envia |-> <<>>]

AposConfirmacao(e, c) ==
  IF c.confirmar /\ ~c.encerrar /\ e.ativo = Eu
  THEN [cadeia |-> [c EXCEPT !.encerrar = TRUE], envia |-> <<<<"encerrar_turno">>>>]
  ELSE [cadeia |-> c, envia |-> <<>>]

Reacao(antes, e, c, a) ==
  CASE a[1] = "posicionar_peca" -> AposEncaixe(antes, e, c, a[2])
    [] a[1] = "mover_peao" -> AposMovimento(e, c, a[2])
    [] a[1] = "confirmar_posicao_do_peao" -> AposConfirmacao(e, c)
    [] a[1] \in {"permanecer", "encerrar_turno", "desistir"} ->
         [cadeia |-> IF e.ativo # antes.ativo \/ e.rodada # antes.rodada THEN SemCadeia ELSE c,
          envia |-> <<>>]
    [] OTHER -> [cadeia |-> c, envia |-> <<>>]

ComEscolha(reacao, e, fila) ==
  LET escolhas == EscolhaAutomatica(e, reacao.cadeia)
      x        == CHOOSE y \in escolhas : TRUE
  IN  IF escolhas = {}
      THEN cadeia' = reacao.cadeia /\ pedidos' = fila \o reacao.envia
      ELSE /\ cadeia' = [reacao.cadeia EXCEPT !.escolha = x[1]]
           /\ pedidos' = fila \o reacao.envia
                         \o <<<<"escolher_vaga_da_peca_recebida", x[1], x[2]>>>>

(* The page reduces the lot, then its chain and its effect react; the      *)
(* events of a lot that finds no socket are lost.                          *)
Receber(lote, a, fila) ==
  /\ IF conectado
     THEN /\ espelho' = ReduzirEventos(espelho, lote)
          /\ ComEscolha(Reacao(espelho, espelho', cadeia, a), espelho', fila)
     ELSE pedidos' = fila /\ UNCHANGED <<espelho, cadeia>>
  /\ UNCHANGED <<conectado, quedas>>

-----------------------------------------------------------------------------
(* The commands of the page at the server.                                 *)

AceitaComando(j, a) ==
  CASE a[1] = "desselecionar_peao" -> DaVez(j) /\ PodeDesselecionarPeao(tab, j)
    [] a[1] = "finalizar_manipulacao" -> DaVez(j) /\ tab.manipulacao # Nada
    [] OTHER -> Aceita(j, a)

ExecutaComando(j, a) ==
  \/ /\ a[1] = "posicionar_peca"
     /\ PosicionarAInicial(j, a[2], a[3]) \/ PosicionarARecebida(j, a[2], a[3])
  \/ a[1] = "desselecionar_peao" /\ DesselecionarOPeao(j)
  \/ a[1] = "finalizar_manipulacao" /\ FinalizarManipulacao(j)
  \/ a[1] # "posicionar_peca" /\ Executa(j, a)

AceitaDoCliente(a)  == AceitaComando(Eu, a)
ExecutaDoCliente(a) == ExecutaComando(Eu, a) /\ UNCHANGED passos

(* A refused command is answered by an ERRO, which changes nothing here.   *)
Atender ==
  LET a == Head(pedidos)
  IN  /\ resultado = Nada /\ conectado /\ pedidos # <<>>
      /\ IF AceitaDoCliente(a)
         THEN /\ ExecutaDoCliente(a)
              /\ \E lote \in {Lote(Eu, a)} : Receber(lote, a, Tail(pedidos))
         ELSE /\ pedidos' = Tail(pedidos)
              /\ UNCHANGED <<vars, espelho, cadeia, conectado, quedas>>

(* Bound: a click waits until what was sent is answered; the chain does not*)
(* wait.                                                                   *)
Clicar ==
  /\ resultado = Nada /\ conectado /\ pedidos = <<>>
  /\ \E oferta \in Ofertas : pedidos' = oferta
  /\ UNCHANGED <<vars, espelho, cadeia, conectado, quedas>>

DesistenciaVista(j) ==
  /\ Desistir(j)
  /\ UNCHANGED passos
  /\ Receber(LoteDaDesistencia(j), <<"desistir">>, pedidos)

(* The socket drops: what was sent is lost, or the server still handles the*)
(* first command and the answer is.  A click made offline is kept for the  *)
(* next socket (comandosPendentesRef).  Of the mirror, the next snapshot   *)
(* reads LembradoDe only.  Bound: it drops in the turn of Eu, in the first *)
(* one while its Peça Inicial is picked.                                   *)
LembradoDe(e) == [iniciais |-> e.iniciais, conhecidas |-> e.conhecidas, movimentou |-> e.movimentou]

Cair ==
  /\ DaVez(Eu) /\ conectado /\ quedas < Quedas
  /\ jogadores[Eu].primeiroTurno => tab.selecionada \in PecasIniciais
  /\ \/ UNCHANGED vars
     \/ pedidos # <<>> /\ AceitaDoCliente(Head(pedidos)) /\ ExecutaDoCliente(Head(pedidos))
  /\ conectado' = FALSE /\ quedas' = quedas + 1
  /\ pedidos' \in {<<>>} \cup (IF jogadores[Eu].primeiroTurno THEN {} ELSE Ofertas)
  /\ espelho' = LembradoDe(espelho)
  /\ UNCHANGED cadeia

(* The resumption of a crossing, on ESTADO_DA_PARTIDA: what the refs say   *)
(* was sent already is not sent again.                                     *)
Retomada(c) ==
  LET p == turno.travessia
      Antes(comando) == (IF tab.peao = Eu THEN <<>> ELSE <<<<"selecionar_peao">>>>) \o <<comando>>
  IN  IF turno.ativo # Eu \/ ~turno.atravessou \/ p = Nada THEN <<>>
      ELSE IF TravessiaEmMonstro
      THEN IF c.permanecer = p THEN <<>> ELSE Antes(<<"permanecer">>)
      ELSE IF turno.confirmada
      THEN IF c.encerrar THEN <<>> ELSE <<<<"encerrar_turno">>>>
      ELSE IF NaPeca(Eu) = p
      THEN IF c.confirmar THEN <<>> ELSE <<<<"confirmar_posicao_do_peao">>>>
      ELSE IF p \notin Mesa(tab) \/ c.mover = p THEN <<>> ELSE Antes(<<"mover_peao", p>>)

(* An admission: the snapshot, then the turn announced again, which clears *)
(* the refs.  The effect that chooses the edge runs before or after that.  *)
Hidratar(e, c, fila) ==
  /\ ~conectado /\ resultado = Nada
  /\ conectado' = TRUE
  /\ espelho' = TurnoIniciado(AplicarSnapshot(e),
                              [jogador |-> turno.ativo, rodada |-> turno.rodada])
  /\ \E vista \in {c, SemCadeia} :
       LET escolhas == EscolhaAutomatica(espelho', vista)
           x        == CHOOSE y \in escolhas : TRUE
           escolhe  == {<<"escolher_vaga_da_peca_recebida", y[1], y[2]>> : y \in escolhas}
       IN  /\ cadeia' = [SemCadeia EXCEPT
                           !.escolha = IF escolhas # {} /\ vista = SemCadeia THEN x[1] ELSE Nada]
           /\ pedidos' = fila \o Retomada(c) \o EmOrdem(escolhe)
  /\ UNCHANGED <<vars, quedas>>

Religar    == Hidratar(espelho, cadeia, pedidos)
Recarregar == Hidratar(SemFoto, SemCadeia, <<>>)

InitDoCliente ==
  /\ InitComBots
  /\ espelho = AplicarSnapshot(SemFoto)
  /\ pedidos = <<>> /\ cadeia = SemCadeia
  /\ conectado = TRUE /\ quedas = 0

-----------------------------------------------------------------------------
(* Properties.                                                             *)

(***************************************************************************)
(* The mirror is the server: while nobody gave the match up, what the page *)
(* shows after any sequence of lots, reloads and reconnections is what a   *)
(* photo taken now would show.  Not the movement and the pieces it learnt  *)
(* (the photo has neither), and not Proteção (EspelhoProtecao).            *)
(***************************************************************************)
Visivel(e) == [e EXCEPT !.movimentou = FALSE, !.conhecidas = {}, !.peao = Nada,
                        !.jogadores = [j \in DOMAIN @ |-> [@[j] EXCEPT !.protegido = FALSE]]]

EspelhoFiel ==
  resultado = Nada /\ conectado /\ ElencoCompleto =>
    /\ Visivel(espelho) = Visivel(AplicarSnapshot(espelho))
    /\ espelho.peao \in {Nada, tab.peao}

(***************************************************************************)
(* What the page offers, the server takes.                                 *)
(***************************************************************************)
Parado == resultado = Nada /\ conectado /\ pedidos = <<>> /\ turno.ativo = Eu
Aceitavel(oferta) == AceitaDoCliente(oferta[1]) /\ AceitaDoCliente(oferta[Len(oferta)])

(* The page leaves to the server: a second edge while a piece has one, a   *)
(* piece that is not connected in the orientation it has, the button that  *)
(* ends the turn, which shows over pending pieces too, a turn of a piece   *)
(* that would close its connection, Permanecer after a reload in the middle*)
(* of a movement (FaseMantida), and on a piece in its graça, of which the  *)
(* wire says nothing.                                                      *)
DeixadaAoServidor(a) ==
  \/ a[1] = "encerrar_turno" /\ tab.recebidas # <<>>
  \/ a[1] = "girar_peca" /\ a[2] \in Mesa(tab)
  \/ a[1] = "permanecer" /\ ~espelho.movimentou /\ NaPeca(Eu) # turno.inicio
  \/ a[1] = "permanecer" /\ NaPeca(Eu) \in graca
  \/ a[1] = "escolher_vaga_da_peca_recebida" /\ Fixadas # {}
  \/ a[1] = "posicionar_peca" /\ ~EhInicial(a[2]) /\ ~Conecta(tab, a[2])

OfertaAceita ==
  Parado /\ ElencoCompleto /\ ~jogadores[Eu].primeiroTurno =>
    \A oferta \in Ofertas : DeixadaAoServidor(oferta[Len(oferta)]) \/ Aceitavel(oferta)

(***************************************************************************)
(* snapshot.ts:211: a resynchronisation in the middle of the turn does not *)
(* lose the phase: whoever moved and may confirm is offered to confirm.    *)
(***************************************************************************)
FaseMantida ==
  Parado /\ PodeConfirmar(Eu) /\ ~turno.atravessou /\ NaPeca(Eu) # turno.inicio =>
    FaseDoTurno = "confirmar"

(***************************************************************************)
(* The chain of a crossing (PartidaPage.tsx, the acks of MOVER_PEAO,       *)
(* CONFIRMAR and PERMANECER) goes on by itself: once its piece is on the   *)
(* board, a page that was not cut off is never idle before the end of the  *)
(* turn, but for the Permanência a graça refuses.  After a fall the chain  *)
(* that the snapshot resumes (:859) may stop, since the TURNO_INICIADO that*)
(* follows the snapshot clears what it sent (:708): then the page offers   *)
(* by hand a command that goes on, and the server takes it.                *)
(***************************************************************************)
CadeiaNaoPara == ~(Parado /\ turno.atravessou /\ turno.travessia \in Mesa(tab))
SegueAMao ==
  \/ <<<<"selecionar_peao">>>> \in Ofertas /\ tab.peao # Eu
  \/ \E oferta \in Ofertas :
       /\ oferta[Len(oferta)][1] \in {"mover_peao", "confirmar_posicao_do_peao",
                                     "permanecer", "encerrar_turno"}
       /\ Aceitavel(oferta)
CadeiaAoVivo ==
  CadeiaNaoPara \/ PresoNaGraca(Eu) \/ (quedas > 0 /\ SegueAMao)

(***************************************************************************)
(* The page never leaves its Player without a way to go on: a decision it  *)
(* offers is accepted, or the pawn can be selected, which the mirror will  *)
(* show; but for a pawn shut in on a piece in its graça: the server would  *)
(* take the Confirmação, which the page offers only after a movement.      *)
(***************************************************************************)
Decisivo(a) ==
  \/ a[1] \notin {"selecionar_peca", "selecionar_peao", "desselecionar_peao",
                 "girar_peca", "finalizar_manipulacao"}
  \/ a[1] = "girar_peca" /\ a[2] \in Pendentes(tab)

UiTemSaida ==
  Parado /\ ElencoCompleto /\ ~jogadores[Eu].primeiroTurno =>
    \/ \E oferta \in Ofertas : Decisivo(oferta[Len(oferta)]) /\ Aceitavel(oferta)
    \/ tab.peao # Eu /\ <<<<"selecionar_peao">>>> \in Ofertas /\ MovimentoAberto(Eu)
    \/ NaPeca(Eu) \in graca /\ ~MovimentoAberto(Eu)

=============================================================================
