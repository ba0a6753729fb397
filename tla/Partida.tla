------------------------------- MODULE Partida -------------------------------
(***************************************************************************)
(* A match: packages/engine/src/partida.ts, aplicarComandoDePartida, over  *)
(* the board of Tabuleiro.  One action per command; a command the code     *)
(* rejects is a stuttering step.  The Players are 1..N, in the order of    *)
(* entry.  The order in which the functions of the code cure, draw, attack,*)
(* light and clean is the order of the LETs.  Left out: colours, texts,    *)
(* peoesNoAlcance (no rule reads it).                                      *)
(*                                                                         *)
(* A Pode... operator is what the code accepts, the action of the same     *)
(* name what it does then.                                                 *)
(***************************************************************************)
EXTENDS Tabuleiro

CONSTANTS
  NumeroDeJogadores,      (* 2 to 4                                        *)
  Caixas,                 (* the shuffles of the Caixa to explore          *)
  SanidadeMaxima,         (* 3 in the code                                 *)
  GeradoresNecessarios,   (* 3 in the code                                 *)
  CelulasDeInicio,        (* bound: cells tried for a Peça Inicial         *)
  Giros,                  (* bound: turns tried, {Horario, AntiHorario}    *)
  Desistentes,            (* bound: Players who may give the match up      *)
  RodadaMaxima            (* bound: the match is followed up to this round *)

ASSUME PartidaAssumption ==
  /\ NumeroDeJogadores \in 2..4
  /\ \A c \in Caixas : /\ c \in Seq(PecasDaCaixa)
                        /\ \A i, k \in DOMAIN c : i # k => c[i] # c[k]
  /\ SanidadeMaxima \in Nat \ {0} /\ GeradoresNecessarios \in Nat
  /\ CelulasDeInicio \subseteq Celulas
  /\ Giros \subseteq {Horario, AntiHorario}
  /\ Desistentes \subseteq 1..NumeroDeJogadores
  /\ RodadaMaxima \in Nat \ {0}
  /\ Nada \notin 1..NumeroDeJogadores
  /\ Nada \notin {"vitoria", "desistencia", "equipe_amedrontada", "caixa_esgotada"}

VARIABLES
  tab,          (* tabuleiro                                               *)
  jogadores,    (* the living roster                                       *)
  turno,        (* jogadorAtivoId, rodada, pecaDoInicioDoTurnoId,          *)
                (* posicaoConfirmada, atravessouNoTurno, pecaDaTravessiaId *)
  iluminadas,   (* celulasIluminadas, as of the last definitive point      *)
  graca,        (* pecasEmPeriodoDeGraca                                   *)
  geradores,    (* geradoresLigados                                        *)
  cartao,       (* cartaoDeAcessoObtido                                    *)
  resultado

varsDaPartida ==
  <<tab, jogadores, turno, iluminadas, graca, geradores, cartao, resultado>>

Jogadores == 1..NumeroDeJogadores
Desfechos == {"vitoria", "desistencia", "equipe_amedrontada", "caixa_esgotada"}

Jogador == [primeiroTurno: BOOLEAN, sanidade: 0..SanidadeMaxima, protegido: BOOLEAN,
            baixa: BOOLEAN, amedrontado: BOOLEAN]
Turno == [ativo: Jogadores, rodada: 1..RodadaMaxima, inicio: Pecas \cup {Nada},
          confirmada: BOOLEAN, atravessou: BOOLEAN, travessia: Pecas \cup {Nada}]

Init ==
  /\ \E c \in Caixas : tab = TabuleiroInicial(Jogadores, c)
  /\ jogadores = [j \in Jogadores |->
                    [primeiroTurno |-> TRUE, sanidade |-> SanidadeMaxima,
                     protegido |-> FALSE, baixa |-> FALSE, amedrontado |-> FALSE]]
  /\ turno = [ativo |-> 1, rodada |-> 1, inicio |-> Nada,
              confirmada |-> FALSE, atravessou |-> FALSE, travessia |-> Nada]
  /\ iluminadas = {}
  /\ graca = {}
  /\ geradores = {}
  /\ cartao = FALSE
  /\ resultado = Nada

-----------------------------------------------------------------------------
(* What the handlers share.                                                *)

EmBaixa(js) == {j \in DOMAIN js : js[j].baixa}
Afetado(s)  == s.baixa \/ s.amedrontado
Luz(t, js)  == CalcularIluminacao(t, EmBaixa(js))

(* adotarSelecaoDoAtor                                                     *)
ComSelecao(t, j) == IF t.peao = Nada THEN [t EXCEPT !.peao = j] ELSE t
Adotada(t, j)    == IF t.recebidas = <<>> THEN t ELSE ComSelecao(t, j)

AposEspectro(s) ==
  IF s.amedrontado \/ s.sanidade = 0 THEN [s EXCEPT !.amedrontado = TRUE]
  ELSE [s EXCEPT !.sanidade = @ - 1, !.amedrontado = s.sanidade = 1]

(* resolverAtaqueNoGatilho: Proteção is spent and spares its owner.        *)
Atacados(t, js, inicio, decidida) ==
  LET atacantes    == Atacantes(t, inicio, decidida)
      Alvos(tipo)  == {j \in DOMAIN js : \E m \in atacantes :
                         Tipo(m) = tipo /\ t.peoes[j] \in CalcularAlcance(t, m)}
      peloVulto    == Alvos("vulto")
      peloEspectro == Alvos("espectro")
      ComVulto(j)  == IF j \in peloVulto THEN [js[j] EXCEPT !.baixa = TRUE] ELSE js[j]
  IN  [j \in DOMAIN js |->
         IF js[j].protegido
         THEN [js[j] EXCEPT !.protegido = j \notin peloVulto \cup peloEspectro]
         ELSE IF j \in peloEspectro THEN AposEspectro(ComVulto(j))
         ELSE ComVulto(j)]

(* reaplicarIluminacaoSeBaixaNova: light and cleaning once more when the   *)
(* attack darkened somebody, else what there was.                          *)
(* Mutant: nobody looks whether the attack darkened somebody.              *)
BugHouveBaixaNova(antes, depois) == FALSE

HouveBaixaNova(antes, depois) == ~(EmBaixa(depois) \subseteq EmBaixa(antes))
LuzReaplicada(t, antes, depois, luz) ==
  IF HouveBaixaNova(antes, depois) THEN Luz(t, depois) ELSE luz
MesaReaplicada(t, antes, depois) ==
  IF HouveBaixaNova(antes, depois) THEN AplicarLimpeza(t, Luz(t, depois)) ELSE t

(* Whoever the attack darkens gives back the pieces drawn in this command. *)
(* Mutant: the hand keeps them.                                            *)
BugDevolvida(t, j, feridos) ==
  IF feridos[j].baixa /\ ~jogadores[j].baixa THEN [t EXCEPT !.caixa = tab.caixa] ELSE t

Devolvida(t, j, feridos) ==
  IF feridos[j].baixa /\ ~jogadores[j].baixa
  THEN [t EXCEPT !.caixa = tab.caixa, !.recebidas = <<>>] ELSE t

(* resgatarNaPeca                                                          *)
(* Mutant: the rescued Player wakes up without sanity.                     *)
BugResgatado(s, acendeVela) == [s EXCEPT !.baixa = @ /\ ~acendeVela, !.amedrontado = FALSE]

Resgatado(s, acendeVela) ==
  [s EXCEPT !.baixa = @ /\ ~acendeVela,
            !.amedrontado = FALSE,
            !.sanidade = IF s.amedrontado THEN Menor(SanidadeMaxima, @ + 2) ELSE @]
Resgatados(t, js, p, salvador) ==
  [j \in DOMAIN js |->
     IF j # salvador /\ t.peoes[j] = p /\ Afetado(js[j])
     THEN Resgatado(js[j], ~js[salvador].baixa) ELSE js[j]]

(* Mutant: the tolerance for an affected Player is given to everyone.      *)
BugTetoOcupacao(t, js, p) ==
  (IF EhPortao(p) THEN Menor(Cardinality(DOMAIN js), 4) ELSE 1) + 1

TetoOcupacao(t, js, p) ==
  LET base == IF EhPortao(p) THEN Menor(Cardinality(DOMAIN js), 4) ELSE 1
  IN  IF \E j \in Ocupantes(t, p) : Afetado(js[j]) THEN base + 1 ELSE base

(* The turn of the next Player who is not frightened, after j in the order *)
(* (who may have left): avancarVez, and the end of desistirDaPartida.      *)
Distancia(de, para) == IF para > de THEN para - de ELSE para - de + NumeroDeJogadores
Acordados(js) == {j \in DOMAIN js : ~js[j].amedrontado}

(* Mutant: the frightened are not skipped.                                 *)
BugProximo(js, j) ==
  CHOOSE k \in DOMAIN js : \A outro \in DOMAIN js : Distancia(j, k) <= Distancia(j, outro)

Proximo(js, j) ==
  IF Acordados(js) = {}
  THEN CHOOSE k \in DOMAIN js : \A outro \in DOMAIN js : k <= outro
  ELSE CHOOSE k \in Acordados(js) :
         \A outro \in Acordados(js) : Distancia(j, k) <= Distancia(j, outro)

TurnoApos(t, js, j) ==
  LET k == Proximo(js, j)
  IN  [ativo |-> k,
       rodada |-> IF Acordados(js) # {} /\ k <= j THEN turno.rodada + 1 ELSE turno.rodada,
       inicio |-> t.peoes[k],
       confirmada |-> FALSE, atravessou |-> FALSE, travessia |-> Nada]

-----------------------------------------------------------------------------
(* avaliarTerminoDaPartida, after every accepted command.                  *)

EquipeVenceu(t, js, ligados, obtido) ==
  /\ Cardinality(ligados) >= GeradoresNecessarios
  /\ obtido
  /\ \E p \in Mesa(t) : EhPortao(p) /\ \A j \in DOMAIN js : t.peoes[j] = p

CaixaEsgotada(t, ligados, obtido) ==
  LET disponiveis == Mesa(t) \cup Pendentes(t)
      DoTipo(tipo) == {p \in disponiveis : Tipo(p) = tipo}
  IN  /\ t.caixa = <<>>
      /\ \/ Cardinality(DoTipo("gerador") \ ligados)
              < GeradoresNecessarios - Cardinality(ligados)
         \/ ~obtido /\ DoTipo("sala_do_diretor") = {}
         \/ DoTipo("portao_de_saida") = {}

Desfecho(t, js, ligados, obtido) ==
  IF Cardinality(DOMAIN js) <= 1 THEN "desistencia"
  ELSE IF EquipeVenceu(t, js, ligados, obtido) THEN "vitoria"
  ELSE IF \A j \in DOMAIN js : js[j].sanidade = 0 THEN "equipe_amedrontada"
  ELSE IF CaixaEsgotada(t, ligados, obtido) THEN "caixa_esgotada"
  ELSE Nada

AvaliarTermino == resultado' = Desfecho(tab', jogadores', geradores', cartao')

(* A command that changes the board only.                                  *)
DelegarAoTabuleiro(t) ==
  /\ tab' = t
  /\ UNCHANGED <<jogadores, turno, iluminadas, graca, geradores, cartao>>
  /\ AvaliarTermino

DaVez(j) == resultado = Nada /\ j = turno.ativo
NaPeca(j) == tab.peoes[j]

-----------------------------------------------------------------------------
(* Commands that the board decides.                                        *)

(* exigirPecaInicialDisponivel                                             *)
InicialDisponivel(j, p) ==
  EhInicial(p) /\ p \in DOMAIN tab.iniciais \cup Mesa(tab)
    => jogadores[j].primeiroTurno /\ p = <<"inicial", j>>

PodeSelecionarAPeca(j, p) ==
  DaVez(j) /\ InicialDisponivel(j, p) /\ PodeSelecionarPeca(tab, p)
SelecionarAPeca(j, p) ==
  PodeSelecionarAPeca(j, p) /\ DelegarAoTabuleiro(SelecionarPeca(tab, p))

PodeGirarAPeca(j, p, passo) == DaVez(j) /\ PodeGirarPeca(tab, p, passo)
GirarAPeca(j, p, passo) ==
  /\ PodeGirarAPeca(j, p, passo)
  /\ DelegarAoTabuleiro(
       GirarPeca(IF p \in Pendentes(tab) THEN Adotada(tab, j) ELSE tab, p, passo))

FinalizarManipulacao(j) ==
  /\ DaVez(j) /\ tab.manipulacao # Nada
  /\ DelegarAoTabuleiro([tab EXCEPT !.manipulacao = Nada])

PodeSelecionarOPeao(j) == DaVez(j) /\ PodeSelecionarPeao(tab, j)
SelecionarOPeao(j) == PodeSelecionarOPeao(j) /\ DelegarAoTabuleiro(SelecionarPeao(tab, j))

DesselecionarOPeao(j) ==
  DaVez(j) /\ PodeDesselecionarPeao(tab, j) /\ DelegarAoTabuleiro(DesselecionarPeao(tab, j))

PodePosicionarAInicial(j, p, c) ==
  DaVez(j) /\ InicialDisponivel(j, p) /\ PodePosicionarInicial(tab, p, c)
PosicionarAInicial(j, p, c) ==
  PodePosicionarAInicial(j, p, c) /\ DelegarAoTabuleiro(PosicionarInicial(tab, p, c))

(* posicionarPecaDaPartida: the piece of the Travessia is remembered.      *)
PodePosicionarARecebida(j, p, c) ==
  DaVez(j) /\ PodePosicionarRecebida(Adotada(tab, j), p, c)
PosicionarARecebida(j, p, c) ==
  /\ PodePosicionarARecebida(j, p, c)
  /\ tab' = PosicionarRecebida(Adotada(tab, j), p, c)
  /\ turno' = IF turno.atravessou THEN [turno EXCEPT !.travessia = p] ELSE turno
  /\ UNCHANGED <<jogadores, iluminadas, graca, geradores, cartao>>
  /\ AvaliarTermino

(* escolherVagaDaPecaRecebidaDaPartida: in Baixa the locked cell, or else  *)
(* a cell the last definitive point left dark.                             *)
VagaPermitida(j, r, b) ==
  jogadores[j].baixa =>
    LET celula == Vizinha(CelulaDe(tab, NaPeca(j)), b)
    IN  IF tab.recebidas[r].alvo # Nada THEN celula = tab.recebidas[r].alvo
        ELSE celula \notin iluminadas
PodeEscolherAVaga(j, r, b) ==
  DaVez(j) /\ PodeEscolherVaga(Adotada(tab, j), r, b) /\ VagaPermitida(j, r, b)
EscolherAVaga(j, r, b) ==
  PodeEscolherAVaga(j, r, b) /\ DelegarAoTabuleiro(EscolherVaga(Adotada(tab, j), r, b))

-----------------------------------------------------------------------------
(* The pawn on the board for the first time: drawing, cleaning, attack.    *)

PodePosicionarOPeao(j, p) ==
  DaVez(j) /\ jogadores[j].primeiroTurno /\ PodePosicionarPeao(tab, j, p)

PosicionarOPeao(j, p) ==
  LET noLugar  == PosicionarPeao(tab, j, p)
      sorteado == [GerarRecebidas(noLugar, p, jogadores[j].baixa, Luz(noLugar, jogadores), Nada)
                     EXCEPT !.peao = j]
      limpo    == AplicarLimpeza(sorteado, Luz(sorteado, jogadores))
  IN  /\ PodePosicionarOPeao(j, p)
      /\ \E feridos \in {Atacados(limpo, jogadores, Nada, p)} :
           /\ jogadores' = feridos
           /\ tab' = Devolvida(MesaReaplicada(limpo, jogadores, feridos), j, feridos)
           /\ iluminadas' = LuzReaplicada(limpo, jogadores, feridos, Luz(sorteado, jogadores))
      /\ UNCHANGED <<turno, graca, geradores, cartao>>
      /\ AvaliarTermino

-----------------------------------------------------------------------------
(* The turn of a pawn that is on the board.                                *)

SemPassoDefinitivo(j) ==
  DaVez(j) /\ ~jogadores[j].primeiroTurno /\ ~turno.confirmada

(* Mutant: the zone of the turn is not checked.                            *)
BugNaZona(p) == TRUE

(* One house per turn: the piece the turn began on and what is connected.  *)
NaZona(p) ==
  IF turno.atravessou THEN turno.travessia \in {Nada, p}
  ELSE turno.inicio \in Mesa(tab) =>
         p \in {turno.inicio} \cup VizinhasConectadas(tab, turno.inicio)

PodeMoverOPeao(j, p) ==
  /\ SemPassoDefinitivo(j)
  /\ PodeMoverPeao(tab, j, p)
  /\ Cardinality(Ocupantes(tab, p)) < TetoOcupacao(tab, jogadores, p)
  /\ NaZona(p)

(* Mutant: leaving a piece does not release its graça.                     *)
BugMoverOPeao(j, p) ==
  /\ PodeMoverOPeao(j, p)
  /\ tab' = MoverPeao(tab, j, p)
  /\ graca' = graca \cap Mesa(tab)
  /\ UNCHANGED <<jogadores, turno, iluminadas, geradores, cartao>>
  /\ AvaliarTermino

MoverOPeao(j, p) ==
  /\ PodeMoverOPeao(j, p)
  /\ tab' = MoverPeao(tab, j, p)
  /\ graca' = (graca \ {NaPeca(j)}) \cap Mesa(tab)
  /\ UNCHANGED <<jogadores, turno, iluminadas, geradores, cartao>>
  /\ AvaliarTermino

(* atravessarOEscuroDaPartida: one piece is drawn for a dark cell.  With an*)
(* empty Caixa nothing is, and the crossing does not count.                *)
PodeAtravessar(j, c) ==
  /\ SemPassoDefinitivo(j)
  /\ jogadores[j].baixa /\ ~turno.atravessou
  /\ tab.peao \in {Nada, j}
  /\ NaPeca(j) \in Mesa(tab)
  /\ turno.inicio \in {Nada, NaPeca(j)}
  /\ \E b \in VagasDisponiveis(tab, NaPeca(j)) : c = Vizinha(CelulaDe(tab, NaPeca(j)), b)
  /\ c \notin Luz(tab, jogadores)

AtravessarOEscuro(j, c) ==
  /\ PodeAtravessar(j, c)
  /\ tab' = ComSelecao(GerarRecebidas(tab, NaPeca(j), TRUE, Luz(tab, jogadores), c), j)
  /\ turno' = [turno EXCEPT !.atravessou = tab'.recebidas # <<>>]
  /\ UNCHANGED <<jogadores, iluminadas, graca, geradores, cartao>>
  /\ AvaliarTermino

(* Mutant: nobody thinks of the crossing that drew a monster.              *)
BugTravessiaEmMonstro == FALSE

TravessiaEmMonstro ==
  turno.atravessou /\ turno.travessia \in Mesa(tab) /\ EhMonstro(turno.travessia)

PodePermanecerNaPeca(j) ==
  /\ SemPassoDefinitivo(j)
  /\ NaPeca(j) \notin graca
  /\ turno.atravessou => TravessiaEmMonstro
  /\ PodePermanecer(ComSelecao(tab, j), j)
  /\ NaPeca(j) = turno.inicio \/ TravessiaEmMonstro

(* permanecerNaPartida: the attack, and the light only when the attack     *)
(* darkened somebody or the crossing ended at a monster.                   *)
Permanecer(j) ==
  /\ PodePermanecerNaPeca(j)
  /\ \E feridos \in {Atacados(tab, jogadores, NaPeca(j), NaPeca(j))} :
       LET limpo == IF TravessiaEmMonstro THEN AplicarLimpeza(tab, Luz(tab, feridos))
                    ELSE MesaReaplicada(tab, jogadores, feridos)
       IN  /\ tab' = SemSequencia(limpo)
           /\ jogadores' = feridos
           /\ iluminadas' = IF TravessiaEmMonstro THEN Luz(tab, feridos)
                            ELSE LuzReaplicada(tab, jogadores, feridos, iluminadas)
           /\ graca' = IF TravessiaEmMonstro THEN graca \cap Mesa(limpo) ELSE graca
           /\ turno' = TurnoApos(limpo, feridos, j)
  /\ turno'.rodada <= RodadaMaxima
  /\ UNCHANGED <<geradores, cartao>>
  /\ AvaliarTermino

(* The piece of the crossing must have been stepped on.                    *)
PousouNaTravessia(j) ==
  turno.atravessou /\ turno.travessia # Nada => NaPeca(j) = turno.travessia

PodeConfirmar(j) ==
  /\ SemPassoDefinitivo(j)
  /\ tab.recebidas = <<>>
  /\ tab.peao \in {Nada, j}
  /\ NaPeca(j) \in Mesa(tab)
  /\ ~TravessiaEmMonstro
  /\ PousouNaTravessia(j)

(* confirmarPosicaoDoPeao: rescue, drawing, attack on the board as it is,  *)
(* then light and cleaning.  The second cleaning of the code finds nothing *)
(* new, since the first one saw the wounded already.                       *)
ConfirmarPosicao(j) ==
  LET p        == NaPeca(j)
      curados  == Resgatados(tab, jogadores, p, j)
      sorteado == IF jogadores[j].baixa \/ p = turno.inicio THEN tab
                  ELSE GerarRecebidas(tab, p, FALSE, {}, Nada)
  IN  /\ PodeConfirmar(j)
      /\ \E feridos \in {Atacados(sorteado, curados, turno.inicio, p)} :
           LET luz   == Luz(sorteado, feridos)
               limpo == AplicarLimpeza(sorteado, luz)
           IN  /\ tab' = Adotada(Devolvida(limpo, j, feridos), j)
               /\ jogadores' = IF Tipo(p) = "sala_medica"
                               THEN [feridos EXCEPT ![j].protegido = TRUE] ELSE feridos
               /\ iluminadas' = luz
               /\ graca' = (IF curados # jogadores THEN graca \cup {p} ELSE graca)
                              \cap Mesa(limpo)
      /\ turno' = [turno EXCEPT !.confirmada = TRUE]
      /\ geradores' = IF Tipo(p) = "gerador" THEN geradores \cup {p} ELSE geradores
      /\ cartao' = (cartao \/ Tipo(p) = "sala_do_diretor")
      /\ AvaliarTermino

PodeEncerrar(j) ==
  /\ DaVez(j)
  /\ IF jogadores[j].primeiroTurno THEN NaPeca(j) # Nada ELSE turno.confirmada
  /\ tab.recebidas = <<>>
EncerrarTurno(j) ==
  /\ PodeEncerrar(j)
  /\ jogadores' = [jogadores EXCEPT ![j].primeiroTurno = FALSE]
  /\ tab' = SemSequencia(tab)
  /\ turno' = TurnoApos(tab, jogadores, j)
  /\ turno'.rodada <= RodadaMaxima
  /\ UNCHANGED <<iluminadas, graca, geradores, cartao>>
  /\ AvaliarTermino

(* desistirDaPartida: any Player, at any time.                             *)
Desistir(j) ==
  LET restantes == Restringir(jogadores, DOMAIN jogadores \ {j})
      semPeao   == IF j = turno.ativo THEN SemSequencia(SemPeao(tab, j))
                   ELSE SemPeao(tab, j)
      limpo     == AplicarLimpeza(semPeao, Luz(semPeao, restantes))
  IN  /\ resultado = Nada /\ j \in DOMAIN jogadores
      /\ tab' = limpo
      /\ jogadores' = restantes
      /\ iluminadas' = Luz(semPeao, restantes)
      /\ graca' = graca \cap Mesa(limpo)
      /\ turno' = IF j = turno.ativo THEN TurnoApos(limpo, restantes, j) ELSE turno
      /\ turno'.rodada <= RodadaMaxima
      /\ UNCHANGED <<geradores, cartao>>
      /\ AvaliarTermino

-----------------------------------------------------------------------------
PecasEmJogo == DOMAIN tab.iniciais \cup Mesa(tab) \cup Pendentes(tab)

(* A command of the Player whose turn it is.                               *)
Jogada(j) ==
  \/ \E p \in PecasEmJogo : SelecionarAPeca(j, p)
  \/ \E p \in PecasEmJogo, passo \in Giros : GirarAPeca(j, p, passo)
  \/ FinalizarManipulacao(j)
  \/ SelecionarOPeao(j)
  \/ DesselecionarOPeao(j)
  \/ \E p \in DOMAIN tab.iniciais, c \in CelulasDeInicio : PosicionarAInicial(j, p, c)
  \/ \E p \in Pendentes(tab), c \in Celulas : PosicionarARecebida(j, p, c)
  \/ \E r \in Pendentes(tab), b \in Bordas : EscolherAVaga(j, r, b)
  \/ \E p \in Mesa(tab) : PosicionarOPeao(j, p)
  \/ \E p \in Mesa(tab) : MoverOPeao(j, p)
  \/ \E c \in Celulas : AtravessarOEscuro(j, c)
  \/ Permanecer(j)
  \/ ConfirmarPosicao(j)
  \/ EncerrarTurno(j)

Next == \E j \in Jogadores : Jogada(j) \/ (j \in Desistentes /\ Desistir(j))

Spec == Init /\ [][Next]_varsDaPartida

-----------------------------------------------------------------------------
(* Properties.                                                             *)

PecasDa(caixa) == {caixa[i] : i \in DOMAIN caixa}

(***************************************************************************)
(* The state has the shape the interfaces of partida.ts declare.           *)
(***************************************************************************)
TypeOK ==
  /\ tab.caixa \in Seq(PecasDaCaixa)
  /\ DOMAIN tab.iniciais \subseteq PecasIniciais
  /\ \A p \in DOMAIN tab.iniciais : tab.iniciais[p] \in Orientacoes
  /\ Mesa(tab) \subseteq Pecas
  /\ \A p \in Mesa(tab) : tab.posicionadas[p] \in Posicionada
  /\ tab.selecionada \in Pecas \cup {Nada} /\ tab.manipulacao \in Pecas \cup {Nada}
  /\ tab.peao \in Jogadores \cup {Nada}
  /\ DOMAIN jogadores \subseteq Jogadores /\ DOMAIN tab.peoes = DOMAIN jogadores
  /\ \A j \in DOMAIN jogadores :
       jogadores[j] \in Jogador /\ tab.peoes[j] \in Pecas \cup {Nada}
  /\ Pendentes(tab) \subseteq PecasDaCaixa
  /\ \A r \in Pendentes(tab) : tab.recebidas[r] \in Recebida
  /\ turno \in Turno
  /\ iluminadas \subseteq Celulas
  /\ graca \subseteq Pecas /\ geradores \subseteq Pecas /\ cartao \in BOOLEAN
  /\ resultado \in Desfechos \cup {Nada}

(***************************************************************************)
(* A pawn that entered the board stands on a piece that is there and is no *)
(* monster: neither the cleaning, nor a desistência, nor a movement leaves *)
(* it elsewhere.                                                           *)
(***************************************************************************)
PeaoSobrePeca ==
  \A j \in DOMAIN jogadores :
    tab.peoes[j] # Nada => tab.peoes[j] \in Mesa(tab) /\ ~EhMonstro(tab.peoes[j])

(***************************************************************************)
(* A piece is in one place (Caixa, table, board or hand), once, and a cell *)
(* holds one piece: what an attack gives back to the Caixa is not in the   *)
(* hand any more, what was drawn is not in the Caixa.                      *)
(***************************************************************************)
CadaPecaNumLugar ==
  /\ \A i, k \in DOMAIN tab.caixa : i # k => tab.caixa[i] # tab.caixa[k]
  /\ PecasDa(tab.caixa) \cap (Mesa(tab) \cup Pendentes(tab)) = {}
  /\ Pendentes(tab) \cap Mesa(tab) = {}
  /\ DOMAIN tab.iniciais \cap Mesa(tab) = {}
  /\ \A p, q \in Mesa(tab) : p # q => CelulaDe(tab, p) # CelulaDe(tab, q)

(***************************************************************************)
(* Two pawns share a piece other than the Portão only around a rescue: one *)
(* of them is affected, or the piece is in its graça; never three.         *)
(***************************************************************************)
ElencoCompleto == DOMAIN jogadores = Jogadores

OcupacaoTolerada ==
  \A p \in Mesa(tab) : Cardinality(Ocupantes(tab, p)) > 1 =>
    \/ EhPortao(p)
    \/ /\ Cardinality(Ocupantes(tab, p)) = 2
       /\ p \in graca \/ \E j \in Ocupantes(tab, p) : Afetado(jogadores[j])

(***************************************************************************)
(* The graça of a piece lasts while the rescued and the rescuer share it   *)
(* (a desistência does not release it, see PodePermanecerNaPeca).          *)
(***************************************************************************)
GracaOcupada ==
  ElencoCompleto => \A p \in graca : Cardinality(Ocupantes(tab, p)) > 1

(***************************************************************************)
(* A Player is frightened exactly when without sanity, whatever order      *)
(* attacks, Proteção and rescues came in.                                  *)
(***************************************************************************)
AmedrontadoSemSanidade ==
  \A j \in DOMAIN jogadores : jogadores[j].amedrontado <=> jogadores[j].sanidade = 0

(***************************************************************************)
(* A Peça Recebida that can still be turned is connected to the piece it   *)
(* was drawn from, also across the edge of the grade (issue #311).         *)
(***************************************************************************)
EncaixeConectado ==
  LET j == turno.ativo
  IN  /\ resultado = Nada
      /\ tab.manipulacao \in (Mesa(tab) \cap PecasDaCaixa) \ {tab.peoes[j]}
      /\ jogadores[j].primeiroTurno \/ turno.confirmada \/ tab.peoes[j] = turno.inicio
      => tab.manipulacao \in VizinhasConectadas(tab, tab.peoes[j])

(***************************************************************************)
(* Before the pawn of a turn moves, the light that was cached at the last  *)
(* definitive point is the light of the board, and no piece lies in the    *)
(* dark without a pawn.  (After a desistência in the middle of a move the  *)
(* cached light is that of a position the Player may still undo.)          *)
(***************************************************************************)
LuzEmDia ==
  LET j == turno.ativo
  IN  /\ resultado = Nada /\ ElencoCompleto
      /\ ~jogadores[j].primeiroTurno /\ ~turno.confirmada /\ ~turno.atravessou
      /\ tab.peoes[j] = turno.inicio
      => /\ iluminadas = Luz(tab, jogadores)
         /\ \A p \in Mesa(tab) : CelulaDe(tab, p) \in iluminadas \/ Ocupantes(tab, p) # {}

(***************************************************************************)
(* One house per turn (ADR-0017): wherever moves, crossings, encaixes and  *)
(* turns of pieces took it, the pawn is on the piece its turn began on or  *)
(* on a neighbouring cell.                                                 *)
(***************************************************************************)
UmaCasaPorTurno ==
  LET j == turno.ativo
  IN  resultado = Nada /\ ~jogadores[j].primeiroTurno /\ turno.inicio \in Mesa(tab) =>
        CelulaDe(tab, tab.peoes[j]) \in
          {CelulaDe(tab, turno.inicio)} \cup Vizinhas(CelulaDe(tab, turno.inicio))

(***************************************************************************)
(* A way out of the turn, without the other Players: the turn can be       *)
(* decided or ended, or a pending piece has a free edge, or the one that   *)
(* has an edge fits or can be turned until it does.                        *)
(***************************************************************************)
PendenciaResolvivel(j) ==
  \/ \E r \in Pendentes(tab), b \in Bordas : PodeEscolherAVaga(j, r, b)
  \/ \E r \in Pendentes(tab), c \in Celulas : PodePosicionarARecebida(j, r, c)
  \/ \E r \in Pendentes(tab), passo \in {Horario, AntiHorario} :
       /\ tab.recebidas[r].vaga # Nada
       /\ Vazia(tab, tab.recebidas[r].alvo)
       /\ PodeGirarAPeca(j, r, passo)

MovimentoAberto(j) ==
  \E p \in Mesa(tab) :
    /\ SemPassoDefinitivo(j)
    /\ PodeMoverPeao(ComSelecao(tab, j), j, p)
    /\ Cardinality(Ocupantes(tab, p)) < TetoOcupacao(tab, jogadores, p)
    /\ NaZona(p)

TemSaida(j) ==
  IF tab.recebidas # <<>> THEN PendenciaResolvivel(j)
  ELSE PodeConfirmar(j) \/ PodePermanecerNaPeca(j) \/ PodeEncerrar(j) \/ MovimentoAberto(j)

(* The one case without: the Player crossed into a monster from a piece in *)
(* its graça, which refuses the Permanência (partida.ts:1276).             *)
PresoNaGraca(j) == TravessiaEmMonstro /\ NaPeca(j) \in graca

(***************************************************************************)
(* A turn after the first one is never stuck while everybody is there, but *)
(* for PresoNaGraca.                                                       *)
(***************************************************************************)
TurnoTemSaida ==
  LET j == turno.ativo
  IN  resultado = Nada /\ ElencoCompleto /\ ~jogadores[j].primeiroTurno =>
        TemSaida(j) \/ PresoNaGraca(j)

(***************************************************************************)
(* "O turno travado fecha por Permanência" (partida.ts:1290, ADR-0017): a  *)
(* Player whose crossing drew a monster may always stay.  It is false in   *)
(* the case above.                                                         *)
(***************************************************************************)
TravessiaFechaNoMonstro ==
  LET j == turno.ativo
  IN  resultado = Nada /\ TravessiaEmMonstro => PodePermanecerNaPeca(j)

(***************************************************************************)
(* The turn passes to the next Player who is not frightened: the Players   *)
(* between, in the order of entry, all are, and a Player whose turn passes *)
(* to another one leaves nothing selected, turning or pending.             *)
(***************************************************************************)
Entre(j, k) == {m \in Jogadores : Distancia(j, m) < Distancia(j, k)}

PassagemDeVez ==
  [][turno'.ativo # turno.ativo /\ resultado' = Nada =>
       /\ ~jogadores'[turno'.ativo].amedrontado
       /\ \A m \in Entre(turno.ativo, turno'.ativo) \cap DOMAIN jogadores' :
            jogadores'[m].amedrontado
       /\ tab' = SemSequencia(tab')]_varsDaPartida
=============================================================================
