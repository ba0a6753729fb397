------------------------------ MODULE Tabuleiro ------------------------------
(***************************************************************************)
(* The board of a match as data: packages/engine/src/tabuleiro.ts,         *)
(* peoes.ts and monstros.ts.  The operators are pure, as the functions of  *)
(* the engine are: t is an EstadoDoTabuleiro, and a command is a pair of   *)
(* operators, Pode... for what the code accepts and one named as the       *)
(* handler for the board it returns.  Partida turns them into the turns of *)
(* a match.                                                                *)
(*                                                                         *)
(* A cell is <<linha, coluna>>, an edge 0..3 is norte, leste, sul, oeste,  *)
(* an orientation counts quarter turns clockwise.  The identifier of a     *)
(* piece is <<tipo, number>>, as "t-4" or "inicial-2" in the code; the pawn*)
(* of a Player is named by the Player.  The fields that hold pieces are    *)
(* functions from identifiers, since the code looks them up by identifier. *)
(***************************************************************************)
EXTENDS Integers, Sequences, FiniteSets

CONSTANTS
  Lado,     (* LADO_DA_GRADE: 7 in the code.                              *)
  Nada      (* null                                                       *)

ASSUME LadoAssumption == Lado \in Nat /\ Lado >= 3

Bordas == 0..3
Orientacoes == 0..3
Celulas == (0 .. Lado - 1) \X (0 .. Lado - 1)

TiposDeCaminho  == {"reta", "T", "cruz"}
TiposEspeciais  == {"gerador", "sala_do_diretor", "sala_medica", "portao_de_saida"}
TiposDeMonstro  == {"vulto", "espectro"}
TiposDaCaixa    == TiposDeCaminho \cup TiposEspeciais \cup TiposDeMonstro
PecasDaCaixa    == TiposDaCaixa \X Nat
PecasIniciais   == {"inicial"} \X Nat
Pecas           == PecasIniciais \cup PecasDaCaixa

ASSUME NadaAssumption == Nada \notin Pecas \cup Bordas \cup Celulas

Tipo(p)       == p[1]
EhInicial(p)  == Tipo(p) = "inicial"
EhMonstro(p)  == Tipo(p) \in TiposDeMonstro
EhEspecial(p) == Tipo(p) \in TiposEspeciais
EhPortao(p)   == Tipo(p) = "portao_de_saida"

-----------------------------------------------------------------------------
(* The torus and the edges of a piece.                                     *)

Oposta(b) == (b + 2) % 4

(* Mutant: the turn does not wrap.                                         *)
BugRotacionar(o, passo) == o + passo

Rotacionar(o, passo) == (o + passo) % 4
Horario     == 1
AntiHorario == 3

Deslocamento(b) == CASE b = 0 -> <<-1, 0>> [] b = 1 -> <<0, 1>>
                     [] b = 2 -> <<1, 0>>  [] b = 3 -> <<0, -1>>
Normalizar(c) == <<c[1] % Lado, c[2] % Lado>>
Vizinha(c, b) == Normalizar(<<c[1] + Deslocamento(b)[1], c[2] + Deslocamento(b)[2]>>)
Vizinhas(c)   == {Vizinha(c, b) : b \in Bordas}

BordasBase(tipo) == CASE tipo = "inicial" -> {0, 1}
                      [] tipo = "reta"    -> {0, 2}
                      [] tipo = "T"       -> {0, 1, 3}
                      [] OTHER            -> Bordas
BordasAbertas(p, o) == {Rotacionar(b, o) : b \in BordasBase(Tipo(p))}
ConectaNaVaga(p, o, vaga) == Oposta(vaga) \in BordasAbertas(p, o)

DeltaToroidal(de, para) ==
  LET bruto == (para - de) % Lado IN IF bruto = Lado - 1 THEN -1 ELSE bruto

ModuloDe(n) == IF n < 0 THEN -n ELSE n

(* bordaDaGeradoraVoltadaAPeca: the edge of a cell that faces another one; *)
(* Nada when they are not neighbours.                                      *)
BordaVoltada(de, para) ==
  LET dl == DeltaToroidal(de[1], para[1])
      dc == DeltaToroidal(de[2], para[2])
  IN  IF ModuloDe(dl) + ModuloDe(dc) # 1 THEN Nada
      ELSE IF dl = -1 THEN 0
      ELSE IF dc = 1 THEN 1
      ELSE IF dl = 1 THEN 2
      ELSE 3

-----------------------------------------------------------------------------
(* The board.                                                              *)

Posicionada == [celula: Celulas, orientacao: Orientacoes]
Recebida == [orientacao: Orientacoes, vaga: Bordas \cup {Nada},
             alvo: Celulas \cup {Nada}]

TabuleiroInicial(jogadores, caixa) ==
  [caixa        |-> caixa,
   iniciais     |-> [p \in {"inicial"} \X jogadores |-> 0],
   posicionadas |-> <<>>,
   selecionada  |-> Nada,
   manipulacao  |-> Nada,
   peoes        |-> [j \in jogadores |-> Nada],
   peao         |-> Nada,
   recebidas    |-> <<>>]

Mesa(t)    == DOMAIN t.posicionadas
Pendentes(t) == DOMAIN t.recebidas
CelulaDe(t, p) == t.posicionadas[p].celula
Aberturas(t, p) == BordasAbertas(p, t.posicionadas[p].orientacao)
Vazia(t, c) == \A p \in Mesa(t) : CelulaDe(t, p) # c
Ocupantes(t, p) == {j \in DOMAIN t.peoes : t.peoes[j] = p}

Restringir(f, dominio) == [x \in dominio |-> f[x]]
Estender(f, x, valor) == [y \in DOMAIN f \cup {x} |-> IF y = x THEN valor ELSE f[y]]

(* Edge b of p leads to q, and q opens towards p.                          *)
LigadaPela(t, p, b, q) ==
  /\ b \in Aberturas(t, p)
  /\ CelulaDe(t, q) = Vizinha(CelulaDe(t, p), b)
  /\ Oposta(b) \in Aberturas(t, q)
VizinhasConectadas(t, p) == {q \in Mesa(t) : \E b \in Bordas : LigadaPela(t, p, b, q)}

VagasDisponiveis(t, p) ==
  {b \in Aberturas(t, p) :
     /\ \A r \in Pendentes(t) : t.recebidas[r].vaga # b
     /\ Vazia(t, Vizinha(CelulaDe(t, p), b))}

(* The piece under a pawn, Nada on the table or when the piece is gone.    *)
PecaSob(t, j) ==
  IF j # Nada /\ j \in DOMAIN t.peoes /\ t.peoes[j] \in Mesa(t) THEN t.peoes[j] ELSE Nada

-----------------------------------------------------------------------------
(* Light, cleaning and the drawing of pieces.                              *)

IluminadasPor(t, j, escuros) ==
  IF t.peoes[j] \notin Mesa(t) THEN {}
  ELSE LET c == CelulaDe(t, t.peoes[j])
       IN  IF j \in escuros THEN {c} ELSE {c} \cup Vizinhas(c)

(* escuros: the Players in Baixa Iluminação.                               *)
CalcularIluminacao(t, escuros) ==
  UNION {IluminadasPor(t, j, escuros) : j \in DOMAIN t.peoes}

AplicarLimpeza(t, luz) ==
  [t EXCEPT !.posicionadas =
     Restringir(@, {p \in Mesa(t) : CelulaDe(t, p) \in luz \/ Ocupantes(t, p) # {}})]

Menor(a, b) == IF a <= b THEN a ELSE b

(* gerarRecebidas: one piece of the Caixa per free edge, at most one and   *)
(* only for dark edges in Baixa.                                           *)
VagasParaSortear(t, p, emBaixa, luz) ==
  IF emBaixa
  THEN {b \in VagasDisponiveis([t EXCEPT !.recebidas = <<>>], p) :
          Vizinha(CelulaDe(t, p), b) \notin luz}
  ELSE VagasDisponiveis([t EXCEPT !.recebidas = <<>>], p)

QuantidadeSorteada(t, p, emBaixa, luz) ==
  LET cabem == Menor(Cardinality(VagasParaSortear(t, p, emBaixa, luz)), Len(t.caixa))
  IN  IF emBaixa THEN Menor(cabem, 1) ELSE cabem

GerarRecebidas(t, p, emBaixa, luz, alvo) ==
  LET n == QuantidadeSorteada(t, p, emBaixa, luz)
  IN  [t EXCEPT !.caixa = SubSeq(@, n + 1, Len(@)),
                !.recebidas = [q \in {t.caixa[i] : i \in 1..n} |->
                                 [orientacao |-> 0, vaga |-> Nada, alvo |-> alvo]]]

-----------------------------------------------------------------------------
(* The commands of the board.                                              *)

PodeSelecionarPeca(t, p) == p = t.manipulacao \/ p \in DOMAIN t.iniciais
SelecionarPeca(t, p) ==
  IF p = t.manipulacao THEN [t EXCEPT !.manipulacao = Nada]
  ELSE IF p = t.selecionada THEN [t EXCEPT !.selecionada = Nada]
  ELSE [t EXCEPT !.selecionada = p, !.manipulacao = Nada]

(* Mutant: the turn of a placed piece is not checked against the piece     *)
(* under the pawn.                                                         *)
BugGiroMantemConexao(t, p, o) == TRUE

(* girarPosicionada: a turn may not close the edge that faces the piece    *)
(* under the selected pawn.                                                *)
GiroMantemConexao(t, p, o) ==
  LET geradora == PecaSob(t, t.peao)
      borda == BordaVoltada(CelulaDe(t, geradora), CelulaDe(t, p))
  IN  geradora \notin {Nada, p} /\ borda # Nada => ConectaNaVaga(p, o, borda)

PodeGirarPosicionada(t, p, passo) ==
  /\ p = t.manipulacao
  /\ p \in Mesa(t)
  /\ GiroMantemConexao(t, p, Rotacionar(t.posicionadas[p].orientacao, passo))
PodeGirarRecebida(t, p) ==
  p # t.manipulacao /\ p \in Pendentes(t) /\ t.selecionada = p
PodeGirarDaMesa(t, p) ==
  t.manipulacao = Nada /\ p \in DOMAIN t.iniciais /\ t.selecionada = p
PodeGirarPeca(t, p, passo) ==
  PodeGirarPosicionada(t, p, passo) \/ PodeGirarRecebida(t, p) \/ PodeGirarDaMesa(t, p)

GirarPeca(t, p, passo) ==
  IF p \in Mesa(t)
  THEN [t EXCEPT !.posicionadas[p].orientacao = Rotacionar(@, passo)]
  ELSE IF p \in Pendentes(t)
  THEN [t EXCEPT !.recebidas[p].orientacao = Rotacionar(@, passo)]
  ELSE [t EXCEPT !.iniciais[p] = Rotacionar(@, passo)]

PodePosicionarInicial(t, p, c) ==
  /\ p \in DOMAIN t.iniciais
  /\ t.selecionada = p
  /\ Vazia(t, c)
PosicionarInicial(t, p, c) ==
  [t EXCEPT !.iniciais = Restringir(@, DOMAIN @ \ {p}),
            !.posicionadas = Estender(@, p, [celula |-> c, orientacao |-> t.iniciais[p]]),
            !.selecionada = Nada,
            !.manipulacao = p]

PodePosicionarRecebida(t, p, c) ==
  /\ p \in Pendentes(t)
  /\ t.peao # Nada
  /\ t.recebidas[p].vaga # Nada
  /\ t.recebidas[p].alvo = c
  /\ PecaSob(t, t.peao) # Nada
  /\ ConectaNaVaga(p, t.recebidas[p].orientacao, t.recebidas[p].vaga)
  /\ Vazia(t, c)
PosicionarRecebida(t, p, c) ==
  [t EXCEPT !.recebidas = Restringir(@, DOMAIN @ \ {p}),
            !.posicionadas = Estender(@, p, [celula |-> c,
                                             orientacao |-> t.recebidas[p].orientacao]),
            !.selecionada = Nada,
            !.manipulacao = IF EhEspecial(p) \/ EhMonstro(p) THEN Nada ELSE p]

PodeSelecionarPeao(t, j) == t.peao = j \/ t.recebidas = <<>>
SelecionarPeao(t, j) ==
  IF t.peao = j THEN t ELSE [t EXCEPT !.peao = j, !.manipulacao = Nada]

PodeDesselecionarPeao(t, j) == t.peao # j \/ t.recebidas = <<>>
DesselecionarPeao(t, j) ==
  IF t.peao # j THEN t ELSE [t EXCEPT !.peao = Nada, !.manipulacao = Nada]

PodePosicionarPeao(t, j, p) ==
  /\ t.peao = j
  /\ t.recebidas = <<>>
  /\ t.peoes[j] = Nada
  /\ p \in Mesa(t) /\ EhInicial(p)
  /\ Ocupantes(t, p) = {}
PosicionarPeao(t, j, p) == [t EXCEPT !.peoes[j] = p, !.peao = Nada]

(* escolherVagaDaPecaRecebida: one piece at a time.                        *)
PodeEscolherVaga(t, r, b) ==
  /\ t.peao # Nada
  /\ r \in Pendentes(t)
  /\ \A q \in Pendentes(t) : t.recebidas[q].vaga = Nada
  /\ PecaSob(t, t.peao) # Nada
  /\ b \in VagasDisponiveis(t, PecaSob(t, t.peao))
EscolherVaga(t, r, b) ==
  [t EXCEPT !.recebidas[r].vaga = b,
            !.recebidas[r].alvo = Vizinha(CelulaDe(t, PecaSob(t, t.peao)), b),
            !.selecionada = r,
            !.manipulacao = Nada]

(* Mutant: a monster takes a pawn.                                         *)
BugPodeMoverPeao(t, j, p) ==
  /\ t.peao = j
  /\ t.recebidas = <<>>
  /\ t.peoes[j] \in Mesa(t)
  /\ p \in VizinhasConectadas(t, t.peoes[j])

PodeMoverPeao(t, j, p) ==
  /\ t.peao = j
  /\ t.recebidas = <<>>
  /\ t.peoes[j] \in Mesa(t)
  /\ p \in Mesa(t) /\ ~EhMonstro(p)
  /\ p \in VizinhasConectadas(t, t.peoes[j])
MoverPeao(t, j, p) == [t EXCEPT !.peoes[j] = p]

PodePermanecer(t, j) == t.peao = j /\ t.peoes[j] # Nada /\ t.recebidas = <<>>

SemPeao(t, j) == [t EXCEPT !.peoes = Restringir(@, DOMAIN @ \ {j})]
SemSequencia(t) ==
  [t EXCEPT !.selecionada = Nada, !.manipulacao = Nada, !.peao = Nada, !.recebidas = <<>>]

-----------------------------------------------------------------------------
(* The monsters.                                                           *)

(* The Vulto sees along each edge, through pieces that are connected one   *)
(* after the other, and never itself round the torus.                      *)
Adiante(c, b, k) ==
  Normalizar(<<c[1] + k * Deslocamento(b)[1], c[2] + k * Deslocamento(b)[2]>>)
NoRaio(t, m, b, q) ==
  \E k \in 1 .. Lado - 1 :
    /\ CelulaDe(t, q) = Adiante(CelulaDe(t, m), b, k)
    /\ \A i \in 0 .. k - 1 : \E x \in Mesa(t) :
         /\ CelulaDe(t, x) = Adiante(CelulaDe(t, m), b, i)
         /\ \E y \in Mesa(t) : LigadaPela(t, x, b, y)

CalcularAlcance(t, m) ==
  IF Tipo(m) = "espectro" THEN VizinhasConectadas(t, m)
  ELSE {q \in Mesa(t) : \E b \in Bordas : NoRaio(t, m, b, q)}

(* resolverAtaquesCentradoNoAtuante: the monsters that reach the piece the *)
(* turn began on or the one it was decided on attack whoever they reach.   *)
Atacantes(t, inicio, decidida) ==
  {m \in Mesa(t) : EhMonstro(m) /\ {inicio, decidida} \cap CalcularAlcance(t, m) # {}}
=============================================================================
