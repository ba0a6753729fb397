---------------------------- MODULE PartidaProofs ----------------------------
(***************************************************************************)
(* Theorems of Partida and BotDaPartida, for any size of the torus, any    *)
(* number of Players and bots, any Caixas without repeated pieces, sanity, *)
(* generators and bound of rounds; each theorem but the one about the bots *)
(* is of both specifications, that of Players only and that with bots.     *)
(*                                                                         *)
(* The shape of the state ("Tipos") carries the proofs: where each piece   *)
(* is, which Player has which pawn, who is on the roster and whose turn it *)
(* is. Every command of a match is one of the branches of "Passo", a bot's *)
(* move included: what a bot plays is a move of a Player or a few turns of *)
(* a piece and its encaixe at once. One lemma for each command says what   *)
(* it keeps ("...Tipos"), from lemmas that say what each operator of the   *)
(* board returns ("...Bom") and what the attack, the rescue and the        *)
(* cleaning do to pieces, pawns and roster.                                *)
(*                                                                         *)
(* Who shares a piece and who is in the graça then follow for the few      *)
(* commands that move a pawn or change the roster: the others are          *)
(* "Quieto".                                                               *)
(*                                                                         *)
(* "Turnos" is what a turn remembers: where its Player started, whether it *)
(* moved, confirmed, stayed or crossed the dark, which pieces it drew and  *)
(* which of them is being put. One definition for each kind of step says   *)
(* what the commands of that kind do to the turn ("Seleciona", "Gira",     *)
(* "Encaixa", ...), and the invariants are proved once for each kind. The  *)
(* house of a turn, the encaixe, the light, the way out of a turn and what *)
(* the enumeration of the bots relies on are inductive on top of it.       *)
(***************************************************************************)
EXTENDS BotDaPartida, FiniteSetTheorems, SequenceTheorems, FunctionTheorems, TLAPS

-----------------------------------------------------------------------------
(* Functions with a domain inside D and values in V: the pieces somewhere. *)

Parcial(D, V) == UNION {[S -> V] : S \in SUBSET D}

LEMMA ParcialDe ==
  ASSUME NEW D, NEW V, NEW f
  PROVE  f \in Parcial(D, V) <=>
           f = [x \in DOMAIN f |-> f[x]] /\ DOMAIN f \subseteq D /\ \A x \in DOMAIN f : f[x] \in V
<1>1. ASSUME f \in Parcial(D, V)
      PROVE  f = [x \in DOMAIN f |-> f[x]] /\ DOMAIN f \subseteq D /\ \A x \in DOMAIN f : f[x] \in V
  BY <1>1 DEF Parcial
<1>2. ASSUME f = [x \in DOMAIN f |-> f[x]], DOMAIN f \subseteq D, \A x \in DOMAIN f : f[x] \in V
      PROVE  f \in Parcial(D, V)
  <2>1. f \in [DOMAIN f -> V]
    BY <1>2
  <2>2. QED
    BY <1>2, <2>1 DEF Parcial
<1>3. QED
  BY <1>1, <1>2

LEMMA ParcialRestrita ==
  ASSUME NEW D, NEW V, NEW f \in Parcial(D, V), NEW S, S \subseteq DOMAIN f
  PROVE  /\ Restringir(f, S) \in Parcial(D, V)
         /\ DOMAIN Restringir(f, S) = S /\ \A x \in S : Restringir(f, S)[x] = f[x]
<1>1. Restringir(f, S) \in [S -> V] /\ S \subseteq D
  BY ParcialDe DEF Restringir
<1>2. QED
  BY <1>1 DEF Parcial, Restringir

LEMMA ParcialEstendida ==
  ASSUME NEW f \in Parcial(Pecas, Posicionada), NEW p \in Pecas, NEW v \in Posicionada
  PROVE  /\ Estender(f, p, v) \in Parcial(Pecas, Posicionada)
         /\ DOMAIN Estender(f, p, v) = DOMAIN f \cup {p} /\ Estender(f, p, v)[p] = v
         /\ \A y \in DOMAIN f \ {p} : Estender(f, p, v)[y] = f[y]
<1> DEFINE r == Estender(f, p, v)
<1>1. r = [y \in DOMAIN f \cup {p} |-> IF y = p THEN v ELSE f[y]]
  BY DEF Estender
<1>2. DOMAIN f \subseteq Pecas /\ \A y \in DOMAIN f : f[y] \in Posicionada
  BY ParcialDe
<1>3. r \in [DOMAIN f \cup {p} -> Posicionada]
  BY <1>1, <1>2
<1>4. r \in Parcial(Pecas, Posicionada)
  BY <1>2, <1>3 DEF Parcial
<1>5. QED
  BY <1>1, <1>4

LEMMA ParcialTrocada ==
  ASSUME NEW D, NEW V, NEW f \in Parcial(D, V), NEW x \in DOMAIN f, NEW v \in V
  PROVE  /\ [f EXCEPT ![x] = v] \in Parcial(D, V)
         /\ DOMAIN [f EXCEPT ![x] = v] = DOMAIN f /\ [f EXCEPT ![x] = v][x] = v
         /\ \A y \in DOMAIN f \ {x} : [f EXCEPT ![x] = v][y] = f[y]
<1>1. f \in [DOMAIN f -> V] /\ DOMAIN f \subseteq D
  BY ParcialDe
<1>2. [f EXCEPT ![x] = v] \in [DOMAIN f -> V]
  BY <1>1
<1>3. QED
  BY <1>1, <1>2 DEF Parcial

LEMMA ParcialVazia ==
  /\ DOMAIN <<>> = {}
  /\ \A D, V : <<>> \in Parcial(D, V)
  /\ \A D, V : \A f \in Parcial(D, V) : DOMAIN f = {} <=> f = <<>>
<1>1. DOMAIN <<>> = {} /\ <<>> = [x \in {} |-> x]
  OBVIOUS
<1>2. ASSUME NEW D, NEW V PROVE <<>> \in Parcial(D, V)
  <2>1. <<>> \in [{} -> V]
    BY <1>1
  <2>2. QED
    BY <2>1 DEF Parcial
<1>3. ASSUME NEW D, NEW V, NEW f \in Parcial(D, V), DOMAIN f = {} PROVE f = <<>>
  BY <1>1, <1>3, ParcialDe
<1>4. QED
  BY <1>1, <1>2, <1>3

-----------------------------------------------------------------------------
(* The torus.                                                              *)

LEMMA Resto == \A x \in Int : x % Lado \in 0 .. Lado - 1
  BY LadoAssumption

LEMMA VizinhaCelula ==
  \A c \in Celulas, b \in Bordas : Vizinha(c, b) \in Celulas
  BY LadoAssumption, Resto DEF Vizinha, Normalizar, Deslocamento, Celulas, Bordas

LEMMA VizinhasCelulas == \A c \in Celulas : Vizinhas(c) \subseteq Celulas
  BY VizinhaCelula DEF Vizinhas

LEMMA Rotacionada == \A o, passo \in Int : Rotacionar(o, passo) \in Orientacoes
  BY DEF Rotacionar, Orientacoes

LEMMA AbertasBordas == \A p, o : o \in Orientacoes => BordasAbertas(p, o) \subseteq Bordas
<1> SUFFICES ASSUME NEW p, NEW o \in Orientacoes PROVE BordasAbertas(p, o) \subseteq Bordas
  OBVIOUS
<1>1. BordasBase(Tipo(p)) \subseteq Bordas
  BY DEF BordasBase, Bordas
<1>2. \A b \in Bordas : Rotacionar(b, o) \in Bordas
  BY Rotacionada DEF Bordas, Orientacoes
<1>3. QED
  BY <1>1, <1>2 DEF BordasAbertas

LEMMA TiposDistintos ==
  /\ \A p \in PecasIniciais : ~EhMonstro(p) /\ EhInicial(p)
  /\ \A p \in PecasDaCaixa : ~EhInicial(p)
  /\ Nada \notin Pecas /\ Nada \notin Celulas /\ Nada \notin Bordas
  /\ PecasIniciais \cap PecasDaCaixa = {}
<1>1. \A p \in PecasIniciais : Tipo(p) = "inicial"
  BY DEF PecasIniciais, Tipo
<1>2. \A p \in PecasDaCaixa : Tipo(p) \in TiposDaCaixa
  BY DEF PecasDaCaixa, Tipo
<1>3. "inicial" \notin TiposDaCaixa /\ TiposDeMonstro \subseteq TiposDaCaixa
  BY DEF TiposDaCaixa, TiposDeCaminho, TiposEspeciais, TiposDeMonstro
<1>4. QED
  BY <1>1, <1>2, <1>3, NadaAssumption DEF EhMonstro, EhInicial

-----------------------------------------------------------------------------
(* The board and what the commands keep of it.                             *)

Tabuleiros ==
  [caixa        : Seq(PecasDaCaixa),
   iniciais     : Parcial(PecasIniciais, Orientacoes),
   posicionadas : Parcial(Pecas, Posicionada),
   selecionada  : Pecas \cup {Nada},
   manipulacao  : Pecas \cup {Nada},
   peoes        : Parcial(Jogadores, Pecas \cup {Nada}),
   peao         : Jogadores \cup {Nada},
   recebidas    : Parcial(PecasDaCaixa, Recebida)]

PeoesSobrePecas(t) ==
  \A j \in DOMAIN t.peoes : t.peoes[j] # Nada => t.peoes[j] \in Mesa(t) /\ ~EhMonstro(t.peoes[j])

SemRepeticao(c) == \A i, k \in DOMAIN c : i # k => c[i] # c[k]

PecasSeparadas(t) ==
  /\ SemRepeticao(t.caixa)
  /\ PecasDa(t.caixa) \cap Mesa(t) = {} /\ PecasDa(t.caixa) \cap Pendentes(t) = {}
  /\ Pendentes(t) \cap Mesa(t) = {}
  /\ DOMAIN t.iniciais \cap Mesa(t) = {}
  /\ \A p, q \in Mesa(t) : p # q => CelulaDe(t, p) # CelulaDe(t, q)

AlvosDasVagas(t) == \A r \in Pendentes(t) : t.recebidas[r].vaga # Nada => t.recebidas[r].alvo # Nada

Bom(t) == t \in Tabuleiros /\ PeoesSobrePecas(t) /\ PecasSeparadas(t) /\ AlvosDasVagas(t)

(* The pieces that may still come to the board.                            *)
Fora(t) == DOMAIN t.iniciais \cup Pendentes(t) \cup PecasDa(t.caixa)

LEMMA ForaDaMesa == \A t : Bom(t) => Fora(t) \cap Mesa(t) = {}
  BY DEF Bom, PecasSeparadas, Fora

LEMMA MesaDe ==
  ASSUME NEW t \in Tabuleiros
  PROVE  /\ Mesa(t) \subseteq Pecas /\ Pendentes(t) \subseteq PecasDaCaixa
         /\ DOMAIN t.iniciais \subseteq PecasIniciais /\ DOMAIN t.peoes \subseteq Jogadores
         /\ \A p \in Mesa(t) : /\ CelulaDe(t, p) \in Celulas
                               /\ t.posicionadas[p] \in Posicionada
                               /\ Aberturas(t, p) \subseteq Bordas
         /\ \A r \in Pendentes(t) : t.recebidas[r] \in Recebida
         /\ \A j \in DOMAIN t.peoes : t.peoes[j] \in Pecas \cup {Nada}
         /\ t.recebidas = <<>> <=> Pendentes(t) = {}
<1>1. /\ t.iniciais \in Parcial(PecasIniciais, Orientacoes)
      /\ t.posicionadas \in Parcial(Pecas, Posicionada)
      /\ t.peoes \in Parcial(Jogadores, Pecas \cup {Nada})
      /\ t.recebidas \in Parcial(PecasDaCaixa, Recebida)
  BY DEF Tabuleiros
<1>2. \A p \in Mesa(t) : t.posicionadas[p] \in Posicionada
  BY <1>1, ParcialDe DEF Mesa
<1>3. \A p \in Mesa(t) : CelulaDe(t, p) \in Celulas /\ Aberturas(t, p) \subseteq Bordas
  BY <1>2, AbertasBordas DEF Posicionada, CelulaDe, Aberturas
<1>4. QED
  BY <1>1, <1>2, <1>3, ParcialDe, ParcialVazia DEF Mesa, Pendentes

(* A command that leaves the pieces and the pawns where they are.          *)
LEMMA MesmasPecas ==
  ASSUME NEW t, Bom(t), NEW n \in Tabuleiros,
         n.caixa = t.caixa, n.iniciais = t.iniciais, n.posicionadas = t.posicionadas,
         n.peoes = t.peoes, n.recebidas = t.recebidas
  PROVE  Bom(n) /\ Mesa(n) = Mesa(t)
  BY DEF Bom, PeoesSobrePecas, PecasSeparadas, AlvosDasVagas, Mesa, Pendentes, CelulaDe

LEMMA SelecionarPecaBom ==
  ASSUME NEW t, Bom(t), NEW p, PodeSelecionarPeca(t, p)
  PROVE  LET n == SelecionarPeca(t, p)
         IN  /\ Bom(n) /\ n.peoes = t.peoes /\ n.posicionadas = t.posicionadas
             /\ n.recebidas = t.recebidas /\ n.caixa = t.caixa /\ n.peao = t.peao
             /\ n.iniciais = t.iniciais /\ n.manipulacao \in {t.manipulacao, Nada}
<1> DEFINE n == SelecionarPeca(t, p)
<1>1. t \in Tabuleiros /\ (p # t.manipulacao => p \in Pecas)
  BY MesaDe DEF Bom, PodeSelecionarPeca, Pecas
<1>2. /\ n \in Tabuleiros
      /\ n.caixa = t.caixa /\ n.iniciais = t.iniciais /\ n.posicionadas = t.posicionadas
      /\ n.peoes = t.peoes /\ n.recebidas = t.recebidas /\ n.peao = t.peao
      /\ n.manipulacao \in {t.manipulacao, Nada}
  BY <1>1 DEF SelecionarPeca, Tabuleiros
<1> HIDE DEF n
<1>3. QED
  BY <1>2, MesmasPecas DEF n

(* A board on which only the selection changes.                            *)
Selecoes(t, j) ==
  {ComSelecao(t, j), Adotada(t, j), SelecionarPeao(t, j), DesselecionarPeao(t, j),
   [t EXCEPT !.manipulacao = Nada], [t EXCEPT !.peao = j]}

LEMMA SelecaoBom ==
  ASSUME NEW t, Bom(t), NEW j \in Jogadores
  PROVE  \A n \in Selecoes(t, j) :
           /\ Bom(n) /\ n.peoes = t.peoes /\ n.posicionadas = t.posicionadas
           /\ n.recebidas = t.recebidas /\ n.caixa = t.caixa /\ n.iniciais = t.iniciais
           /\ n.peao \in {t.peao, j, Nada}
<1> SUFFICES ASSUME NEW n \in Selecoes(t, j)
             PROVE  /\ Bom(n) /\ n.peoes = t.peoes /\ n.posicionadas = t.posicionadas
                    /\ n.recebidas = t.recebidas /\ n.caixa = t.caixa /\ n.iniciais = t.iniciais
                    /\ n.peao \in {t.peao, j, Nada}
  OBVIOUS
<1>1. /\ n \in Tabuleiros
      /\ n.caixa = t.caixa /\ n.iniciais = t.iniciais /\ n.posicionadas = t.posicionadas
      /\ n.peoes = t.peoes /\ n.recebidas = t.recebidas /\ n.peao \in {t.peao, j, Nada}
  BY DEF Bom, Tabuleiros, ComSelecao, Adotada, SelecionarPeao, DesselecionarPeao, Selecoes
<1>2. QED
  BY <1>1, MesmasPecas

LEMMA SemSequenciaBom ==
  ASSUME NEW t, Bom(t)
  PROVE  LET n == SemSequencia(t)
         IN  /\ Bom(n) /\ n.peoes = t.peoes /\ n.posicionadas = t.posicionadas
             /\ n.caixa = t.caixa /\ n.iniciais = t.iniciais
             /\ n.recebidas = <<>> /\ n.peao = Nada
<1> DEFINE n == SemSequencia(t)
<1>1. /\ n \in Tabuleiros
      /\ n.caixa = t.caixa /\ n.iniciais = t.iniciais /\ n.posicionadas = t.posicionadas
      /\ n.peoes = t.peoes /\ n.recebidas = <<>> /\ n.peao = Nada
  BY ParcialVazia DEF Bom, Tabuleiros, SemSequencia
<1> HIDE DEF n
<1>2. Pendentes(n) = {}
  BY <1>1, ParcialVazia DEF Pendentes
<1>3. PeoesSobrePecas(n) /\ PecasSeparadas(n) /\ AlvosDasVagas(n)
  BY <1>1, <1>2 DEF Bom, PeoesSobrePecas, PecasSeparadas, AlvosDasVagas, Mesa, CelulaDe
<1>4. QED
  BY <1>1, <1>3 DEF Bom, n

(* Pawns: one less, one on a piece.                                        *)
LEMMA SemPeaoBom ==
  ASSUME NEW t, Bom(t), NEW j
  PROVE  LET n == SemPeao(t, j)
         IN  /\ Bom(n) /\ n.posicionadas = t.posicionadas /\ n.caixa = t.caixa
             /\ n.recebidas = t.recebidas /\ n.iniciais = t.iniciais /\ n.peao = t.peao
             /\ DOMAIN n.peoes = DOMAIN t.peoes \ {j}
             /\ \A k \in DOMAIN n.peoes : n.peoes[k] = t.peoes[k]
<1> DEFINE n == SemPeao(t, j)
           r == Restringir(t.peoes, DOMAIN t.peoes \ {j})
<1>1. /\ r \in Parcial(Jogadores, Pecas \cup {Nada})
      /\ DOMAIN r = DOMAIN t.peoes \ {j} /\ \A k \in DOMAIN r : r[k] = t.peoes[k]
  BY ParcialRestrita DEF Bom, Tabuleiros
<1>2. n = [t EXCEPT !.peoes = r]
  BY DEF SemPeao, Bom, Tabuleiros
<1> HIDE DEF n, r
<1>3. /\ n \in Tabuleiros
      /\ n.caixa = t.caixa /\ n.iniciais = t.iniciais /\ n.posicionadas = t.posicionadas
      /\ n.peoes = r /\ n.recebidas = t.recebidas /\ n.peao = t.peao
  BY <1>1, <1>2 DEF Bom, Tabuleiros
<1>4. PeoesSobrePecas(n) /\ PecasSeparadas(n) /\ AlvosDasVagas(n)
  BY <1>1, <1>3 DEF Bom, PeoesSobrePecas, PecasSeparadas, AlvosDasVagas, Mesa, Pendentes, CelulaDe
<1>5. QED
  BY <1>1, <1>3, <1>4 DEF Bom, n

LEMMA PeaoEmPecaBom ==
  ASSUME NEW t, Bom(t), NEW j \in DOMAIN t.peoes, NEW p \in Mesa(t), ~EhMonstro(p)
  PROVE  LET n == [t EXCEPT !.peoes[j] = p]
         IN  /\ Bom(n) /\ n.posicionadas = t.posicionadas /\ n.caixa = t.caixa
             /\ n.recebidas = t.recebidas /\ n.iniciais = t.iniciais /\ n.peao = t.peao
             /\ n.peoes = [t.peoes EXCEPT ![j] = p]
<1> DEFINE n == [t EXCEPT !.peoes[j] = p]
           r == [t.peoes EXCEPT ![j] = p]
<1>1. p \in Pecas
  BY MesaDe DEF Bom
<1>2. /\ r \in Parcial(Jogadores, Pecas \cup {Nada})
      /\ DOMAIN r = DOMAIN t.peoes /\ r[j] = p /\ \A k \in DOMAIN r \ {j} : r[k] = t.peoes[k]
  BY <1>1, ParcialTrocada DEF Bom, Tabuleiros
<1>3. n = [t EXCEPT !.peoes = r]
  BY DEF Bom, Tabuleiros
<1> HIDE DEF n, r
<1>4. /\ n \in Tabuleiros
      /\ n.caixa = t.caixa /\ n.iniciais = t.iniciais /\ n.posicionadas = t.posicionadas
      /\ n.peoes = r /\ n.recebidas = t.recebidas /\ n.peao = t.peao
  BY <1>2, <1>3 DEF Bom, Tabuleiros
<1>5. PeoesSobrePecas(n) /\ PecasSeparadas(n) /\ AlvosDasVagas(n)
  BY <1>2, <1>4 DEF Bom, PeoesSobrePecas, PecasSeparadas, AlvosDasVagas, Mesa, Pendentes, CelulaDe
<1>6. QED
  BY <1>2, <1>4, <1>5 DEF Bom, n, r

(* The cleaning takes no piece with a pawn on it.                          *)
LEMMA LimpezaBom ==
  ASSUME NEW t, Bom(t), NEW luz
  PROVE  LET n == AplicarLimpeza(t, luz)
         IN  /\ Bom(n) /\ n.peoes = t.peoes /\ n.caixa = t.caixa
             /\ n.recebidas = t.recebidas /\ n.iniciais = t.iniciais /\ n.peao = t.peao
             /\ n.manipulacao = t.manipulacao /\ n.selecionada = t.selecionada
             /\ Mesa(n) = {p \in Mesa(t) : CelulaDe(t, p) \in luz \/ Ocupantes(t, p) # {}}
             /\ \A p \in Mesa(n) : n.posicionadas[p] = t.posicionadas[p]
<1> DEFINE n == AplicarLimpeza(t, luz)
           S == {p \in Mesa(t) : CelulaDe(t, p) \in luz \/ Ocupantes(t, p) # {}}
           r == Restringir(t.posicionadas, S)
<1>1. S \subseteq Mesa(t) /\ \A j \in DOMAIN t.peoes : t.peoes[j] \in Mesa(t) => t.peoes[j] \in S
  BY DEF Ocupantes
<1>2. n = [t EXCEPT !.posicionadas = r]
  BY DEF AplicarLimpeza, Bom, Tabuleiros
<1>3. Mesa(n) = S <=> DOMAIN r = S
  BY <1>2 DEF Mesa, Bom, Tabuleiros
<1>4. S = {p \in Mesa(t) : CelulaDe(t, p) \in luz \/ Ocupantes(t, p) # {}}
  OBVIOUS
<1> HIDE DEF n, S
<1>5. /\ r \in Parcial(Pecas, Posicionada)
      /\ DOMAIN r = S /\ \A p \in S : r[p] = t.posicionadas[p]
  BY <1>1, ParcialRestrita DEF Bom, Tabuleiros, Mesa
<1> HIDE DEF r
<1>6. /\ n \in Tabuleiros
      /\ n.caixa = t.caixa /\ n.iniciais = t.iniciais /\ n.posicionadas = r
      /\ n.peoes = t.peoes /\ n.recebidas = t.recebidas /\ n.peao = t.peao
      /\ n.manipulacao = t.manipulacao /\ n.selecionada = t.selecionada
  BY <1>2, <1>5 DEF Bom, Tabuleiros
<1>7. PeoesSobrePecas(n) /\ PecasSeparadas(n) /\ AlvosDasVagas(n)
  <2>1. PeoesSobrePecas(n)
    BY <1>1, <1>3, <1>5, <1>6 DEF Bom, PeoesSobrePecas
  <2>2. PecasSeparadas(n)
    BY <1>1, <1>3, <1>5, <1>6 DEF Bom, PecasSeparadas, Pendentes, CelulaDe
  <2>3. QED
    BY <1>6, <2>1, <2>2 DEF Bom, AlvosDasVagas, Pendentes
<1>8. QED
  BY <1>3, <1>4, <1>5, <1>6, <1>7 DEF Bom, n

(* What an attack gives back to the Caixa was drawn from it.               *)
LEMMA CaixaBom ==
  ASSUME NEW t, Bom(t), NEW c \in Seq(PecasDaCaixa), SemRepeticao(c), PecasDa(c) \cap Mesa(t) = {},
         NEW n, n = [t EXCEPT !.caixa = c, !.recebidas = <<>>]
  PROVE  /\ Bom(n) /\ n.peoes = t.peoes /\ n.posicionadas = t.posicionadas /\ n.caixa = c
         /\ n.recebidas = <<>> /\ n.iniciais = t.iniciais /\ n.peao = t.peao
         /\ n.manipulacao = t.manipulacao
<1>1. /\ n \in Tabuleiros
      /\ n.caixa = c /\ n.iniciais = t.iniciais /\ n.posicionadas = t.posicionadas
      /\ n.peoes = t.peoes /\ n.recebidas = <<>> /\ n.peao = t.peao
      /\ n.manipulacao = t.manipulacao
  BY ParcialVazia DEF Bom, Tabuleiros
<1>2. Pendentes(n) = {}
  BY <1>1, ParcialVazia DEF Pendentes
<1>3. PeoesSobrePecas(n) /\ PecasSeparadas(n) /\ AlvosDasVagas(n)
  BY <1>1, <1>2 DEF Bom, PeoesSobrePecas, PecasSeparadas, AlvosDasVagas, Mesa, CelulaDe
<1>4. QED
  BY <1>1, <1>3 DEF Bom

LEMMA QuantidadeCabe ==
  ASSUME NEW t, Bom(t), NEW p \in Mesa(t), NEW emBaixa, NEW luz
  PROVE  QuantidadeSorteada(t, p, emBaixa, luz) \in 0 .. Len(t.caixa)
<1> DEFINE S == VagasParaSortear(t, p, emBaixa, luz)
           s == [t EXCEPT !.recebidas = <<>>]
<1>1. s.posicionadas = t.posicionadas
  BY DEF Bom, Tabuleiros
<1>2. VagasDisponiveis(s, p) \subseteq Aberturas(t, p)
  BY <1>1 DEF VagasDisponiveis, Aberturas
<1>3. S \subseteq Bordas
  <2>1. S \subseteq VagasDisponiveis(s, p)
    BY DEF VagasParaSortear
  <2>2. Aberturas(t, p) \subseteq Bordas
    BY MesaDe DEF Bom
  <2>3. QED
    BY <1>2, <2>1, <2>2
<1>4. IsFiniteSet(Bordas)
  <2>1. 0 \in Int /\ 3 \in Int
    OBVIOUS
  <2>2. QED
    BY <2>1, FS_Interval, Zenon DEF Bordas
<1>5. Cardinality(S) \in Nat
  BY <1>3, <1>4, FS_Subset, FS_CardinalityType
<1>6. Len(t.caixa) \in Nat
  BY LenProperties DEF Bom, Tabuleiros
<1> HIDE DEF S
<1>7. QED
  BY <1>5, <1>6 DEF QuantidadeSorteada, Menor, S

LEMMA SorteioBom ==
  ASSUME NEW t, Bom(t), NEW p \in Mesa(t), NEW emBaixa, NEW luz, NEW alvo \in Celulas \cup {Nada}
  PROVE  LET n == GerarRecebidas(t, p, emBaixa, luz, alvo)
         IN  /\ Bom(n) /\ n.peoes = t.peoes /\ n.posicionadas = t.posicionadas
             /\ n.iniciais = t.iniciais /\ n.peao = t.peao /\ n.manipulacao = t.manipulacao
             /\ Pendentes(n) \subseteq PecasDa(t.caixa) /\ PecasDa(n.caixa) \subseteq PecasDa(t.caixa)
             /\ \A r \in Pendentes(n) : n.recebidas[r] = [orientacao |-> 0, vaga |-> Nada, alvo |-> alvo]
<1> DEFINE n == GerarRecebidas(t, p, emBaixa, luz, alvo)
           q == QuantidadeSorteada(t, p, emBaixa, luz)
           c == SubSeq(t.caixa, q + 1, Len(t.caixa))
           S == {t.caixa[i] : i \in 1..q}
           r == [x \in S |-> [orientacao |-> 0, vaga |-> Nada, alvo |-> alvo]]
<1>1. q \in 0 .. Len(t.caixa) /\ Len(t.caixa) \in Nat /\ t.caixa \in Seq(PecasDaCaixa)
  BY QuantidadeCabe, LenProperties DEF Bom, Tabuleiros
<1>2. n = [t EXCEPT !.caixa = c, !.recebidas = r]
  BY DEF GerarRecebidas
<1> HIDE DEF n, q
<1>3. DOMAIN t.caixa = 1 .. Len(t.caixa) /\ \A i \in DOMAIN t.caixa : t.caixa[i] \in PecasDaCaixa
  BY <1>1, LenProperties, ElementOfSeq
<1>4. /\ c \in Seq(PecasDaCaixa) /\ Len(c) = Len(t.caixa) - q /\ DOMAIN c = 1 .. Len(t.caixa) - q
      /\ \A i \in 1 .. Len(t.caixa) - q : c[i] = t.caixa[q + i]
  BY <1>1, <1>3
<1>5. S \subseteq PecasDa(t.caixa) /\ S \subseteq PecasDaCaixa
  BY <1>1, <1>3 DEF PecasDa
<1>6. r \in Parcial(PecasDaCaixa, Recebida)
  <2>1. [orientacao |-> 0, vaga |-> Nada, alvo |-> alvo] \in Recebida
    BY DEF Recebida, Orientacoes
  <2>2. r \in [S -> Recebida]
    BY <2>1
  <2>3. QED
    BY <1>5, <2>2 DEF Parcial
<1>7. PecasDa(c) \subseteq PecasDa(t.caixa) /\ PecasDa(c) \cap S = {} /\ SemRepeticao(c)
  <2>0. SemRepeticao(t.caixa)
    BY DEF Bom, PecasSeparadas
  <2>1. \A i \in DOMAIN c : q + i \in DOMAIN t.caixa /\ q + i > q /\ i \in Nat
    BY <1>1, <1>3, <1>4
  <2>2. PecasDa(c) \subseteq PecasDa(t.caixa)
    BY <1>4, <2>1 DEF PecasDa
  <2>3. \A i \in 1 .. q : i \in DOMAIN t.caixa /\ i <= q
    BY <1>1, <1>3
  <2>4. PecasDa(c) \cap S = {}
    <3> SUFFICES ASSUME NEW i \in DOMAIN c, NEW k \in 1 .. q, c[i] = t.caixa[k] PROVE FALSE
      BY DEF PecasDa
    <3>1. t.caixa[q + i] = t.caixa[k]
      BY <1>4
    <3>2. q + i = k
      BY <2>0, <2>1, <2>3, <3>1 DEF SemRepeticao
    <3>3. QED
      BY <1>1, <2>1, <2>3, <3>2
  <2>5. SemRepeticao(c)
    <3> SUFFICES ASSUME NEW i \in DOMAIN c, NEW k \in DOMAIN c, c[i] = c[k] PROVE i = k
      BY DEF SemRepeticao
    <3>1. q + i = q + k
      BY <1>4, <2>0, <2>1 DEF SemRepeticao
    <3>2. QED
      BY <1>1, <2>1, <3>1
  <2>6. QED
    BY <2>2, <2>4, <2>5
<1>8. DOMAIN r = S /\ \A x \in S : r[x] = [orientacao |-> 0, vaga |-> Nada, alvo |-> alvo]
  OBVIOUS
<1> HIDE DEF c, S, r
<1>9. /\ n \in Tabuleiros
      /\ n.caixa = c /\ n.iniciais = t.iniciais /\ n.posicionadas = t.posicionadas
      /\ n.peoes = t.peoes /\ n.recebidas = r /\ n.peao = t.peao
      /\ n.manipulacao = t.manipulacao
  BY <1>2, <1>4, <1>6 DEF Bom, Tabuleiros
<1>10. Pendentes(n) = S /\ Mesa(n) = Mesa(t) /\ PecasDa(t.caixa) \cap Mesa(t) = {}
  BY <1>8, <1>9 DEF Pendentes, Mesa, Bom, PecasSeparadas
<1>11. PeoesSobrePecas(n) /\ PecasSeparadas(n) /\ AlvosDasVagas(n)
  <2>1. PeoesSobrePecas(n)
    BY <1>9, <1>10 DEF Bom, PeoesSobrePecas
  <2>2. PecasSeparadas(n)
    BY <1>5, <1>7, <1>9, <1>10 DEF Bom, PecasSeparadas, CelulaDe
  <2>3. AlvosDasVagas(n)
    BY <1>8, <1>9, <1>10 DEF AlvosDasVagas
  <2>4. QED
    BY <2>1, <2>2, <2>3
<1>12. QED
  BY <1>5, <1>7, <1>8, <1>9, <1>10, <1>11 DEF Bom, n

LEMMA SorteioLivre ==
  ASSUME NEW t, Bom(t), NEW p \in Mesa(t), NEW n, \E e, l : n = GerarRecebidas(t, p, e, l, Nada)
  PROVE  /\ Bom(n) /\ n.peoes = t.peoes /\ n.posicionadas = t.posicionadas
         /\ n.iniciais = t.iniciais /\ n.peao = t.peao /\ n.manipulacao = t.manipulacao
         /\ \A r \in Pendentes(n) :
              n.recebidas[r] = [orientacao |-> 0, vaga |-> Nada, alvo |-> Nada]
         /\ Fora(n) \subseteq Fora(t)
<1>1. Nada \in Celulas \cup {Nada}
  OBVIOUS
<1>2. /\ Bom(n) /\ n.peoes = t.peoes /\ n.posicionadas = t.posicionadas
      /\ n.iniciais = t.iniciais /\ n.peao = t.peao /\ n.manipulacao = t.manipulacao
      /\ Pendentes(n) \subseteq PecasDa(t.caixa) /\ PecasDa(n.caixa) \subseteq PecasDa(t.caixa)
      /\ \A r \in Pendentes(n) :
           n.recebidas[r] = [orientacao |-> 0, vaga |-> Nada, alvo |-> Nada]
  BY <1>1, SorteioBom
<1>3. QED
  BY <1>2 DEF Fora

(* The commands that turn, place and fix pieces.                           *)
LEMMA GirarBom ==
  ASSUME NEW t, Bom(t), NEW p \in DOMAIN t.iniciais \cup Mesa(t) \cup Pendentes(t), NEW passo \in Int
  PROVE  LET n == GirarPeca(t, p, passo)
         IN  /\ Bom(n) /\ n.peoes = t.peoes /\ n.caixa = t.caixa /\ n.peao = t.peao
             /\ n.manipulacao = t.manipulacao
             /\ Mesa(n) = Mesa(t) /\ Pendentes(n) = Pendentes(t)
             /\ DOMAIN n.iniciais = DOMAIN t.iniciais
             /\ \A q \in Mesa(t) : CelulaDe(n, q) = CelulaDe(t, q)
             /\ \A q \in Mesa(t) \ {p} : n.posicionadas[q] = t.posicionadas[q]
             /\ p \in Mesa(t) => n.posicionadas[p].orientacao = Rotacionar(t.posicionadas[p].orientacao, passo)
             /\ p \in Mesa(t) => n.recebidas = t.recebidas
             /\ p \notin Mesa(t) => n.posicionadas = t.posicionadas
             /\ \A q \in Pendentes(t) : /\ n.recebidas[q].vaga = t.recebidas[q].vaga
                                       /\ n.recebidas[q].alvo = t.recebidas[q].alvo
<1> DEFINE n == GirarPeca(t, p, passo)
<1>0. t \in Tabuleiros
  BY DEF Bom
<1>1. CASE p \in Mesa(t)
  <2> DEFINE v == [t.posicionadas[p] EXCEPT !.orientacao = Rotacionar(@, passo)]
             r == [t.posicionadas EXCEPT ![p] = v]
  <2>1. t.posicionadas[p] \in Posicionada
    BY <1>0, <1>1, MesaDe
  <2>2. v \in Posicionada /\ v.celula = t.posicionadas[p].celula
        /\ v.orientacao = Rotacionar(t.posicionadas[p].orientacao, passo)
    BY <2>1, Rotacionada DEF Posicionada, Orientacoes
  <2>3. n = [t EXCEPT !.posicionadas = r]
    BY <1>0, <1>1 DEF GirarPeca, Tabuleiros
  <2> HIDE DEF v
  <2>4. /\ r \in Parcial(Pecas, Posicionada)
        /\ DOMAIN r = Mesa(t) /\ r[p] = v /\ \A q \in Mesa(t) \ {p} : r[q] = t.posicionadas[q]
    BY <1>0, <1>1, <2>2, ParcialTrocada DEF Tabuleiros, Mesa
  <2> HIDE DEF n, r
  <2>5. /\ n \in Tabuleiros
        /\ n.caixa = t.caixa /\ n.iniciais = t.iniciais /\ n.posicionadas = r
        /\ n.peoes = t.peoes /\ n.recebidas = t.recebidas /\ n.peao = t.peao
        /\ n.manipulacao = t.manipulacao
    BY <1>0, <2>3, <2>4 DEF Tabuleiros
  <2>6. /\ Mesa(n) = Mesa(t) /\ Pendentes(n) = Pendentes(t)
        /\ \A q \in Mesa(t) : CelulaDe(n, q) = CelulaDe(t, q)
    BY <2>2, <2>4, <2>5 DEF Mesa, Pendentes, CelulaDe
  <2>7. PeoesSobrePecas(n) /\ PecasSeparadas(n) /\ AlvosDasVagas(n)
    BY <2>5, <2>6 DEF Bom, PeoesSobrePecas, PecasSeparadas, AlvosDasVagas
  <2>8. QED
    BY <1>1, <2>2, <2>4, <2>5, <2>6, <2>7 DEF Bom, n
<1>2. CASE p \notin Mesa(t) /\ p \in Pendentes(t)
  <2> DEFINE v == [t.recebidas[p] EXCEPT !.orientacao = Rotacionar(@, passo)]
             r == [t.recebidas EXCEPT ![p] = v]
  <2>1. t.recebidas[p] \in Recebida
    BY <1>0, <1>2, MesaDe
  <2>2. v \in Recebida /\ v.vaga = t.recebidas[p].vaga /\ v.alvo = t.recebidas[p].alvo
    BY <2>1, Rotacionada DEF Recebida, Orientacoes
  <2>3. n = [t EXCEPT !.recebidas = r]
    BY <1>0, <1>2 DEF GirarPeca, Tabuleiros
  <2> HIDE DEF v
  <2>4. /\ r \in Parcial(PecasDaCaixa, Recebida)
        /\ DOMAIN r = Pendentes(t) /\ r[p] = v
        /\ \A q \in Pendentes(t) \ {p} : r[q] = t.recebidas[q]
    BY <1>0, <1>2, <2>2, ParcialTrocada DEF Tabuleiros, Pendentes
  <2> HIDE DEF n, r
  <2>5. /\ n \in Tabuleiros
        /\ n.caixa = t.caixa /\ n.iniciais = t.iniciais /\ n.posicionadas = t.posicionadas
        /\ n.peoes = t.peoes /\ n.recebidas = r /\ n.peao = t.peao
        /\ n.manipulacao = t.manipulacao
    BY <1>0, <2>3, <2>4 DEF Tabuleiros
  <2>6. /\ Mesa(n) = Mesa(t) /\ Pendentes(n) = Pendentes(t)
        /\ \A q \in Mesa(t) : CelulaDe(n, q) = CelulaDe(t, q)
    BY <2>4, <2>5 DEF Mesa, Pendentes, CelulaDe
  <2>7. PeoesSobrePecas(n) /\ PecasSeparadas(n) /\ AlvosDasVagas(n)
    BY <2>2, <2>4, <2>5, <2>6 DEF Bom, PeoesSobrePecas, PecasSeparadas, AlvosDasVagas
  <2>8. \A q \in Pendentes(t) : /\ n.recebidas[q].vaga = t.recebidas[q].vaga
                                /\ n.recebidas[q].alvo = t.recebidas[q].alvo
    BY <2>2, <2>4, <2>5
  <2>9. QED
    BY <1>2, <2>5, <2>6, <2>7, <2>8 DEF Bom, n
<1>3. CASE p \notin Mesa(t) /\ p \notin Pendentes(t)
  <2> DEFINE v == Rotacionar(t.iniciais[p], passo)
             r == [t.iniciais EXCEPT ![p] = v]
  <2>1. t.iniciais \in Parcial(PecasIniciais, Orientacoes) /\ p \in DOMAIN t.iniciais
    BY <1>0, <1>3 DEF Tabuleiros
  <2>2. v \in Orientacoes
    BY <2>1, ParcialDe, Rotacionada DEF Orientacoes
  <2>3. n = [t EXCEPT !.iniciais = r]
    BY <1>0, <1>3 DEF GirarPeca, Tabuleiros
  <2> HIDE DEF v
  <2>4. r \in Parcial(PecasIniciais, Orientacoes) /\ DOMAIN r = DOMAIN t.iniciais
    BY <2>1, <2>2, ParcialTrocada
  <2> HIDE DEF n, r
  <2>5. /\ n \in Tabuleiros
        /\ n.caixa = t.caixa /\ n.iniciais = r /\ n.posicionadas = t.posicionadas
        /\ n.peoes = t.peoes /\ n.recebidas = t.recebidas /\ n.peao = t.peao
        /\ n.manipulacao = t.manipulacao
    BY <1>0, <2>3, <2>4 DEF Tabuleiros
  <2>6. /\ Mesa(n) = Mesa(t) /\ Pendentes(n) = Pendentes(t)
        /\ \A q \in Mesa(t) : CelulaDe(n, q) = CelulaDe(t, q)
    BY <2>5 DEF Mesa, Pendentes, CelulaDe
  <2>7. PeoesSobrePecas(n) /\ PecasSeparadas(n) /\ AlvosDasVagas(n)
    BY <2>4, <2>5, <2>6 DEF Bom, PeoesSobrePecas, PecasSeparadas, AlvosDasVagas
  <2>8. QED
    BY <1>3, <2>4, <2>5, <2>6, <2>7 DEF Bom, n
<1>4. QED
  BY <1>1, <1>2, <1>3

LEMMA PosicionarInicialBom ==
  ASSUME NEW t, Bom(t), NEW p, NEW c \in Celulas, PodePosicionarInicial(t, p, c)
  PROVE  LET n == PosicionarInicial(t, p, c)
         IN  /\ Bom(n) /\ n.peoes = t.peoes /\ n.caixa = t.caixa /\ n.peao = t.peao
             /\ n.recebidas = t.recebidas /\ n.manipulacao = p
             /\ Mesa(n) = Mesa(t) \cup {p} /\ p \notin Mesa(t) /\ p \in PecasIniciais
             /\ DOMAIN n.iniciais = DOMAIN t.iniciais \ {p}
             /\ \A q \in Mesa(t) : n.posicionadas[q] = t.posicionadas[q]
             /\ CelulaDe(n, p) = c
<1> DEFINE n == PosicionarInicial(t, p, c)
           v == [celula |-> c, orientacao |-> t.iniciais[p]]
           r == Estender(t.posicionadas, p, v)
           i == Restringir(t.iniciais, DOMAIN t.iniciais \ {p})
<1>1. t \in Tabuleiros /\ p \in DOMAIN t.iniciais /\ Vazia(t, c)
      /\ t.posicionadas \in Parcial(Pecas, Posicionada)
      /\ t.iniciais \in Parcial(PecasIniciais, Orientacoes)
  BY DEF Bom, PodePosicionarInicial, Tabuleiros
<1>2. p \in PecasIniciais /\ p \in Pecas /\ p \notin Mesa(t) /\ t.iniciais[p] \in Orientacoes
  BY <1>1, ParcialDe DEF Bom, PecasSeparadas, Pecas
<1>3. v \in Posicionada /\ v.celula = c
  BY <1>2 DEF Posicionada
<1>4. n = [t EXCEPT !.iniciais = i, !.posicionadas = r, !.selecionada = Nada, !.manipulacao = p]
  BY <1>1 DEF PosicionarInicial, Tabuleiros
<1> HIDE DEF n, v
<1>5. /\ r \in Parcial(Pecas, Posicionada) /\ DOMAIN r = Mesa(t) \cup {p} /\ r[p] = v
      /\ \A q \in Mesa(t) : r[q] = t.posicionadas[q]
  <2> HIDE DEF r
  <2>1. /\ r \in Parcial(Pecas, Posicionada)
        /\ DOMAIN r = DOMAIN t.posicionadas \cup {p} /\ r[p] = v
        /\ \A q \in DOMAIN t.posicionadas \ {p} : r[q] = t.posicionadas[q]
    <3>1. t.posicionadas \in Parcial(Pecas, Posicionada) /\ p \in Pecas /\ v \in Posicionada
      BY <1>1, <1>2, <1>3
    <3>2. QED
      BY <3>1, ParcialEstendida DEF r
  <2>2. QED
    BY <1>2, <2>1 DEF Mesa
<1>6. i \in Parcial(PecasIniciais, Orientacoes) /\ DOMAIN i = DOMAIN t.iniciais \ {p}
  BY <1>1, ParcialRestrita
<1> HIDE DEF r, i
<1>7. /\ n \in Tabuleiros
      /\ n.caixa = t.caixa /\ n.iniciais = i /\ n.posicionadas = r
      /\ n.peoes = t.peoes /\ n.recebidas = t.recebidas /\ n.peao = t.peao
      /\ n.manipulacao = p
  BY <1>1, <1>2, <1>4, <1>5, <1>6 DEF Tabuleiros
<1>8. /\ Mesa(n) = Mesa(t) \cup {p} /\ Pendentes(n) = Pendentes(t)
      /\ \A q \in Mesa(t) : CelulaDe(n, q) = CelulaDe(t, q)
      /\ CelulaDe(n, p) = c
  BY <1>2, <1>3, <1>5, <1>7 DEF Mesa, Pendentes, CelulaDe
<1>9. p \notin Pendentes(t) /\ p \notin PecasDa(t.caixa)
  <2>1. Pendentes(t) \subseteq PecasDaCaixa
    BY <1>1, MesaDe
  <2>2. PecasDa(t.caixa) \subseteq PecasDaCaixa
    BY <1>1, ElementOfSeq, LenProperties DEF PecasDa, Tabuleiros
  <2>3. QED
    BY <1>2, <2>1, <2>2, TiposDistintos
<1>10. PeoesSobrePecas(n) /\ PecasSeparadas(n) /\ AlvosDasVagas(n)
  <2>1. PeoesSobrePecas(n)
    BY <1>7, <1>8 DEF Bom, PeoesSobrePecas
  <2>2. \A a, b \in Mesa(n) : a # b => CelulaDe(n, a) # CelulaDe(n, b)
    BY <1>1, <1>8 DEF Bom, PecasSeparadas, Vazia
  <2>3. PecasSeparadas(n)
    BY <1>6, <1>7, <1>8, <1>9, <2>2 DEF Bom, PecasSeparadas
  <2>4. AlvosDasVagas(n)
    BY <1>7 DEF Bom, AlvosDasVagas, Pendentes
  <2>5. QED
    BY <2>1, <2>3, <2>4
<1>11. QED
  BY <1>2, <1>5, <1>6, <1>7, <1>8, <1>10 DEF Bom, n

LEMMA PosicionarRecebidaBom ==
  ASSUME NEW t, Bom(t), NEW p, NEW c, PodePosicionarRecebida(t, p, c)
  PROVE  LET n == PosicionarRecebida(t, p, c)
         IN  /\ Bom(n) /\ n.peoes = t.peoes /\ n.caixa = t.caixa /\ n.peao = t.peao
             /\ n.iniciais = t.iniciais /\ n.manipulacao \in {Nada, p}
             /\ Mesa(n) = Mesa(t) \cup {p} /\ p \notin Mesa(t) /\ p \in PecasDaCaixa
             /\ Pendentes(n) = Pendentes(t) \ {p} /\ p \in Pendentes(t)
             /\ \A q \in Mesa(t) : n.posicionadas[q] = t.posicionadas[q]
             /\ \A q \in Pendentes(n) : n.recebidas[q] = t.recebidas[q]
             /\ n.posicionadas[p] = [celula |-> c, orientacao |-> t.recebidas[p].orientacao]
             /\ c \in Celulas
<1> DEFINE n == PosicionarRecebida(t, p, c)
           v == [celula |-> c, orientacao |-> t.recebidas[p].orientacao]
           r == Estender(t.posicionadas, p, v)
           i == Restringir(t.recebidas, DOMAIN t.recebidas \ {p})
           m == IF EhEspecial(p) \/ EhMonstro(p) THEN Nada ELSE p
<1>1. t \in Tabuleiros /\ p \in Pendentes(t) /\ Vazia(t, c)
      /\ t.posicionadas \in Parcial(Pecas, Posicionada)
      /\ t.recebidas \in Parcial(PecasDaCaixa, Recebida)
  BY DEF Bom, PodePosicionarRecebida, Tabuleiros
<1>2. p \in PecasDaCaixa /\ p \in Pecas /\ p \notin Mesa(t) /\ t.recebidas[p] \in Recebida
  BY <1>1, MesaDe DEF Bom, PecasSeparadas, Pecas
<1>3. c \in Celulas
  BY <1>1, <1>2 DEF Bom, AlvosDasVagas, PodePosicionarRecebida, Recebida
<1>4. v \in Posicionada /\ v.celula = c
  BY <1>2, <1>3 DEF Posicionada, Recebida
<1>5. n = [t EXCEPT !.recebidas = i, !.posicionadas = r, !.selecionada = Nada, !.manipulacao = m]
  BY <1>1 DEF PosicionarRecebida, Tabuleiros
<1>6. m \in Pecas \cup {Nada} /\ m \in {Nada, p}
  BY <1>2
<1> HIDE DEF n, m
<1>7. /\ r \in Parcial(Pecas, Posicionada) /\ DOMAIN r = Mesa(t) \cup {p} /\ r[p] = v
      /\ \A q \in Mesa(t) : r[q] = t.posicionadas[q]
  <2> HIDE DEF v, r
  <2>1. /\ r \in Parcial(Pecas, Posicionada)
        /\ DOMAIN r = DOMAIN t.posicionadas \cup {p} /\ r[p] = v
        /\ \A q \in DOMAIN t.posicionadas \ {p} : r[q] = t.posicionadas[q]
    <3>1. t.posicionadas \in Parcial(Pecas, Posicionada) /\ p \in Pecas /\ v \in Posicionada
      BY <1>1, <1>2, <1>4
    <3>2. QED
      BY <3>1, ParcialEstendida DEF r
  <2>2. QED
    BY <1>2, <2>1 DEF Mesa
<1>8. /\ i \in Parcial(PecasDaCaixa, Recebida) /\ DOMAIN i = Pendentes(t) \ {p}
      /\ \A q \in Pendentes(t) \ {p} : i[q] = t.recebidas[q]
  BY <1>1, ParcialRestrita DEF Pendentes
<1> HIDE DEF r, i
<1>9. /\ n \in Tabuleiros
      /\ n.caixa = t.caixa /\ n.iniciais = t.iniciais /\ n.posicionadas = r
      /\ n.peoes = t.peoes /\ n.recebidas = i /\ n.peao = t.peao
      /\ n.manipulacao \in {Nada, p}
  BY <1>1, <1>5, <1>6, <1>7, <1>8 DEF Tabuleiros
<1>10. /\ Mesa(n) = Mesa(t) \cup {p} /\ Pendentes(n) = Pendentes(t) \ {p}
       /\ \A q \in Mesa(t) : CelulaDe(n, q) = CelulaDe(t, q)
       /\ CelulaDe(n, p) = c
  BY <1>2, <1>4, <1>7, <1>8, <1>9 DEF Mesa, Pendentes, CelulaDe
<1>11. p \notin DOMAIN t.iniciais /\ p \notin PecasDa(t.caixa)
  BY <1>1, <1>2, MesaDe, TiposDistintos DEF Bom, PecasSeparadas
<1>12. PeoesSobrePecas(n) /\ PecasSeparadas(n) /\ AlvosDasVagas(n)
  <2>1. PeoesSobrePecas(n)
    BY <1>9, <1>10 DEF Bom, PeoesSobrePecas
  <2>2. \A a, b \in Mesa(n) : a # b => CelulaDe(n, a) # CelulaDe(n, b)
    BY <1>1, <1>10 DEF Bom, PecasSeparadas, Vazia
  <2>3. PecasSeparadas(n)
    BY <1>9, <1>10, <1>11, <2>2 DEF Bom, PecasSeparadas
  <2>4. AlvosDasVagas(n)
    BY <1>8, <1>9, <1>10 DEF Bom, AlvosDasVagas
  <2>5. QED
    BY <2>1, <2>3, <2>4
<1>13. QED
  BY <1>1, <1>2, <1>3, <1>7, <1>8, <1>9, <1>10, <1>12 DEF Bom, n

LEMMA VagaBorda ==
  ASSUME NEW t, Bom(t), NEW p \in Mesa(t)
  PROVE  /\ VagasDisponiveis(t, p) \subseteq Bordas
         /\ \A b \in VagasDisponiveis(t, p) : Vizinha(CelulaDe(t, p), b) \in Celulas
<1>1. Aberturas(t, p) \subseteq Bordas /\ CelulaDe(t, p) \in Celulas
  BY MesaDe DEF Bom
<1>2. QED
  BY <1>1, VizinhaCelula DEF VagasDisponiveis

LEMMA EscolherVagaBom ==
  ASSUME NEW t, Bom(t), NEW r, NEW b, PodeEscolherVaga(t, r, b)
  PROVE  LET n == EscolherVaga(t, r, b)
             c == Vizinha(CelulaDe(t, PecaSob(t, t.peao)), b)
         IN  /\ Bom(n) /\ n.peoes = t.peoes /\ n.caixa = t.caixa /\ n.peao = t.peao
             /\ n.iniciais = t.iniciais /\ n.posicionadas = t.posicionadas
             /\ n.manipulacao = Nada
             /\ Pendentes(n) = Pendentes(t) /\ b \in Bordas /\ c \in Celulas
             /\ PecaSob(t, t.peao) \in Mesa(t)
             /\ n.recebidas[r].vaga = b /\ n.recebidas[r].alvo = c
             /\ n.recebidas[r].orientacao = t.recebidas[r].orientacao
             /\ \A q \in Pendentes(t) \ {r} : n.recebidas[q] = t.recebidas[q]
<1> DEFINE n == EscolherVaga(t, r, b)
           c == Vizinha(CelulaDe(t, PecaSob(t, t.peao)), b)
           v == [t.recebidas[r] EXCEPT !.vaga = b, !.alvo = c]
           f == [t.recebidas EXCEPT ![r] = v]
<1>1. t \in Tabuleiros /\ r \in Pendentes(t) /\ r \in PecasDaCaixa /\ t.recebidas[r] \in Recebida
  BY MesaDe DEF Bom, PodeEscolherVaga
<1>2. PecaSob(t, t.peao) \in Mesa(t) /\ b \in VagasDisponiveis(t, PecaSob(t, t.peao))
  BY DEF PodeEscolherVaga, PecaSob
<1>3. b \in Bordas /\ c \in Celulas
  BY <1>2, VagaBorda
<1>4. n = [t EXCEPT !.recebidas = f, !.selecionada = r, !.manipulacao = Nada]
  BY <1>1 DEF EscolherVaga, Tabuleiros, Recebida
<1> HIDE DEF n, c
<1>5. v \in Recebida /\ v.vaga = b /\ v.alvo = c /\ v.orientacao = t.recebidas[r].orientacao
  BY <1>1, <1>3 DEF Recebida
<1> HIDE DEF v
<1>6. /\ f \in Parcial(PecasDaCaixa, Recebida)
      /\ DOMAIN f = Pendentes(t) /\ f[r] = v /\ \A q \in Pendentes(t) \ {r} : f[q] = t.recebidas[q]
  BY <1>1, <1>5, ParcialTrocada DEF Tabuleiros, Pendentes
<1> HIDE DEF f
<1>7. /\ n \in Tabuleiros
      /\ n.caixa = t.caixa /\ n.iniciais = t.iniciais /\ n.posicionadas = t.posicionadas
      /\ n.peoes = t.peoes /\ n.recebidas = f /\ n.peao = t.peao
      /\ n.manipulacao = Nada
  BY <1>1, <1>4, <1>6 DEF Tabuleiros, Pecas
<1>8. Mesa(n) = Mesa(t) /\ Pendentes(n) = Pendentes(t)
  BY <1>6, <1>7 DEF Mesa, Pendentes
<1>9. PeoesSobrePecas(n) /\ PecasSeparadas(n) /\ AlvosDasVagas(n)
  <2>1. PeoesSobrePecas(n) /\ PecasSeparadas(n)
    BY <1>7, <1>8 DEF Bom, PeoesSobrePecas, PecasSeparadas, CelulaDe
  <2>2. AlvosDasVagas(n)
    BY <1>3, <1>5, <1>6, <1>7, <1>8, NadaAssumption DEF Bom, AlvosDasVagas
  <2>3. QED
    BY <2>1, <2>2
<1>10. QED
  BY <1>2, <1>3, <1>5, <1>6, <1>7, <1>8, <1>9 DEF Bom, n, c

LEMMA PosicionarPeaoBom ==
  ASSUME NEW t, Bom(t), NEW j \in DOMAIN t.peoes, NEW p, PodePosicionarPeao(t, j, p)
  PROVE  LET n == PosicionarPeao(t, j, p)
         IN  /\ Bom(n) /\ n.posicionadas = t.posicionadas /\ n.caixa = t.caixa
             /\ n.recebidas = <<>> /\ n.iniciais = t.iniciais /\ n.peao = Nada
             /\ n.manipulacao = t.manipulacao
             /\ n.peoes = [t.peoes EXCEPT ![j] = p]
<1> DEFINE s == [t EXCEPT !.peoes[j] = p]
           n == PosicionarPeao(t, j, p)
<1>1. p \in Mesa(t) /\ ~EhMonstro(p) /\ t.recebidas = <<>> /\ t \in Tabuleiros
  BY DEF PodePosicionarPeao, EhInicial, EhMonstro, TiposDeMonstro, Bom
<1>2. /\ Bom(s) /\ s.posicionadas = t.posicionadas /\ s.caixa = t.caixa
      /\ s.recebidas = t.recebidas /\ s.iniciais = t.iniciais
      /\ s.peoes = [t.peoes EXCEPT ![j] = p]
  BY <1>1, PeaoEmPecaBom
<1>3. s.manipulacao = t.manipulacao /\ s \in Tabuleiros
  BY <1>1, <1>2 DEF Bom, Tabuleiros
<1>4. n = [s EXCEPT !.peao = Nada]
  BY <1>1 DEF PosicionarPeao, Tabuleiros
<1> HIDE DEF s, n
<1>5. /\ n \in Tabuleiros
      /\ n.caixa = s.caixa /\ n.iniciais = s.iniciais /\ n.posicionadas = s.posicionadas
      /\ n.peoes = s.peoes /\ n.recebidas = s.recebidas /\ n.peao = Nada
      /\ n.manipulacao = s.manipulacao
  BY <1>3, <1>4 DEF Tabuleiros
<1>6. Bom(n)
  BY <1>2, <1>5, MesmasPecas
<1>7. QED
  BY <1>1, <1>2, <1>3, <1>5, <1>6 DEF n

-----------------------------------------------------------------------------
(* The light, the roster and the order of the turns.                       *)

Elencos == Parcial(Jogadores, Jogador)

(* A Player is frightened exactly when without sanity.                     *)
Sadio(s) == s.amedrontado <=> s.sanidade = 0

LEMMA LuzCelulas ==
  ASSUME NEW t \in Tabuleiros, NEW js
  PROVE  Luz(t, js) \subseteq Celulas
<1> SUFFICES ASSUME NEW j \in DOMAIN t.peoes, NEW escuros
             PROVE  IluminadasPor(t, j, escuros) \subseteq Celulas
  BY DEF Luz, CalcularIluminacao
<1>1. CASE t.peoes[j] \in Mesa(t)
  BY <1>1, MesaDe, VizinhasCelulas DEF IluminadasPor
<1>2. CASE t.peoes[j] \notin Mesa(t)
  BY <1>2 DEF IluminadasPor
<1>3. QED
  BY <1>1, <1>2

LEMMA ElencoDe ==
  ASSUME NEW js \in Elencos
  PROVE  /\ DOMAIN js \subseteq Jogadores /\ \A j \in DOMAIN js : js[j] \in Jogador
         /\ Jogadores \subseteq 1..4 /\ IsFiniteSet(DOMAIN js) /\ Cardinality(DOMAIN js) \in Nat
<1>1. DOMAIN js \subseteq Jogadores /\ \A j \in DOMAIN js : js[j] \in Jogador
  BY ParcialDe DEF Elencos
<1>2. Jogadores \subseteq 1..4 /\ NumeroDeJogadores \in Int /\ 1 \in Int
  BY PartidaAssumption DEF Jogadores
<1>3. IsFiniteSet(Jogadores)
  BY <1>2, FS_Interval, Zenon DEF Jogadores
<1>4. QED
  BY <1>1, <1>2, <1>3, FS_Subset, FS_CardinalityType

LEMMA AposEspectroSadio ==
  ASSUME NEW s \in Jogador, Sadio(s)
  PROVE  /\ AposEspectro(s) \in Jogador /\ Sadio(AposEspectro(s))
         /\ AposEspectro(s).baixa = s.baixa /\ AposEspectro(s).primeiroTurno = s.primeiroTurno
         /\ s.amedrontado => AposEspectro(s).amedrontado
<1>1. CASE s.amedrontado \/ s.sanidade = 0
  <2>1. AposEspectro(s) = [s EXCEPT !.amedrontado = TRUE]
    BY <1>1 DEF AposEspectro
  <2>2. s.sanidade = 0
    BY <1>1 DEF Sadio
  <2>3. QED
    BY <2>1, <2>2 DEF Jogador, Sadio
<1>2. CASE ~(s.amedrontado \/ s.sanidade = 0)
  <2> DEFINE m == s.sanidade - 1
             b == s.sanidade = 1
  <2>1. AposEspectro(s) = [s EXCEPT !.sanidade = m, !.amedrontado = b]
    BY <1>2 DEF AposEspectro, Jogador
  <2>2. m \in 0..SanidadeMaxima /\ b \in BOOLEAN /\ (b <=> m = 0)
    BY <1>2, PartidaAssumption DEF Jogador
  <2> HIDE DEF m, b
  <2>3. [s EXCEPT !.sanidade = m, !.amedrontado = b] \in Jogador
    BY <2>2 DEF Jogador
  <2>4. QED
    BY <1>2, <2>1, <2>2, <2>3 DEF Jogador, Sadio
<1>3. QED
  BY <1>1, <1>2

LEMMA AtacadosForma ==
  ASSUME NEW t, NEW js \in Elencos, \A j \in DOMAIN js : Sadio(js[j]), NEW inicio, NEW decidida
  PROVE  LET r == Atacados(t, js, inicio, decidida)
         IN  /\ r \in Elencos /\ DOMAIN r = DOMAIN js
             /\ \A j \in DOMAIN js : /\ Sadio(r[j]) /\ r[j].primeiroTurno = js[j].primeiroTurno
                                     /\ js[j].baixa => r[j].baixa
                                     /\ js[j].amedrontado => r[j].amedrontado
<1> DEFINE atacantes == Atacantes(t, inicio, decidida)
           Alvos(tipo) == {j \in DOMAIN js : \E m \in atacantes :
                             Tipo(m) = tipo /\ t.peoes[j] \in CalcularAlcance(t, m)}
           V == Alvos("vulto")
           E == Alvos("espectro")
           C(j) == IF j \in V THEN [js[j] EXCEPT !.baixa = TRUE] ELSE js[j]
           F(j) == IF js[j].protegido THEN [js[j] EXCEPT !.protegido = j \notin V \cup E]
                   ELSE IF j \in E THEN AposEspectro(C(j)) ELSE C(j)
           r == Atacados(t, js, inicio, decidida)
<1>1. r = [j \in DOMAIN js |-> F(j)]
  BY DEF Atacados
<1> HIDE DEF V, E
<1>2. ASSUME NEW j \in DOMAIN js
      PROVE  /\ F(j) \in Jogador /\ Sadio(F(j)) /\ F(j).primeiroTurno = js[j].primeiroTurno
             /\ js[j].baixa => F(j).baixa
             /\ js[j].amedrontado => F(j).amedrontado
  <2>1. js[j] \in Jogador /\ Sadio(js[j])
    BY <1>2, ElencoDe
  <2>2. /\ C(j) \in Jogador /\ Sadio(C(j)) /\ C(j).primeiroTurno = js[j].primeiroTurno
        /\ js[j].baixa => C(j).baixa
        /\ C(j).amedrontado = js[j].amedrontado
    BY <2>1 DEF Jogador, Sadio
  <2> DEFINE x == [js[j] EXCEPT !.protegido = j \notin V \cup E]
  <2>3. /\ x \in Jogador /\ Sadio(x) /\ x.primeiroTurno = js[j].primeiroTurno
        /\ x.baixa = js[j].baixa /\ x.amedrontado = js[j].amedrontado
    <3>1. (j \notin V \cup E) \in BOOLEAN
      OBVIOUS
    <3> DEFINE b == j \notin V \cup E
    <3> HIDE DEF b
    <3>2. b \in BOOLEAN => x \in Jogador
      BY <2>1 DEF Jogador, b
    <3>3. x \in Jogador
      BY <3>1, <3>2 DEF b
    <3>4. QED
      BY <2>1, <3>3 DEF Jogador, Sadio
  <2> HIDE DEF x, C
  <2>4. /\ AposEspectro(C(j)) \in Jogador /\ Sadio(AposEspectro(C(j)))
        /\ AposEspectro(C(j)).baixa = C(j).baixa
        /\ AposEspectro(C(j)).primeiroTurno = C(j).primeiroTurno
        /\ C(j).amedrontado => AposEspectro(C(j)).amedrontado
    BY <2>2, AposEspectroSadio
  <2>5. F(j) \in {x, AposEspectro(C(j)), C(j)}
    BY DEF x
  <2> HIDE DEF F
  <2>6. QED
    BY <2>2, <2>3, <2>4, <2>5
<1> HIDE DEF F
<1>3. r \in [DOMAIN js -> Jogador]
  BY <1>1, <1>2
<1>4. r \in Elencos
  BY <1>3, ElencoDe DEF Elencos, Parcial
<1> HIDE DEF r
<1>5. QED
  BY <1>1, <1>2, <1>4 DEF r

LEMMA ResgatadosForma ==
  ASSUME NEW t, NEW js \in Elencos, \A j \in DOMAIN js : Sadio(js[j]), NEW p, NEW salvador \in DOMAIN js
  PROVE  LET r == Resgatados(t, js, p, salvador)
         IN  /\ r \in Elencos /\ DOMAIN r = DOMAIN js
             /\ \A j \in DOMAIN js : /\ Sadio(r[j]) /\ r[j].primeiroTurno = js[j].primeiroTurno
                                     /\ r[j] # js[j] => j # salvador /\ t.peoes[j] = p
<1> DEFINE r == Resgatados(t, js, p, salvador)
           F(j) == IF j # salvador /\ t.peoes[j] = p /\ Afetado(js[j])
                   THEN Resgatado(js[j], ~js[salvador].baixa) ELSE js[j]
<1>1. r = [j \in DOMAIN js |-> F(j)]
  BY DEF Resgatados
<1>2. ASSUME NEW j \in DOMAIN js
      PROVE  /\ F(j) \in Jogador /\ Sadio(F(j)) /\ F(j).primeiroTurno = js[j].primeiroTurno
             /\ F(j) # js[j] => j # salvador /\ t.peoes[j] = p
  <2>1. js[j] \in Jogador /\ Sadio(js[j]) /\ js[salvador] \in Jogador
    BY <1>2, ElencoDe
  <2> DEFINE b == ~js[salvador].baixa
             x == Resgatado(js[j], b)
  <2>2. b \in BOOLEAN
    OBVIOUS
  <2> HIDE DEF b
  <2>3. /\ x \in Jogador /\ Sadio(x) /\ x.primeiroTurno = js[j].primeiroTurno
    <3> DEFINE u == js[j]
               m == IF u.amedrontado THEN Menor(SanidadeMaxima, u.sanidade + 2) ELSE u.sanidade
               e == u.baixa /\ ~b
    <3>1. m \in 0..SanidadeMaxima /\ m # 0
      BY <2>1, PartidaAssumption DEF Menor, Jogador, Sadio
    <3>2. e \in BOOLEAN
      OBVIOUS
    <3>3. x = [u EXCEPT !.baixa = e, !.amedrontado = FALSE, !.sanidade = m]
      BY <2>1 DEF Resgatado, Jogador
    <3> HIDE DEF x, e, m
    <3>4. x \in Jogador /\ x.sanidade = m /\ ~x.amedrontado /\ x.primeiroTurno = u.primeiroTurno
      BY <2>1, <3>1, <3>2, <3>3 DEF Jogador
    <3>5. QED
      BY <3>1, <3>4 DEF Sadio
  <2>4. F(j) \in {x, js[j]} /\ (F(j) # js[j] => j # salvador /\ t.peoes[j] = p)
    BY DEF b
  <2> HIDE DEF F, x
  <2>5. QED
    BY <2>1, <2>3, <2>4
<1> HIDE DEF F
<1>3. r \in [DOMAIN js -> Jogador]
  BY <1>1, <1>2
<1>4. r \in Elencos
  BY <1>3, ElencoDe DEF Elencos, Parcial
<1> HIDE DEF r
<1>5. QED
  BY <1>1, <1>2, <1>4 DEF r

LEMMA MenorDistancia ==
  ASSUME NEW S \in SUBSET Jogadores, S # {}, NEW j \in Jogadores
  PROVE  /\ \E k \in S : \A outro \in S : Distancia(j, k) <= Distancia(j, outro)
         /\ \E k \in S : \A outro \in S : k <= outro
<1>1. NumeroDeJogadores \in 2..4 /\ \A k \in S : k \in 1..NumeroDeJogadores /\ k \in 1..4
  BY PartidaAssumption DEF Jogadores
<1>2. \A k \in S : Distancia(j, k) \in 1..4
  BY <1>1 DEF Distancia, Jogadores
<1>3. \E k \in S : \A outro \in S : Distancia(j, k) <= Distancia(j, outro)
  <2> DEFINE D(k) == Distancia(j, k)
  <2> HIDE DEF D
  <2>1. \A k \in S : D(k) \in 1..4
    BY <1>2 DEF D
  <2>2. CASE \E k \in S : D(k) = 1
    BY <2>1, <2>2 DEF D
  <2>3. CASE (\A k \in S : D(k) # 1) /\ (\E k \in S : D(k) = 2)
    BY <2>1, <2>3 DEF D
  <2>4. CASE (\A k \in S : D(k) # 1 /\ D(k) # 2) /\ (\E k \in S : D(k) = 3)
    BY <2>1, <2>4 DEF D
  <2>5. CASE \A k \in S : D(k) # 1 /\ D(k) # 2 /\ D(k) # 3
    <3>1. \A k \in S : D(k) = 4
      BY <2>1, <2>5
    <3>2. PICK k \in S : TRUE
      OBVIOUS
    <3>3. \A outro \in S : D(k) <= D(outro)
      BY <3>1
    <3>4. QED
      BY <3>3 DEF D
  <2>6. QED
    BY <2>2, <2>3, <2>4, <2>5
<1>4. \E k \in S : \A outro \in S : k <= outro
  <2>1. CASE 1 \in S
    BY <1>1, <2>1
  <2>2. CASE 1 \notin S /\ 2 \in S
    BY <1>1, <2>2
  <2>3. CASE 1 \notin S /\ 2 \notin S /\ 3 \in S
    BY <1>1, <2>3
  <2>4. CASE 1 \notin S /\ 2 \notin S /\ 3 \notin S
    BY <1>1, <2>4
  <2>5. QED
    BY <2>1, <2>2, <2>3, <2>4
<1>5. QED
  BY <1>3, <1>4

LEMMA ProximoVivo ==
  ASSUME NEW js \in Elencos, DOMAIN js # {}, NEW j \in Jogadores
  PROVE  /\ Proximo(js, j) \in DOMAIN js
         /\ Acordados(js) # {} =>
              /\ Proximo(js, j) \in Acordados(js)
              /\ \A outro \in Acordados(js) : Distancia(j, Proximo(js, j)) <= Distancia(j, outro)
<1>1. Acordados(js) \subseteq DOMAIN js /\ DOMAIN js \subseteq Jogadores
  BY ElencoDe DEF Acordados
<1>2. CASE Acordados(js) = {}
  <2>1. \E k \in DOMAIN js : \A outro \in DOMAIN js : k <= outro
    BY <1>1, MenorDistancia
  <2>2. QED
    BY <1>2, <2>1 DEF Proximo
<1>3. CASE Acordados(js) # {}
  <2>1. \E k \in Acordados(js) : \A outro \in Acordados(js) : Distancia(j, k) <= Distancia(j, outro)
    BY <1>1, <1>3, MenorDistancia
  <2>2. QED
    BY <1>1, <1>3, <2>1 DEF Proximo
<1>4. QED
  BY <1>2, <1>3

-----------------------------------------------------------------------------
(* What holds of the whole state: the shapes, the pieces in their places,  *)
(* the pawns and the turn those of the living roster.                      *)

Tipos ==
  /\ Bom(tab) /\ jogadores \in Elencos
  /\ DOMAIN tab.peoes = DOMAIN jogadores
  /\ \A j \in DOMAIN jogadores : Sadio(jogadores[j])
  /\ turno \in Turno /\ turno.ativo \in DOMAIN jogadores
  /\ iluminadas \subseteq Celulas
  /\ graca \subseteq Pecas /\ geradores \subseteq Pecas /\ cartao \in BOOLEAN
  /\ resultado \in Desfechos \cup {Nada}
  /\ resultado = Nada => Cardinality(DOMAIN jogadores) > 1

LEMMA Avaliado ==
  ASSUME AvaliarTermino, jogadores' \in Elencos
  PROVE  /\ resultado' \in Desfechos \cup {Nada}
         /\ resultado' = Nada => /\ Cardinality(DOMAIN jogadores') > 1
                                 /\ \E j \in DOMAIN jogadores' : jogadores'[j].sanidade # 0
<1>1. resultado' = Desfecho(tab', jogadores', geradores', cartao')
  BY DEF AvaliarTermino
<1>2. Cardinality(DOMAIN jogadores') \in Nat
  BY ElencoDe
<1> DEFINE n == Cardinality(DOMAIN jogadores')
<1> HIDE DEF n
<1>3. /\ resultado' \in Desfechos \cup {Nada}
      /\ resultado' = Nada => /\ ~(n <= 1)
                              /\ ~(\A j \in DOMAIN jogadores' : jogadores'[j].sanidade = 0)
  BY <1>1, PartidaAssumption DEF Desfecho, Desfechos, n
<1>4. QED
  BY <1>2, <1>3 DEF n

LEMMA TerminoSegue ==
  ASSUME AvaliarTermino,
         Bom(tab'), jogadores' \in Elencos, DOMAIN tab'.peoes = DOMAIN jogadores',
         \A j \in DOMAIN jogadores' : Sadio(jogadores'[j]),
         turno' \in Turno, turno'.ativo \in DOMAIN jogadores', iluminadas' \subseteq Celulas,
         graca' \subseteq Pecas, geradores' \subseteq Pecas, cartao' \in BOOLEAN
  PROVE  Tipos'
  BY Avaliado DEF Tipos

LEMMA DelegarSegue ==
  ASSUME Tipos, NEW t, Bom(t), t.peoes = tab.peoes, DelegarAoTabuleiro(t)
  PROVE  /\ Tipos' /\ tab' = t
         /\ UNCHANGED <<jogadores, turno, iluminadas, graca, geradores, cartao>>
<1>1. /\ tab' = t /\ AvaliarTermino
      /\ UNCHANGED <<jogadores, turno, iluminadas, graca, geradores, cartao>>
  BY DEF DelegarAoTabuleiro
<1>2. QED
  BY <1>1, TerminoSegue DEF Tipos

LEMMA SelecionarAPecaTipos ==
  ASSUME Tipos, NEW j, NEW p, SelecionarAPeca(j, p)
  PROVE  /\ Tipos' /\ tab' = SelecionarPeca(tab, p) /\ tab'.peoes = tab.peoes
         /\ tab'.posicionadas = tab.posicionadas
         /\ UNCHANGED <<jogadores, turno, iluminadas, graca, geradores, cartao>>
<1>1. Bom(tab) /\ PodeSelecionarPeca(tab, p) /\ DelegarAoTabuleiro(SelecionarPeca(tab, p))
  BY DEF Tipos, SelecionarAPeca, PodeSelecionarAPeca
<1>2. QED
  BY <1>1, SelecionarPecaBom, DelegarSegue

LEMMA GirarAPecaTipos ==
  ASSUME Tipos, NEW j, NEW p \in PecasEmJogo, NEW passo \in Int, GirarAPeca(j, p, passo)
  PROVE  LET t == IF p \in Pendentes(tab) THEN Adotada(tab, j) ELSE tab
         IN  /\ Tipos' /\ tab' = GirarPeca(t, p, passo) /\ tab'.peoes = tab.peoes
             /\ Bom(t) /\ t.posicionadas = tab.posicionadas /\ t.recebidas = tab.recebidas
             /\ t.iniciais = tab.iniciais /\ t.peoes = tab.peoes /\ t.peao \in {tab.peao, j, Nada}
             /\ t.caixa = tab.caixa
             /\ UNCHANGED <<jogadores, turno, iluminadas, graca, geradores, cartao>>
<1> DEFINE t == IF p \in Pendentes(tab) THEN Adotada(tab, j) ELSE tab
<1>1. Bom(tab) /\ j \in Jogadores /\ DelegarAoTabuleiro(GirarPeca(t, p, passo))
  BY DEF Tipos, GirarAPeca, PodeGirarAPeca, DaVez, Turno
<1>2. t = tab \/ t \in Selecoes(tab, j)
  BY DEF Selecoes
<1>3. /\ Bom(t) /\ t.posicionadas = tab.posicionadas /\ t.recebidas = tab.recebidas
      /\ t.iniciais = tab.iniciais /\ t.peoes = tab.peoes /\ t.peao \in {tab.peao, j, Nada}
      /\ t.caixa = tab.caixa
  <2> HIDE DEF t
  <2>1. QED
    BY <1>1, <1>2, SelecaoBom
<1> HIDE DEF t
<1>4. p \in DOMAIN t.iniciais \cup Mesa(t) \cup Pendentes(t)
  BY <1>3 DEF PecasEmJogo, Mesa, Pendentes
<1>5. Bom(GirarPeca(t, p, passo)) /\ GirarPeca(t, p, passo).peoes = tab.peoes
  BY <1>3, <1>4, GirarBom
<1>6. QED
  BY <1>1, <1>3, <1>5, DelegarSegue DEF t

LEMMA SelecionarTipos ==
  ASSUME Tipos, NEW j, FinalizarManipulacao(j) \/ SelecionarOPeao(j) \/ DesselecionarOPeao(j)
  PROVE  /\ Tipos'
         /\ tab' \in Selecoes(tab, j)
         /\ tab'.peoes = tab.peoes /\ tab'.posicionadas = tab.posicionadas
         /\ tab'.recebidas = tab.recebidas /\ tab'.iniciais = tab.iniciais
         /\ tab'.peao \in {tab.peao, j, Nada} /\ tab'.caixa = tab.caixa
         /\ UNCHANGED <<jogadores, turno, iluminadas, graca, geradores, cartao>>
<1>1. Bom(tab) /\ j \in Jogadores
  BY DEF Tipos, FinalizarManipulacao, SelecionarOPeao, DesselecionarOPeao, PodeSelecionarOPeao,
         DaVez, Turno
<1>2. PICK n \in Selecoes(tab, j) : DelegarAoTabuleiro(n)
  BY DEF FinalizarManipulacao, SelecionarOPeao, DesselecionarOPeao, Selecoes
<1>3. /\ Bom(n) /\ n.peoes = tab.peoes /\ n.posicionadas = tab.posicionadas
      /\ n.recebidas = tab.recebidas /\ n.iniciais = tab.iniciais /\ n.peao \in {tab.peao, j, Nada}
      /\ n.caixa = tab.caixa
  BY <1>1, <1>2, SelecaoBom
<1>4. QED
  BY <1>2, <1>3, DelegarSegue

LEMMA EncaixarInicialTipos ==
  ASSUME Tipos, NEW j, NEW p, NEW c \in Celulas, NEW t, Bom(t), PodePosicionarInicial(t, p, c),
         t.peoes = tab.peoes, t.posicionadas = tab.posicionadas,
         DelegarAoTabuleiro(PosicionarInicial(t, p, c))
  PROVE  /\ Tipos' /\ tab' = PosicionarInicial(t, p, c) /\ tab'.peoes = tab.peoes
         /\ Mesa(tab') = Mesa(tab) \cup {p} /\ p \notin Mesa(tab) /\ p \in PecasIniciais
         /\ tab'.recebidas = t.recebidas /\ tab'.manipulacao = p /\ tab'.peao = t.peao
         /\ tab'.caixa = t.caixa /\ DOMAIN tab'.iniciais = DOMAIN t.iniciais \ {p}
         /\ \A q \in Mesa(tab) : tab'.posicionadas[q] = tab.posicionadas[q]
         /\ UNCHANGED <<jogadores, turno, iluminadas, graca, geradores, cartao>>
<1> DEFINE n == PosicionarInicial(t, p, c)
<1>1. /\ Bom(n) /\ n.peoes = t.peoes /\ n.peao = t.peao
      /\ n.recebidas = t.recebidas /\ n.manipulacao = p
      /\ Mesa(n) = Mesa(t) \cup {p} /\ p \notin Mesa(t) /\ p \in PecasIniciais
      /\ n.caixa = t.caixa /\ DOMAIN n.iniciais = DOMAIN t.iniciais \ {p}
      /\ \A q \in Mesa(t) : n.posicionadas[q] = t.posicionadas[q]
  BY PosicionarInicialBom
<1> HIDE DEF n
<1>2. /\ Tipos' /\ tab' = n
      /\ UNCHANGED <<jogadores, turno, iluminadas, graca, geradores, cartao>>
  BY <1>1, DelegarSegue DEF n
<1>3. Mesa(t) = Mesa(tab)
  BY DEF Mesa
<1>4. QED
  BY <1>1, <1>2, <1>3 DEF n

LEMMA EncaixarRecebidaTipos ==
  ASSUME Tipos, NEW p, NEW c, NEW t, Bom(t), PodePosicionarRecebida(t, p, c),
         t.peoes = tab.peoes, t.posicionadas = tab.posicionadas,
         tab' = PosicionarRecebida(t, p, c),
         turno' = IF turno.atravessou THEN [turno EXCEPT !.travessia = p] ELSE turno,
         UNCHANGED <<jogadores, iluminadas, graca, geradores, cartao>>, AvaliarTermino
  PROVE  /\ Tipos' /\ tab'.peoes = tab.peoes /\ tab'.peao = t.peao
         /\ Mesa(tab') = Mesa(tab) \cup {p} /\ p \notin Mesa(tab) /\ p \in PecasDaCaixa
         /\ p \in Pendentes(t) /\ Pendentes(tab') = Pendentes(t) \ {p}
         /\ \A q \in Mesa(tab) : tab'.posicionadas[q] = tab.posicionadas[q]
         /\ \A q \in Pendentes(tab') : tab'.recebidas[q] = t.recebidas[q]
         /\ tab'.posicionadas[p] = [celula |-> c, orientacao |-> t.recebidas[p].orientacao]
         /\ tab'.manipulacao \in {Nada, p}
<1>1. /\ Bom(tab') /\ tab'.peoes = t.peoes /\ tab'.peao = t.peao /\ tab'.manipulacao \in {Nada, p}
      /\ Mesa(tab') = Mesa(t) \cup {p} /\ p \notin Mesa(t) /\ p \in PecasDaCaixa
      /\ Pendentes(tab') = Pendentes(t) \ {p} /\ p \in Pendentes(t)
      /\ \A q \in Mesa(t) : tab'.posicionadas[q] = t.posicionadas[q]
      /\ \A q \in Pendentes(tab') : tab'.recebidas[q] = t.recebidas[q]
      /\ tab'.posicionadas[p] = [celula |-> c, orientacao |-> t.recebidas[p].orientacao]
  BY PosicionarRecebidaBom
<1>2. turno' \in Turno /\ turno'.ativo = turno.ativo
  <2>1. turno \in Turno /\ p \in Pecas
    BY <1>1 DEF Tipos, Pecas
  <2>2. [turno EXCEPT !.travessia = p] \in Turno /\ [turno EXCEPT !.travessia = p].ativo = turno.ativo
    BY <2>1 DEF Turno
  <2>3. QED
    BY <2>1, <2>2
<1>3. Tipos'
  BY <1>1, <1>2, TerminoSegue DEF Tipos
<1>4. Mesa(t) = Mesa(tab)
  BY DEF Mesa
<1>5. QED
  BY <1>1, <1>3, <1>4

LEMMA AdotadaBom ==
  ASSUME NEW t, Bom(t), NEW j \in Jogadores, NEW n, n = Adotada(t, j) \/ n = ComSelecao(t, j)
  PROVE  /\ Bom(n) /\ n.peoes = t.peoes /\ n.posicionadas = t.posicionadas
         /\ n.recebidas = t.recebidas /\ n.caixa = t.caixa /\ n.iniciais = t.iniciais
         /\ n.peao \in {t.peao, j} /\ n.manipulacao = t.manipulacao
<1>1. n.peao \in {t.peao, j} /\ n.manipulacao = t.manipulacao
  BY DEF Adotada, ComSelecao, Bom, Tabuleiros
<1>2. n \in Selecoes(t, j)
  BY DEF Selecoes
<1>3. QED
  BY <1>1, <1>2, SelecaoBom

LEMMA EscolherAVagaTipos ==
  ASSUME Tipos, NEW j, NEW r, NEW b, EscolherAVaga(j, r, b)
  PROVE  /\ Tipos' /\ tab' = EscolherVaga(Adotada(tab, j), r, b)
         /\ Bom(Adotada(tab, j)) /\ PodeEscolherVaga(Adotada(tab, j), r, b)
         /\ Adotada(tab, j).posicionadas = tab.posicionadas
         /\ Adotada(tab, j).recebidas = tab.recebidas
         /\ tab'.peoes = tab.peoes /\ tab'.posicionadas = tab.posicionadas
         /\ UNCHANGED <<jogadores, turno, iluminadas, graca, geradores, cartao>>
<1>1. /\ Bom(tab) /\ j \in Jogadores /\ PodeEscolherVaga(Adotada(tab, j), r, b)
      /\ DelegarAoTabuleiro(EscolherVaga(Adotada(tab, j), r, b))
  BY DEF Tipos, EscolherAVaga, PodeEscolherAVaga, DaVez, Turno
<1> DEFINE t == Adotada(tab, j)
<1>2. Bom(t) /\ t.posicionadas = tab.posicionadas /\ t.peoes = tab.peoes /\ t.recebidas = tab.recebidas
  BY <1>1, AdotadaBom
<1> HIDE DEF t
<1>3. /\ Bom(EscolherVaga(t, r, b)) /\ EscolherVaga(t, r, b).peoes = tab.peoes
      /\ EscolherVaga(t, r, b).posicionadas = tab.posicionadas
  BY <1>1, <1>2, EscolherVagaBom DEF t
<1>4. QED
  BY <1>1, <1>2, <1>3, DelegarSegue DEF t

(* The second light and cleaning, and the pieces given back.               *)
LEMMA MesaReaplicadaBom ==
  ASSUME NEW t, Bom(t), NEW antes, NEW depois
  PROVE  LET n == MesaReaplicada(t, antes, depois)
         IN  /\ Bom(n) /\ n.peoes = t.peoes /\ n.caixa = t.caixa
             /\ n.recebidas = t.recebidas /\ n.iniciais = t.iniciais /\ n.peao = t.peao
             /\ n.manipulacao = t.manipulacao
             /\ Mesa(n) \subseteq Mesa(t)
             /\ \A p \in Mesa(n) : n.posicionadas[p] = t.posicionadas[p]
             /\ \A p \in Mesa(t) : Ocupantes(t, p) # {} => p \in Mesa(n)
<1> DEFINE n == MesaReaplicada(t, antes, depois)
<1>1. CASE HouveBaixaNova(antes, depois)
  <2>1. n = AplicarLimpeza(t, Luz(t, depois))
    BY <1>1 DEF MesaReaplicada
  <2> HIDE DEF n
  <2>2. QED
    BY <2>1, LimpezaBom DEF n
<1>2. CASE ~HouveBaixaNova(antes, depois)
  <2>1. n = t
    BY <1>2 DEF MesaReaplicada
  <2> HIDE DEF n
  <2>2. QED
    BY <2>1 DEF n
<1>3. QED
  BY <1>1, <1>2

LEMMA DevolvidaBom ==
  ASSUME Tipos, NEW t, Bom(t), NEW j, NEW feridos, Mesa(t) \subseteq Mesa(tab),
         NEW n, n = Devolvida(t, j, feridos)
  PROVE  /\ Bom(n) /\ n.peoes = t.peoes /\ n.posicionadas = t.posicionadas
         /\ n.iniciais = t.iniciais /\ n.peao = t.peao /\ n.manipulacao = t.manipulacao
         /\ n.recebidas \in {t.recebidas, <<>>}
         /\ Fora(t) \subseteq Fora(tab) => Fora(n) \subseteq Fora(tab)
<1>1. CASE feridos[j].baixa /\ ~jogadores[j].baixa
  <2>1. n = [t EXCEPT !.caixa = tab.caixa, !.recebidas = <<>>]
    BY <1>1 DEF Devolvida
  <2>2. tab.caixa \in Seq(PecasDaCaixa)
    BY DEF Tipos, Bom, Tabuleiros
  <2>3. SemRepeticao(tab.caixa)
    BY DEF Tipos, Bom, PecasSeparadas
  <2>4. PecasDa(tab.caixa) \cap Mesa(t) = {}
    BY DEF Tipos, Bom, PecasSeparadas
  <2>5. Bom(n)
    BY <2>1, <2>2, <2>3, <2>4, CaixaBom, Zenon
  <2>6. /\ n.peoes = t.peoes /\ n.posicionadas = t.posicionadas
        /\ n.iniciais = t.iniciais /\ n.peao = t.peao /\ n.manipulacao = t.manipulacao
        /\ n.recebidas = <<>> /\ n.caixa = tab.caixa
    BY <2>1 DEF Bom, Tabuleiros
  <2>7. Fora(t) \subseteq Fora(tab) => Fora(n) \subseteq Fora(tab)
    BY <2>6, ParcialVazia DEF Fora, Pendentes
  <2>8. QED
    BY <2>5, <2>6, <2>7
<1>2. CASE ~(feridos[j].baixa /\ ~jogadores[j].baixa)
  BY <1>2 DEF Devolvida
<1>3. QED
  BY <1>1, <1>2

(* The selection of the one who plays, after the drawing.                  *)
LEMMA EscolhidoBom ==
  ASSUME NEW t, Bom(t), NEW j \in Jogadores
  PROVE  LET n == [t EXCEPT !.peao = j]
         IN  /\ Bom(n) /\ n.peoes = t.peoes /\ n.posicionadas = t.posicionadas
             /\ n.recebidas = t.recebidas /\ n.caixa = t.caixa /\ n.iniciais = t.iniciais
             /\ n.peao = j /\ n.manipulacao = t.manipulacao
<1> DEFINE n == [t EXCEPT !.peao = j]
<1>1. n.peao = j /\ n.manipulacao = t.manipulacao
  BY DEF Bom, Tabuleiros
<1>2. n \in Selecoes(t, j)
  BY DEF Selecoes
<1> HIDE DEF n
<1>3. QED
  BY <1>1, <1>2, SelecaoBom DEF n

-----------------------------------------------------------------------------
(* The light.                                                              *)

(* luz is the light of the board, and nothing lies in the dark without a   *)
(* pawn on it.                                                             *)
Clareada(t, js, luz) ==
  /\ luz = Luz(t, js)
  /\ \A p \in Mesa(t) : CelulaDe(t, p) \in luz \/ Ocupantes(t, p) # {}

LEMMA LuzMesma ==
  ASSUME NEW t, NEW n, NEW js, NEW ks, n.peoes = t.peoes, EmBaixa(ks) = EmBaixa(js),
         \A j \in DOMAIN t.peoes :
           /\ t.peoes[j] \in Mesa(n) <=> t.peoes[j] \in Mesa(t)
           /\ t.peoes[j] \in Mesa(t) => CelulaDe(n, t.peoes[j]) = CelulaDe(t, t.peoes[j])
  PROVE  Luz(n, ks) = Luz(t, js)
<1>1. \A j \in DOMAIN t.peoes :
        IluminadasPor(n, j, EmBaixa(ks)) = IluminadasPor(t, j, EmBaixa(js))
  BY DEF IluminadasPor
<1>2. QED
  BY <1>1 DEF Luz, CalcularIluminacao

LEMMA ClareadaMesma ==
  ASSUME NEW t, NEW js, NEW luz, Clareada(t, js, luz), NEW n, NEW ks, n.peoes = t.peoes,
         EmBaixa(ks) = EmBaixa(js), Mesa(n) = Mesa(t), \A p \in Mesa(t) : CelulaDe(n, p) = CelulaDe(t, p)
  PROVE  Clareada(n, ks, luz)
<1>1. Luz(n, ks) = Luz(t, js)
  BY LuzMesma
<1>2. \A p : Ocupantes(n, p) = Ocupantes(t, p)
  BY DEF Ocupantes
<1>3. QED
  BY <1>1, <1>2 DEF Clareada

(* Taking away what lies in the dark takes no light away.                  *)
LEMMA LimpezaClareia ==
  ASSUME NEW t, Bom(t), NEW js, NEW n, n.peoes = t.peoes,
         n.posicionadas = AplicarLimpeza(t, Luz(t, js)).posicionadas
  PROVE  Clareada(n, js, Luz(t, js))
<1> DEFINE luz == Luz(t, js)
           l == AplicarLimpeza(t, luz)
<1>1. /\ Mesa(l) = {p \in Mesa(t) : CelulaDe(t, p) \in luz \/ Ocupantes(t, p) # {}}
      /\ \A p \in Mesa(l) : l.posicionadas[p] = t.posicionadas[p]
  BY LimpezaBom
<1>2. Mesa(n) = Mesa(l) /\ \A p \in Mesa(n) : CelulaDe(n, p) = CelulaDe(t, p)
  BY <1>1 DEF Mesa, CelulaDe
<1>3. \A p : Ocupantes(n, p) = Ocupantes(t, p)
  BY DEF Ocupantes
<1> HIDE DEF l
<1>4. \A j \in DOMAIN t.peoes : t.peoes[j] \in Mesa(n) <=> t.peoes[j] \in Mesa(t)
  BY <1>1, <1>2 DEF Ocupantes
<1>5. Luz(n, js) = luz
  BY <1>2, <1>4, LuzMesma
<1>6. QED
  BY <1>1, <1>2, <1>3, <1>5 DEF Clareada

(* The light is looked at again when the attack darkened somebody.         *)
LEMMA ReaplicadaClareia ==
  ASSUME NEW t, Bom(t), NEW js, NEW ks, DOMAIN ks = DOMAIN js,
         \A j \in DOMAIN js : js[j].baixa => ks[j].baixa,
         NEW luz, HouveBaixaNova(js, ks) \/ Clareada(t, js, luz),
         NEW n, n.peoes = t.peoes, n.posicionadas = MesaReaplicada(t, js, ks).posicionadas
  PROVE  Clareada(n, ks, LuzReaplicada(t, js, ks, luz))
<1>1. CASE HouveBaixaNova(js, ks)
  BY <1>1, LimpezaClareia DEF MesaReaplicada, LuzReaplicada
<1>2. CASE ~HouveBaixaNova(js, ks)
  <2>1. EmBaixa(ks) = EmBaixa(js)
    BY <1>2 DEF HouveBaixaNova, EmBaixa
  <2>2. n.posicionadas = t.posicionadas /\ LuzReaplicada(t, js, ks, luz) = luz
    BY <1>2 DEF MesaReaplicada, LuzReaplicada
  <2>3. Mesa(n) = Mesa(t) /\ \A p \in Mesa(t) : CelulaDe(n, p) = CelulaDe(t, p)
    BY <2>2 DEF Mesa, CelulaDe
  <2>4. QED
    BY <1>2, <2>1, <2>2, <2>3, ClareadaMesma
<1>3. QED
  BY <1>1, <1>2

(* Nobody is attacked who is not on the board.                             *)
LEMMA AtacadosLonge ==
  ASSUME NEW t, NEW js \in Elencos, NEW inicio, NEW decidida, NEW k \in DOMAIN js,
         t.peoes[k] \notin Mesa(t)
  PROVE  /\ Atacados(t, js, inicio, decidida)[k].baixa = js[k].baixa
         /\ Atacados(t, js, inicio, decidida)[k].amedrontado = js[k].amedrontado
<1> DEFINE atacantes == Atacantes(t, inicio, decidida)
           Alvos(tipo) == {j \in DOMAIN js : \E m \in atacantes :
                             Tipo(m) = tipo /\ t.peoes[j] \in CalcularAlcance(t, m)}
           V == Alvos("vulto")
           E == Alvos("espectro")
           C(j) == IF j \in V THEN [js[j] EXCEPT !.baixa = TRUE] ELSE js[j]
           F(j) == IF js[j].protegido THEN [js[j] EXCEPT !.protegido = j \notin V \cup E]
                   ELSE IF j \in E THEN AposEspectro(C(j)) ELSE C(j)
           r == Atacados(t, js, inicio, decidida)
<1>1. r = [j \in DOMAIN js |-> F(j)]
  BY DEF Atacados
<1>2. \A m : CalcularAlcance(t, m) \subseteq Mesa(t)
  BY DEF CalcularAlcance, VizinhasConectadas
<1>3. k \notin V /\ k \notin E
  BY <1>2
<1> HIDE DEF V, E
<1>4. C(k) = js[k]
  BY <1>3
<1>5. js[k] \in Jogador
  BY ElencoDe
<1>6. F(k) = js[k] \/ F(k) = [js[k] EXCEPT !.protegido = k \notin V \cup E]
  BY <1>3, <1>4
<1>7. F(k).baixa = js[k].baixa /\ F(k).amedrontado = js[k].amedrontado
  BY <1>5, <1>6 DEF Jogador
<1> HIDE DEF F
<1>8. r[k] = F(k)
  BY <1>1
<1>9. QED
  BY <1>7, <1>8

LEMMA PosicionarOPeaoTipos ==
  ASSUME Tipos, NEW j, NEW p \in Mesa(tab), PosicionarOPeao(j, p)
  PROVE  /\ Tipos'
         /\ j = turno.ativo /\ jogadores[j].primeiroTurno /\ tab.peoes[j] = Nada
         /\ Ocupantes(tab, p) = {} /\ EhInicial(p)
         /\ tab'.peoes = [tab.peoes EXCEPT ![j] = p]
         /\ DOMAIN jogadores' = DOMAIN jogadores
         /\ \A k \in DOMAIN jogadores :
              /\ jogadores'[k].primeiroTurno = jogadores[k].primeiroTurno
              /\ jogadores[k].baixa => jogadores'[k].baixa
              /\ jogadores[k].amedrontado => jogadores'[k].amedrontado
         /\ Mesa(tab') \subseteq Mesa(tab)
         /\ \A q \in Mesa(tab') : tab'.posicionadas[q] = tab.posicionadas[q]
         /\ tab'.manipulacao = tab.manipulacao /\ tab'.peao = j /\ Fora(tab') \subseteq Fora(tab)
         /\ \A r \in Pendentes(tab') : tab'.recebidas[r].vaga = Nada
         /\ UNCHANGED <<turno, graca, geradores, cartao>>
         /\ tab'.iniciais = tab.iniciais
         /\ Clareada(tab', jogadores', iluminadas')
         /\ tab'.recebidas # <<>> => jogadores[j].baixa \/ ~jogadores'[j].baixa
         /\ \A k \in DOMAIN jogadores \ {j} : tab.peoes[k] = Nada =>
              /\ jogadores'[k].baixa = jogadores[k].baixa
              /\ jogadores'[k].amedrontado = jogadores[k].amedrontado
<1> DEFINE noLugar  == PosicionarPeao(tab, j, p)
           gerado   == GerarRecebidas(noLugar, p, jogadores[j].baixa, Luz(noLugar, jogadores), Nada)
           sorteado == [gerado EXCEPT !.peao = j]
           limpo    == AplicarLimpeza(sorteado, Luz(sorteado, jogadores))
           feridos  == Atacados(limpo, jogadores, Nada, p)
           mesa     == MesaReaplicada(limpo, jogadores, feridos)
<1>1. /\ DaVez(j) /\ jogadores[j].primeiroTurno /\ PodePosicionarPeao(tab, j, p)
      /\ jogadores' = feridos /\ tab' = Devolvida(mesa, j, feridos)
      /\ iluminadas' = LuzReaplicada(limpo, jogadores, feridos, Luz(sorteado, jogadores))
      /\ UNCHANGED <<turno, graca, geradores, cartao>> /\ AvaliarTermino
  BY DEF PosicionarOPeao, PodePosicionarOPeao
<1>2. j \in Jogadores /\ j = turno.ativo /\ j \in DOMAIN jogadores /\ j \in DOMAIN tab.peoes
  BY <1>1 DEF Tipos, DaVez, Turno
<1>3. /\ tab.peoes[j] = Nada /\ Ocupantes(tab, p) = {} /\ EhInicial(p)
  BY <1>1 DEF PodePosicionarPeao
<1>4. /\ Bom(noLugar) /\ noLugar.posicionadas = tab.posicionadas /\ noLugar.caixa = tab.caixa
      /\ noLugar.peoes = [tab.peoes EXCEPT ![j] = p] /\ noLugar.manipulacao = tab.manipulacao
      /\ noLugar.recebidas = <<>> /\ noLugar.iniciais = tab.iniciais
  BY <1>1, <1>2, PosicionarPeaoBom DEF Tipos
<1>5. Mesa(noLugar) = Mesa(tab) /\ Fora(noLugar) \subseteq Fora(tab)
  BY <1>4, ParcialVazia DEF Mesa, Fora, Pendentes
<1> HIDE DEF noLugar
<1>6. /\ Bom(gerado) /\ gerado.peoes = noLugar.peoes /\ gerado.posicionadas = tab.posicionadas
      /\ gerado.manipulacao = tab.manipulacao /\ gerado.iniciais = noLugar.iniciais
      /\ Fora(gerado) \subseteq Fora(noLugar)
      /\ \A r \in Pendentes(gerado) :
           gerado.recebidas[r] = [orientacao |-> 0, vaga |-> Nada, alvo |-> Nada]
  <2>1. Bom(noLugar) /\ p \in Mesa(noLugar)
    BY <1>4, <1>5
  <2>2. \E e, l : gerado = GerarRecebidas(noLugar, p, e, l, Nada)
    BY Zenon
  <2> HIDE DEF gerado
  <2>3. QED
    BY <1>4, <2>1, <2>2, SorteioLivre
<1> HIDE DEF gerado
<1>7. /\ Bom(sorteado) /\ sorteado.peoes = noLugar.peoes /\ sorteado.posicionadas = tab.posicionadas
      /\ sorteado.manipulacao = tab.manipulacao /\ sorteado.peao = j
      /\ sorteado.caixa = gerado.caixa /\ sorteado.iniciais = gerado.iniciais
      /\ sorteado.recebidas = gerado.recebidas
  BY <1>2, <1>6, EscolhidoBom
<1>8. Mesa(sorteado) = Mesa(tab) /\ Fora(sorteado) \subseteq Fora(tab)
  BY <1>5, <1>6, <1>7 DEF Mesa, Fora, Pendentes
<1> HIDE DEF sorteado
<1>9. /\ Bom(limpo) /\ limpo.peoes = noLugar.peoes /\ Mesa(limpo) \subseteq Mesa(tab)
      /\ \A q \in Mesa(limpo) : limpo.posicionadas[q] = tab.posicionadas[q]
      /\ limpo.manipulacao = tab.manipulacao /\ limpo.peao = j
      /\ limpo.caixa = sorteado.caixa /\ limpo.iniciais = sorteado.iniciais
      /\ limpo.recebidas = sorteado.recebidas
  BY <1>7, <1>8, LimpezaBom
<1>c. Clareada(limpo, jogadores, Luz(sorteado, jogadores))
  BY <1>7, <1>9, LimpezaClareia
<1> HIDE DEF limpo
<1>10. /\ feridos \in Elencos /\ DOMAIN feridos = DOMAIN jogadores
       /\ \A k \in DOMAIN jogadores :
            /\ Sadio(feridos[k])
            /\ feridos[k].primeiroTurno = jogadores[k].primeiroTurno
            /\ jogadores[k].baixa => feridos[k].baixa
            /\ jogadores[k].amedrontado => feridos[k].amedrontado
  BY AtacadosForma DEF Tipos
<1>d. \A k \in DOMAIN jogadores \ {j} : tab.peoes[k] = Nada =>
        /\ feridos[k].baixa = jogadores[k].baixa
        /\ feridos[k].amedrontado = jogadores[k].amedrontado
  <2>1. Nada \notin Mesa(limpo)
    BY <1>9, MesaDe, TiposDistintos DEF Bom
  <2>2. \A k \in DOMAIN jogadores \ {j} : limpo.peoes[k] = tab.peoes[k]
    BY <1>2, <1>4, <1>9 DEF Tipos
  <2>3. QED
    BY <2>1, <2>2, AtacadosLonge DEF Tipos
<1> HIDE DEF feridos
<1>11. /\ Bom(mesa) /\ mesa.peoes = noLugar.peoes /\ Mesa(mesa) \subseteq Mesa(tab)
       /\ \A q \in Mesa(mesa) : mesa.posicionadas[q] = tab.posicionadas[q]
       /\ mesa.manipulacao = tab.manipulacao /\ mesa.peao = j
       /\ mesa.caixa = limpo.caixa /\ mesa.iniciais = limpo.iniciais
       /\ mesa.recebidas = limpo.recebidas
  BY <1>9, MesaReaplicadaBom
<1>f. Fora(mesa) \subseteq Fora(tab)
  BY <1>8, <1>9, <1>11 DEF Fora, Pendentes
<1>e. mesa = MesaReaplicada(limpo, jogadores, feridos)
  OBVIOUS
<1> HIDE DEF mesa
<1>12. /\ Bom(tab') /\ tab'.peoes = noLugar.peoes /\ tab'.posicionadas = mesa.posicionadas
       /\ tab'.manipulacao = tab.manipulacao /\ tab'.peao = j /\ Fora(tab') \subseteq Fora(tab)
       /\ tab'.recebidas \in {mesa.recebidas, <<>>}
  BY <1>1, <1>11, <1>f, DevolvidaBom
<1>v. \A r \in Pendentes(tab') : tab'.recebidas[r].vaga = Nada
  <2>1. CASE tab'.recebidas = <<>>
    BY <2>1, ParcialVazia DEF Pendentes
  <2>2. CASE tab'.recebidas = gerado.recebidas
    BY <1>6, <2>2 DEF Pendentes
  <2>3. QED
    BY <1>7, <1>9, <1>11, <1>12, <2>1, <2>2
<1>13. iluminadas' \subseteq Celulas
  BY <1>1, <1>7, <1>9, LuzCelulas DEF Bom, LuzReaplicada
<1>14. DOMAIN tab'.peoes = DOMAIN jogadores'
  BY <1>1, <1>4, <1>10, <1>12 DEF Tipos
<1>15. Tipos'
  BY <1>1, <1>2, <1>10, <1>12, <1>13, <1>14, TerminoSegue DEF Tipos
<1>16. Clareada(tab', jogadores', iluminadas')
  <2>1. tab'.peoes = limpo.peoes /\ tab'.posicionadas = MesaReaplicada(limpo, jogadores, feridos).posicionadas
    BY <1>9, <1>12, <1>e
  <2>2. Clareada(tab', feridos, LuzReaplicada(limpo, jogadores, feridos, Luz(sorteado, jogadores)))
    BY <1>9, <1>10, <1>c, <2>1, ReaplicadaClareia
  <2>3. QED
    BY <1>1, <2>2
<1>17. tab'.recebidas # <<>> => jogadores[j].baixa \/ ~jogadores'[j].baixa
  BY <1>1, <1>11 DEF Devolvida, Bom, Tabuleiros
<1>18. tab'.iniciais = tab.iniciais
  <2>1. tab'.iniciais = mesa.iniciais
    BY <1>1, <1>11 DEF Devolvida, Bom, Tabuleiros
  <2>2. QED
    BY <1>4, <1>6, <1>7, <1>9, <1>11, <2>1
<1>19. \A k \in DOMAIN jogadores \ {j} : tab.peoes[k] = Nada =>
         /\ jogadores'[k].baixa = jogadores[k].baixa
         /\ jogadores'[k].amedrontado = jogadores[k].amedrontado
  BY <1>1, <1>d
<1>20. QED
  BY <1>1, <1>2, <1>3, <1>4, <1>10, <1>11, <1>12, <1>v, <1>15, <1>16, <1>17, <1>18, <1>19 DEF Mesa

LEMMA MoverOPeaoTipos ==
  ASSUME Tipos, NEW j, NEW p, MoverOPeao(j, p)
  PROVE  /\ Tipos' /\ j = turno.ativo /\ j \in DOMAIN tab.peoes
         /\ tab'.peoes = [tab.peoes EXCEPT ![j] = p]
         /\ tab'.posicionadas = tab.posicionadas /\ tab'.recebidas = tab.recebidas
         /\ tab'.peao = tab.peao /\ tab'.caixa = tab.caixa
         /\ tab.peoes[j] \in Mesa(tab) /\ p \in VizinhasConectadas(tab, tab.peoes[j])
         /\ graca' = (graca \ {tab.peoes[j]}) \cap Mesa(tab)
         /\ Cardinality(Ocupantes(tab, p)) < TetoOcupacao(tab, jogadores, p)
         /\ UNCHANGED <<jogadores, turno, iluminadas, geradores, cartao>>
<1>1. /\ DaVez(j) /\ PodeMoverPeao(tab, j, p) /\ tab' = MoverPeao(tab, j, p)
      /\ graca' = (graca \ {tab.peoes[j]}) \cap Mesa(tab)
      /\ Cardinality(Ocupantes(tab, p)) < TetoOcupacao(tab, jogadores, p)
      /\ UNCHANGED <<jogadores, turno, iluminadas, geradores, cartao>> /\ AvaliarTermino
  BY DEF MoverOPeao, PodeMoverOPeao, SemPassoDefinitivo, NaPeca
<1>2. /\ j = turno.ativo /\ j \in DOMAIN tab.peoes /\ p \in Mesa(tab) /\ ~EhMonstro(p)
      /\ tab.peoes[j] \in Mesa(tab) /\ p \in VizinhasConectadas(tab, tab.peoes[j]) /\ Bom(tab)
  BY <1>1 DEF DaVez, Tipos, PodeMoverPeao
<1>3. tab' = [tab EXCEPT !.peoes[j] = p]
  BY <1>1 DEF MoverPeao
<1>4. /\ Bom(tab') /\ tab'.posicionadas = tab.posicionadas /\ tab'.recebidas = tab.recebidas
      /\ tab'.peao = tab.peao /\ tab'.caixa = tab.caixa
      /\ tab'.peoes = [tab.peoes EXCEPT ![j] = p]
  BY <1>2, <1>3, PeaoEmPecaBom
<1>5. Tipos'
  BY <1>1, <1>4, TerminoSegue DEF Tipos
<1>6. QED
  BY <1>1, <1>2, <1>4, <1>5

LEMMA AtravessarTipos ==
  ASSUME Tipos, NEW j, NEW c \in Celulas, AtravessarOEscuro(j, c)
  PROVE  /\ Tipos' /\ tab'.peoes = tab.peoes /\ tab'.posicionadas = tab.posicionadas
         /\ tab'.peao \in {tab.peao, j} /\ Fora(tab') \subseteq Fora(tab)
         /\ tab'.manipulacao = tab.manipulacao /\ PodeAtravessar(j, c)
         /\ \A r \in Pendentes(tab') : tab'.recebidas[r].vaga = Nada /\ tab'.recebidas[r].alvo = c
         /\ turno' = [turno EXCEPT !.atravessou = tab'.recebidas # <<>>]
         /\ UNCHANGED <<jogadores, iluminadas, graca, geradores, cartao>>
<1> DEFINE t == GerarRecebidas(tab, NaPeca(j), TRUE, Luz(tab, jogadores), c)
<1>1. /\ DaVez(j) /\ NaPeca(j) \in Mesa(tab) /\ tab' = ComSelecao(t, j)
      /\ turno' = [turno EXCEPT !.atravessou = tab'.recebidas # <<>>]
      /\ UNCHANGED <<jogadores, iluminadas, graca, geradores, cartao>> /\ AvaliarTermino
      /\ PodeAtravessar(j, c)
  BY DEF AtravessarOEscuro, PodeAtravessar, SemPassoDefinitivo
<1>2. j \in Jogadores /\ Bom(tab)
  BY <1>1 DEF Tipos, DaVez, Turno
<1>3. /\ Bom(t) /\ t.peoes = tab.peoes /\ t.posicionadas = tab.posicionadas /\ t.peao = tab.peao
      /\ t.iniciais = tab.iniciais /\ t.manipulacao = tab.manipulacao
      /\ Pendentes(t) \subseteq PecasDa(tab.caixa) /\ PecasDa(t.caixa) \subseteq PecasDa(tab.caixa)
      /\ \A r \in Pendentes(t) : t.recebidas[r] = [orientacao |-> 0, vaga |-> Nada, alvo |-> c]
  <2>1. \A e, l : LET n == GerarRecebidas(tab, NaPeca(j), e, l, c)
                  IN  /\ Bom(n) /\ n.peoes = tab.peoes /\ n.posicionadas = tab.posicionadas
                      /\ n.peao = tab.peao /\ n.iniciais = tab.iniciais
                      /\ n.manipulacao = tab.manipulacao
                      /\ Pendentes(n) \subseteq PecasDa(tab.caixa)
                      /\ PecasDa(n.caixa) \subseteq PecasDa(tab.caixa)
                      /\ \A r \in Pendentes(n) :
                           n.recebidas[r] = [orientacao |-> 0, vaga |-> Nada, alvo |-> c]
    BY <1>1, <1>2, SorteioBom
  <2>2. QED
    BY <2>1, Zenon
<1> HIDE DEF t
<1>4. /\ Bom(tab') /\ tab'.peoes = tab.peoes /\ tab'.posicionadas = tab.posicionadas
      /\ tab'.peao \in {tab.peao, j} /\ tab'.recebidas = t.recebidas
      /\ tab'.iniciais = t.iniciais /\ tab'.caixa = t.caixa /\ tab'.manipulacao = t.manipulacao
  BY <1>1, <1>2, <1>3, AdotadaBom
<1>5. turno' \in Turno /\ turno'.ativo = turno.ativo
  BY <1>1 DEF Tipos, Turno
<1>6. Tipos'
  BY <1>1, <1>4, <1>5, TerminoSegue DEF Tipos
<1>7. QED
  BY <1>1, <1>3, <1>4, <1>6 DEF Pendentes, Fora

(* The turn that follows, and a roster that is never emptied.              *)
LEMMA RestaAlguem ==
  ASSUME Tipos, resultado = Nada, NEW j \in DOMAIN jogadores
  PROVE  DOMAIN jogadores \ {j} # {}
<1>1. IsFiniteSet(DOMAIN jogadores) /\ Cardinality(DOMAIN jogadores) > 1
  BY ElencoDe DEF Tipos
<1>2. Cardinality({j}) = 1
  BY FS_Singleton
<1>3. DOMAIN jogadores \ {j} = {} => DOMAIN jogadores = {j}
  OBVIOUS
<1>4. QED
  BY <1>1, <1>2, <1>3

LEMMA TurnoAposTipos ==
  ASSUME Tipos, NEW t, Bom(t), NEW js \in Elencos, DOMAIN js # {}, DOMAIN t.peoes = DOMAIN js,
         NEW j \in Jogadores, NEW v, v = TurnoApos(t, js, j), v.rodada <= RodadaMaxima
  PROVE  /\ v \in Turno /\ v.ativo = Proximo(js, j) /\ v.ativo \in DOMAIN js
         /\ v.inicio = t.peoes[v.ativo]
         /\ ~v.confirmada /\ ~v.atravessou /\ v.travessia = Nada
<1> DEFINE k == Proximo(js, j)
           m == IF Acordados(js) # {} /\ k <= j THEN turno.rodada + 1 ELSE turno.rodada
<1>1. k \in DOMAIN js /\ k \in Jogadores
  BY ProximoVivo, ElencoDe
<1> HIDE DEF k
<1>2. v = [ativo |-> k, rodada |-> m, inicio |-> t.peoes[k],
           confirmada |-> FALSE, atravessou |-> FALSE, travessia |-> Nada]
  BY DEF TurnoApos, k
<1>3. m \in Nat /\ m >= 1
  BY PartidaAssumption DEF Tipos, Turno
<1> HIDE DEF m
<1>4. m \in 1..RodadaMaxima
  BY <1>2, <1>3, PartidaAssumption
<1>5. t.peoes[k] \in Pecas \cup {Nada}
  BY <1>1, MesaDe DEF Bom
<1>6. QED
  BY <1>1, <1>2, <1>4, <1>5 DEF Turno, k

LEMMA PermanecerTipos ==
  ASSUME Tipos, NEW j, Permanecer(j)
  PROVE  /\ Tipos' /\ j = turno.ativo
         /\ tab'.peoes = tab.peoes /\ tab'.recebidas = <<>> /\ tab'.peao = Nada
         /\ tab' = SemSequencia(tab') /\ Fora(tab') \subseteq Fora(tab)
         /\ Mesa(tab') \subseteq Mesa(tab)
         /\ \A q \in Mesa(tab') : tab'.posicionadas[q] = tab.posicionadas[q]
         /\ DOMAIN jogadores' = DOMAIN jogadores
         /\ \A k \in DOMAIN jogadores :
              /\ jogadores'[k].primeiroTurno = jogadores[k].primeiroTurno
              /\ jogadores[k].baixa => jogadores'[k].baixa
              /\ jogadores[k].amedrontado => jogadores'[k].amedrontado
         /\ turno'.ativo = Proximo(jogadores', j) /\ turno'.inicio = tab'.peoes[turno'.ativo]
         /\ ~turno'.confirmada /\ ~turno'.atravessou /\ turno'.travessia = Nada
         /\ graca' \subseteq graca /\ graca \cap Mesa(tab') \subseteq graca'
         /\ UNCHANGED <<geradores, cartao>>
         /\ turno'.rodada = IF Acordados(jogadores') # {} /\ turno'.ativo <= j
                            THEN turno.rodada + 1 ELSE turno.rodada
         /\ TravessiaEmMonstro \/ Clareada(tab, jogadores, iluminadas) =>
              Clareada(tab', jogadores', iluminadas')
         /\ PodePermanecerNaPeca(j) /\ AvaliarTermino
<1> DEFINE feridos  == Atacados(tab, jogadores, NaPeca(j), NaPeca(j))
           limpeza  == AplicarLimpeza(tab, Luz(tab, feridos))
           mesa     == MesaReaplicada(tab, jogadores, feridos)
           limpo    == IF TravessiaEmMonstro THEN limpeza ELSE mesa
<1>1. /\ DaVez(j) /\ jogadores' = feridos /\ tab' = SemSequencia(limpo)
      /\ iluminadas' = IF TravessiaEmMonstro THEN Luz(tab, feridos)
                       ELSE LuzReaplicada(tab, jogadores, feridos, iluminadas)
      /\ graca' \in {graca \cap Mesa(limpo), graca}
      /\ turno' = TurnoApos(limpo, feridos, j) /\ turno'.rodada <= RodadaMaxima
      /\ UNCHANGED <<geradores, cartao>> /\ AvaliarTermino /\ PodePermanecerNaPeca(j)
  BY DEF Permanecer, PodePermanecerNaPeca, SemPassoDefinitivo
<1>2. /\ j \in Jogadores /\ j = turno.ativo /\ j \in DOMAIN jogadores /\ Bom(tab) /\ resultado = Nada
  BY <1>1 DEF Tipos, DaVez, Turno
<1>3. /\ feridos \in Elencos /\ DOMAIN feridos = DOMAIN jogadores
      /\ \A k \in DOMAIN jogadores :
           /\ Sadio(feridos[k])
           /\ feridos[k].primeiroTurno = jogadores[k].primeiroTurno
           /\ jogadores[k].baixa => feridos[k].baixa
           /\ jogadores[k].amedrontado => feridos[k].amedrontado
  BY AtacadosForma DEF Tipos
<1> HIDE DEF feridos
<1>4. /\ Bom(limpeza) /\ limpeza.peoes = tab.peoes /\ Mesa(limpeza) \subseteq Mesa(tab)
      /\ \A q \in Mesa(limpeza) : limpeza.posicionadas[q] = tab.posicionadas[q]
      /\ limpeza.caixa = tab.caixa /\ limpeza.iniciais = tab.iniciais
  BY <1>2, LimpezaBom
<1>5. /\ Bom(mesa) /\ mesa.peoes = tab.peoes /\ Mesa(mesa) \subseteq Mesa(tab)
      /\ \A q \in Mesa(mesa) : mesa.posicionadas[q] = tab.posicionadas[q]
      /\ mesa.caixa = tab.caixa /\ mesa.iniciais = tab.iniciais
  BY <1>2, MesaReaplicadaBom
<1>6. /\ limpo = IF TravessiaEmMonstro THEN limpeza ELSE mesa
      /\ limpeza = AplicarLimpeza(tab, Luz(tab, feridos))
      /\ mesa = MesaReaplicada(tab, jogadores, feridos)
  OBVIOUS
<1> HIDE DEF limpo, limpeza, mesa
<1>7. /\ Bom(limpo) /\ limpo.peoes = tab.peoes /\ Mesa(limpo) \subseteq Mesa(tab)
      /\ \A q \in Mesa(limpo) : limpo.posicionadas[q] = tab.posicionadas[q]
      /\ limpo.caixa = tab.caixa /\ limpo.iniciais = tab.iniciais
  BY <1>4, <1>5, <1>6
<1>8. /\ Bom(tab') /\ tab'.peoes = tab.peoes /\ tab'.posicionadas = limpo.posicionadas
      /\ tab'.recebidas = <<>> /\ tab'.peao = Nada
      /\ tab'.caixa = limpo.caixa /\ tab'.iniciais = limpo.iniciais
  BY <1>1, <1>7, SemSequenciaBom
<1>9. Mesa(tab') = Mesa(limpo) /\ Fora(tab') \subseteq Fora(tab)
  BY <1>7, <1>8, ParcialVazia DEF Mesa, Fora, Pendentes
<1>10. tab' = SemSequencia(tab')
  BY <1>1, <1>7 DEF Bom, Tabuleiros, SemSequencia
<1>11. DOMAIN limpo.peoes = DOMAIN feridos /\ DOMAIN feridos # {}
  BY <1>2, <1>3, <1>7 DEF Tipos
<1>12. /\ turno' \in Turno /\ turno'.ativo = Proximo(feridos, j) /\ turno'.ativo \in DOMAIN feridos
       /\ turno'.inicio = limpo.peoes[turno'.ativo]
       /\ ~turno'.confirmada /\ ~turno'.atravessou /\ turno'.travessia = Nada
  BY <1>1, <1>2, <1>3, <1>7, <1>11, TurnoAposTipos
<1>13. iluminadas' \subseteq Celulas
  BY <1>1, <1>2, LuzCelulas DEF Bom, LuzReaplicada, Tipos
<1>14. Tipos'
  BY <1>1, <1>3, <1>7, <1>8, <1>11, <1>12, <1>13, TerminoSegue DEF Tipos
<1>15. ASSUME TravessiaEmMonstro \/ Clareada(tab, jogadores, iluminadas)
       PROVE  Clareada(tab', jogadores', iluminadas')
  <2>1. CASE TravessiaEmMonstro
    <3>1. tab'.posicionadas = AplicarLimpeza(tab, Luz(tab, feridos)).posicionadas
      BY <1>6, <1>8, <2>1
    <3>2. Clareada(tab', feridos, Luz(tab, feridos))
      BY <1>2, <1>8, <3>1, LimpezaClareia
    <3>3. QED
      BY <1>1, <2>1, <3>2
  <2>2. CASE ~TravessiaEmMonstro
    <3>1. tab'.posicionadas = MesaReaplicada(tab, jogadores, feridos).posicionadas
      BY <1>6, <1>8, <2>2
    <3>2. Clareada(tab', feridos, LuzReaplicada(tab, jogadores, feridos, iluminadas))
      BY <1>2, <1>3, <1>8, <1>15, <2>2, <3>1, ReaplicadaClareia
    <3>3. QED
      BY <1>1, <2>2, <3>2
  <2>3. QED
    BY <2>1, <2>2
<1>16. turno'.rodada = IF Acordados(feridos) # {} /\ turno'.ativo <= j
                      THEN turno.rodada + 1 ELSE turno.rodada
  BY <1>1 DEF TurnoApos
<1>17. QED
  BY <1>1, <1>2, <1>3, <1>7, <1>8, <1>9, <1>10, <1>12, <1>14, <1>15, <1>16

LEMMA EncerrarTurnoTipos ==
  ASSUME Tipos, NEW j, EncerrarTurno(j)
  PROVE  /\ Tipos' /\ j = turno.ativo
         /\ tab'.peoes = tab.peoes /\ tab'.recebidas = <<>> /\ tab'.peao = Nada
         /\ tab' = SemSequencia(tab') /\ tab'.posicionadas = tab.posicionadas
         /\ Fora(tab') \subseteq Fora(tab)
         /\ jogadores[j].primeiroTurno => tab.peoes[j] # Nada
         /\ DOMAIN jogadores' = DOMAIN jogadores
         /\ \A k \in DOMAIN jogadores :
              /\ jogadores'[k].primeiroTurno = (jogadores[k].primeiroTurno /\ k # j)
              /\ jogadores'[k].baixa = jogadores[k].baixa
              /\ jogadores'[k].amedrontado = jogadores[k].amedrontado
         /\ EmBaixa(jogadores') = EmBaixa(jogadores)
         /\ turno'.ativo = Proximo(jogadores', j) /\ turno'.inicio = tab'.peoes[turno'.ativo]
         /\ ~turno'.confirmada /\ ~turno'.atravessou /\ turno'.travessia = Nada
         /\ UNCHANGED <<iluminadas, graca, geradores, cartao>>
         /\ turno'.rodada = IF Acordados(jogadores') # {} /\ turno'.ativo <= j
                            THEN turno.rodada + 1 ELSE turno.rodada
         /\ tab'.iniciais = tab.iniciais /\ PodeEncerrar(j) /\ AvaliarTermino
<1> DEFINE v == [jogadores[j] EXCEPT !.primeiroTurno = FALSE]
<1>1. /\ DaVez(j) /\ jogadores' = [jogadores EXCEPT ![j].primeiroTurno = FALSE]
      /\ tab' = SemSequencia(tab)
      /\ turno' = TurnoApos(tab, jogadores, j) /\ turno'.rodada <= RodadaMaxima
      /\ UNCHANGED <<iluminadas, graca, geradores, cartao>> /\ AvaliarTermino
      /\ jogadores[j].primeiroTurno => tab.peoes[j] # Nada
      /\ PodeEncerrar(j)
  BY DEF EncerrarTurno, PodeEncerrar, NaPeca
<1>2. /\ j \in Jogadores /\ j = turno.ativo /\ j \in DOMAIN jogadores /\ Bom(tab)
      /\ \A k \in DOMAIN jogadores : jogadores[k] \in Jogador
  BY <1>1, ElencoDe DEF Tipos, DaVez, Turno
<1>3. /\ v \in Jogador /\ Sadio(v) /\ v.primeiroTurno = FALSE
      /\ v.baixa = jogadores[j].baixa /\ v.amedrontado = jogadores[j].amedrontado
  BY <1>2 DEF Tipos, Jogador, Sadio
<1>4. jogadores' = [jogadores EXCEPT ![j] = v]
  BY <1>1
<1> HIDE DEF v
<1>5. /\ jogadores' \in Elencos /\ DOMAIN jogadores' = DOMAIN jogadores /\ jogadores'[j] = v
      /\ \A k \in DOMAIN jogadores \ {j} : jogadores'[k] = jogadores[k]
  BY <1>2, <1>3, <1>4, ParcialTrocada DEF Tipos, Elencos
<1>6. \A k \in DOMAIN jogadores :
        /\ Sadio(jogadores'[k])
        /\ jogadores'[k].primeiroTurno = (jogadores[k].primeiroTurno /\ k # j)
        /\ jogadores'[k].baixa = jogadores[k].baixa
        /\ jogadores'[k].amedrontado = jogadores[k].amedrontado
  <2> SUFFICES ASSUME NEW k \in DOMAIN jogadores
               PROVE  /\ Sadio(jogadores'[k])
                      /\ jogadores'[k].primeiroTurno = (jogadores[k].primeiroTurno /\ k # j)
                      /\ jogadores'[k].baixa = jogadores[k].baixa
                      /\ jogadores'[k].amedrontado = jogadores[k].amedrontado
    OBVIOUS
  <2>1. CASE k = j
    BY <1>3, <1>5, <2>1
  <2>2. CASE k # j
    <3>1. jogadores'[k] = jogadores[k] /\ jogadores[k].primeiroTurno \in BOOLEAN
      BY <1>2, <1>5, <2>2 DEF Jogador
    <3>2. QED
      BY <2>2, <3>1 DEF Tipos
  <2>3. QED
    BY <2>1, <2>2
<1>7. EmBaixa(jogadores') = EmBaixa(jogadores) /\ Acordados(jogadores') = Acordados(jogadores)
  BY <1>5, <1>6 DEF EmBaixa, Acordados
<1>8. Proximo(jogadores', j) = Proximo(jogadores, j)
  BY <1>5, <1>7 DEF Proximo
<1>9. /\ turno' \in Turno /\ turno'.ativo = Proximo(jogadores, j) /\ turno'.ativo \in DOMAIN jogadores
      /\ turno'.inicio = tab.peoes[turno'.ativo]
      /\ ~turno'.confirmada /\ ~turno'.atravessou /\ turno'.travessia = Nada
  BY <1>1, <1>2, TurnoAposTipos DEF Tipos
<1>10. /\ Bom(tab') /\ tab'.peoes = tab.peoes /\ tab'.posicionadas = tab.posicionadas
       /\ tab'.recebidas = <<>> /\ tab'.peao = Nada
       /\ tab'.caixa = tab.caixa /\ tab'.iniciais = tab.iniciais
  BY <1>1, <1>2, SemSequenciaBom
<1>f. Fora(tab') \subseteq Fora(tab)
  BY <1>10, ParcialVazia DEF Fora, Pendentes
<1>11. tab' = SemSequencia(tab')
  BY <1>1, <1>2 DEF Bom, Tabuleiros, SemSequencia
<1>12. Tipos'
  BY <1>1, <1>5, <1>6, <1>9, <1>10, TerminoSegue DEF Tipos
<1>13. turno'.rodada = IF Acordados(jogadores') # {} /\ turno'.ativo <= j
                      THEN turno.rodada + 1 ELSE turno.rodada
  BY <1>1, <1>7 DEF TurnoApos
<1>14. QED
  BY <1>1, <1>2, <1>5, <1>6, <1>7, <1>8, <1>9, <1>10, <1>11, <1>12, <1>13, <1>f

LEMMA DesistirTipos ==
  ASSUME Tipos, NEW j, Desistir(j)
  PROVE  /\ Tipos' /\ j \in DOMAIN jogadores /\ DOMAIN jogadores' = DOMAIN jogadores \ {j}
         /\ \A k \in DOMAIN jogadores' :
              tab'.peoes[k] = tab.peoes[k] /\ jogadores'[k] = jogadores[k]
         /\ Mesa(tab') \subseteq Mesa(tab)
         /\ \A q \in Mesa(tab') : tab'.posicionadas[q] = tab.posicionadas[q]
         /\ graca' = graca \cap Mesa(tab') /\ Fora(tab') \subseteq Fora(tab)
         /\ IF j = turno.ativo
            THEN /\ turno'.ativo = Proximo(jogadores', j) /\ turno'.inicio = tab'.peoes[turno'.ativo]
                 /\ ~turno'.confirmada /\ ~turno'.atravessou /\ turno'.travessia = Nada
                 /\ tab'.recebidas = <<>> /\ tab'.peao = Nada /\ tab' = SemSequencia(tab')
            ELSE /\ turno' = turno /\ tab'.recebidas = tab.recebidas /\ tab'.peao = tab.peao
                 /\ tab'.manipulacao = tab.manipulacao
         /\ UNCHANGED <<geradores, cartao>>
<1> DEFINE restantes == Restringir(jogadores, DOMAIN jogadores \ {j})
           fora      == SemPeao(tab, j)
           semPeao   == IF j = turno.ativo THEN SemSequencia(fora) ELSE fora
           limpo     == AplicarLimpeza(semPeao, Luz(semPeao, restantes))
<1>1. /\ resultado = Nada /\ j \in DOMAIN jogadores /\ tab' = limpo /\ jogadores' = restantes
      /\ iluminadas' = Luz(semPeao, restantes) /\ graca' = graca \cap Mesa(limpo)
      /\ turno' = IF j = turno.ativo THEN TurnoApos(limpo, restantes, j) ELSE turno
      /\ turno'.rodada <= RodadaMaxima /\ UNCHANGED <<geradores, cartao>> /\ AvaliarTermino
  BY DEF Desistir
<1>2. j \in Jogadores /\ Bom(tab) /\ turno \in Turno
  BY <1>1, ElencoDe DEF Tipos
<1>3. /\ restantes \in Elencos /\ DOMAIN restantes = DOMAIN jogadores \ {j}
      /\ \A k \in DOMAIN restantes : restantes[k] = jogadores[k]
  BY ParcialRestrita DEF Tipos, Elencos
<1> HIDE DEF restantes
<1>4. /\ Bom(fora) /\ fora.posicionadas = tab.posicionadas /\ fora.recebidas = tab.recebidas
      /\ fora.peao = tab.peao /\ DOMAIN fora.peoes = DOMAIN tab.peoes \ {j}
      /\ \A k \in DOMAIN fora.peoes : fora.peoes[k] = tab.peoes[k]
      /\ fora.caixa = tab.caixa /\ fora.iniciais = tab.iniciais
  BY <1>2, SemPeaoBom
<1>5. fora.manipulacao = tab.manipulacao
  BY <1>2 DEF SemPeao, Bom, Tabuleiros
<1> HIDE DEF fora
<1>6. /\ Bom(semPeao) /\ semPeao.peoes = fora.peoes /\ semPeao.posicionadas = tab.posicionadas
      /\ semPeao.caixa = tab.caixa /\ semPeao.iniciais = tab.iniciais
      /\ IF j = turno.ativo
         THEN /\ semPeao.recebidas = <<>> /\ semPeao.peao = Nada
              /\ semPeao.selecionada = Nada /\ semPeao.manipulacao = Nada
         ELSE /\ semPeao.recebidas = tab.recebidas /\ semPeao.peao = tab.peao
              /\ semPeao.manipulacao = tab.manipulacao
  <2>1. CASE j = turno.ativo
    <3>1. semPeao = SemSequencia(fora)
      BY <2>1
    <3> HIDE DEF semPeao
    <3>2. semPeao.selecionada = Nada /\ semPeao.manipulacao = Nada
      BY <1>4, <3>1 DEF SemSequencia, Bom, Tabuleiros
    <3>3. QED
      BY <1>4, <2>1, <3>1, <3>2, SemSequenciaBom
  <2>2. CASE j # turno.ativo
    BY <1>4, <1>5, <2>2
  <2>3. QED
    BY <2>1, <2>2
<1> HIDE DEF semPeao
<1>7. Mesa(semPeao) = Mesa(tab) /\ Fora(semPeao) \subseteq Fora(tab)
  BY <1>6, ParcialVazia DEF Mesa, Fora, Pendentes
<1>8. /\ Bom(limpo) /\ limpo.peoes = fora.peoes /\ Mesa(limpo) \subseteq Mesa(tab)
      /\ \A q \in Mesa(limpo) : limpo.posicionadas[q] = tab.posicionadas[q]
      /\ limpo.recebidas = semPeao.recebidas /\ limpo.peao = semPeao.peao
      /\ limpo.caixa = semPeao.caixa /\ limpo.iniciais = semPeao.iniciais
      /\ limpo.manipulacao = semPeao.manipulacao /\ limpo.selecionada = semPeao.selecionada
  BY <1>6, <1>7, LimpezaBom
<1> HIDE DEF limpo
<1>f. Fora(limpo) \subseteq Fora(tab)
  BY <1>7, <1>8 DEF Fora, Pendentes
<1>9. DOMAIN limpo.peoes = DOMAIN restantes /\ DOMAIN restantes # {}
  BY <1>1, <1>3, <1>4, <1>8, RestaAlguem DEF Tipos
<1>10. j = turno.ativo => limpo = SemSequencia(limpo)
  BY <1>6, <1>8 DEF Bom, Tabuleiros, SemSequencia
<1>11. /\ turno' \in Turno /\ turno'.ativo \in DOMAIN restantes
       /\ IF j = turno.ativo
          THEN /\ turno'.ativo = Proximo(restantes, j) /\ turno'.inicio = limpo.peoes[turno'.ativo]
               /\ ~turno'.confirmada /\ ~turno'.atravessou /\ turno'.travessia = Nada
          ELSE turno' = turno
  <2>1. CASE j = turno.ativo
    <3>1. turno' = TurnoApos(limpo, restantes, j) /\ turno'.rodada <= RodadaMaxima
      BY <1>1, <2>1
    <3>2. Bom(limpo) /\ restantes \in Elencos /\ DOMAIN restantes # {} /\ DOMAIN limpo.peoes = DOMAIN restantes
      BY <1>3, <1>8, <1>9
    <3>3. /\ turno' \in Turno /\ turno'.ativo = Proximo(restantes, j) /\ turno'.ativo \in DOMAIN restantes
          /\ turno'.inicio = limpo.peoes[turno'.ativo]
          /\ ~turno'.confirmada /\ ~turno'.atravessou /\ turno'.travessia = Nada
      BY <1>2, <3>1, <3>2, TurnoAposTipos
    <3>4. QED
      BY <2>1, <3>3
  <2>2. CASE j # turno.ativo
    BY <1>1, <1>2, <1>3, <2>2 DEF Tipos
  <2>3. QED
    BY <2>1, <2>2
<1>12. iluminadas' \subseteq Celulas
  BY <1>1, <1>6, LuzCelulas DEF Bom
<1>13. \A k \in DOMAIN restantes : Sadio(restantes[k])
  BY <1>3 DEF Tipos
<1>14. graca' \subseteq Pecas
  BY <1>1 DEF Tipos
<1>15. Tipos'
  BY <1>1, <1>3, <1>8, <1>9, <1>11, <1>12, <1>13, <1>14, TerminoSegue DEF Tipos
<1>16. QED
  BY <1>1, <1>3, <1>4, <1>6, <1>8, <1>9, <1>10, <1>11, <1>15, <1>f

LEMMA ConfirmarTipos ==
  ASSUME Tipos, NEW j, ConfirmarPosicao(j)
  PROVE  /\ Tipos' /\ PodeConfirmar(j) /\ j = turno.ativo /\ tab.peoes[j] \in Mesa(tab)
         /\ tab'.peoes = tab.peoes /\ tab'.manipulacao = tab.manipulacao /\ tab'.peao \in {tab.peao, j}
         /\ \A r \in Pendentes(tab') : tab'.recebidas[r].vaga = Nada
         /\ Mesa(tab') \subseteq Mesa(tab)
         /\ \A q \in Mesa(tab') : tab'.posicionadas[q] = tab.posicionadas[q]
         /\ \A q \in Mesa(tab) : Ocupantes(tab, q) # {} => q \in Mesa(tab')
         /\ DOMAIN jogadores' = DOMAIN jogadores
         /\ \A k \in DOMAIN jogadores : jogadores'[k].primeiroTurno = jogadores[k].primeiroTurno
         /\ graca' \subseteq graca \cup {tab.peoes[j]}
         /\ graca \cap Mesa(tab') \subseteq graca'
         /\ \A k \in DOMAIN jogadores :
              Afetado(jogadores[k]) => Afetado(jogadores'[k]) \/ tab.peoes[k] \in graca'
         /\ tab.peoes[j] \in graca' \ graca =>
              \E k \in DOMAIN jogadores \ {j} : tab.peoes[k] = tab.peoes[j]
         /\ turno' = [turno EXCEPT !.confirmada = TRUE] /\ Fora(tab') \subseteq Fora(tab)
         /\ Clareada(tab', jogadores', iluminadas')
         /\ tab'.recebidas # <<>> => ~jogadores'[j].baixa
<1> DEFINE p        == NaPeca(j)
           curados  == Resgatados(tab, jogadores, p, j)
           gerado   == GerarRecebidas(tab, p, FALSE, {}, Nada)
           sorteado == IF jogadores[j].baixa \/ p = turno.inicio THEN tab ELSE gerado
           feridos  == Atacados(sorteado, curados, turno.inicio, p)
           luz      == Luz(sorteado, feridos)
           limpo    == AplicarLimpeza(sorteado, luz)
           mesa     == Devolvida(limpo, j, feridos)
           protegidos == [feridos EXCEPT ![j].protegido = TRUE]
<1>1. /\ PodeConfirmar(j) /\ tab' = Adotada(mesa, j)
      /\ jogadores' = protegidos \/ jogadores' = feridos
      /\ iluminadas' = luz
      /\ graca' = (IF curados # jogadores THEN graca \cup {p} ELSE graca) \cap Mesa(limpo)
      /\ turno' = [turno EXCEPT !.confirmada = TRUE]
      /\ geradores' = geradores \cup {p} \/ geradores' = geradores
      /\ cartao' = (cartao \/ Tipo(p) = "sala_do_diretor")
      /\ AvaliarTermino
  BY DEF ConfirmarPosicao
<1>2. /\ j \in Jogadores /\ j = turno.ativo /\ j \in DOMAIN jogadores /\ Bom(tab)
      /\ p \in Mesa(tab) /\ p = tab.peoes[j] /\ tab.recebidas = <<>> /\ p \in Pecas
  BY <1>1, MesaDe DEF PodeConfirmar, SemPassoDefinitivo, DaVez, Tipos, Turno, Bom, NaPeca
<1> HIDE DEF p
<1>3. /\ curados \in Elencos /\ DOMAIN curados = DOMAIN jogadores
      /\ \A k \in DOMAIN jogadores :
           /\ Sadio(curados[k]) /\ curados[k].primeiroTurno = jogadores[k].primeiroTurno
           /\ curados[k] # jogadores[k] => k # j /\ tab.peoes[k] = p
  BY <1>2, ResgatadosForma DEF Tipos
<1>4. curados # jogadores <=> \E k \in DOMAIN jogadores : curados[k] # jogadores[k]
  <2>1. /\ jogadores = [k \in DOMAIN jogadores |-> jogadores[k]]
        /\ curados = [k \in DOMAIN curados |-> curados[k]]
    BY <1>3, ParcialDe DEF Tipos, Elencos
  <2>2. QED
    BY <1>3, <2>1
<1> HIDE DEF curados
<1>5. /\ Bom(sorteado) /\ sorteado.peoes = tab.peoes /\ sorteado.posicionadas = tab.posicionadas
      /\ sorteado.manipulacao = tab.manipulacao /\ sorteado.peao = tab.peao
      /\ \A r \in Pendentes(sorteado) : sorteado.recebidas[r].vaga = Nada
      /\ Fora(sorteado) \subseteq Fora(tab)
  <2>1. \E e, l : gerado = GerarRecebidas(tab, p, e, l, Nada)
    BY Zenon
  <2>2. sorteado = gerado \/ sorteado = tab
    OBVIOUS
  <2> HIDE DEF gerado, sorteado
  <2>3. /\ Bom(gerado) /\ gerado.peoes = tab.peoes /\ gerado.posicionadas = tab.posicionadas
        /\ gerado.manipulacao = tab.manipulacao /\ gerado.peao = tab.peao
        /\ \A r \in Pendentes(gerado) :
             gerado.recebidas[r] = [orientacao |-> 0, vaga |-> Nada, alvo |-> Nada]
        /\ Fora(gerado) \subseteq Fora(tab)
    BY <1>2, <2>1, SorteioLivre
  <2>4. Pendentes(tab) = {}
    BY <1>2, ParcialVazia DEF Pendentes
  <2>5. QED
    BY <1>2, <2>2, <2>3, <2>4
<1>6. Mesa(sorteado) = Mesa(tab) /\ \A q : Ocupantes(sorteado, q) = Ocupantes(tab, q)
  BY <1>5 DEF Mesa, Ocupantes
<1>b. jogadores[j].baixa => sorteado.recebidas = <<>>
  BY <1>2
<1> HIDE DEF sorteado
<1>7. /\ feridos \in Elencos /\ DOMAIN feridos = DOMAIN jogadores
      /\ \A k \in DOMAIN jogadores :
           /\ Sadio(feridos[k])
           /\ feridos[k].primeiroTurno = jogadores[k].primeiroTurno
           /\ curados[k].baixa => feridos[k].baixa
           /\ curados[k].amedrontado => feridos[k].amedrontado
  BY <1>3, AtacadosForma
<1> HIDE DEF feridos
<1>8. /\ Bom(limpo) /\ limpo.peoes = tab.peoes /\ limpo.recebidas = sorteado.recebidas
      /\ limpo.peao = tab.peao /\ limpo.manipulacao = tab.manipulacao
      /\ limpo.caixa = sorteado.caixa /\ limpo.iniciais = sorteado.iniciais
      /\ Mesa(limpo) \subseteq Mesa(tab)
      /\ \A q \in Mesa(limpo) : limpo.posicionadas[q] = tab.posicionadas[q]
      /\ \A q \in Mesa(tab) : Ocupantes(tab, q) # {} => q \in Mesa(limpo)
  BY <1>5, <1>6, LimpezaBom
<1>f. Fora(limpo) \subseteq Fora(tab)
  BY <1>5, <1>8 DEF Fora, Pendentes
<1>9. luz \subseteq Celulas
  BY <1>5, LuzCelulas DEF Bom
<1>c. Clareada(limpo, feridos, luz)
  BY <1>5, <1>8, LimpezaClareia
<1> HIDE DEF limpo, luz
<1>10. /\ Bom(mesa) /\ mesa.peoes = tab.peoes /\ mesa.posicionadas = limpo.posicionadas
       /\ mesa.peao = tab.peao /\ mesa.manipulacao = tab.manipulacao
       /\ mesa.recebidas \in {sorteado.recebidas, <<>>} /\ Fora(mesa) \subseteq Fora(tab)
  BY <1>8, <1>f, DevolvidaBom
<1>d. mesa.recebidas # <<>> => ~feridos[j].baixa
  <2>1. feridos[j].baixa /\ ~jogadores[j].baixa => mesa.recebidas = <<>>
    BY <1>8 DEF Devolvida, Bom, Tabuleiros
  <2>2. QED
    BY <1>10, <1>b, <2>1
<1> HIDE DEF mesa
<1>11. /\ Bom(tab') /\ tab'.peoes = tab.peoes /\ tab'.posicionadas = limpo.posicionadas
       /\ tab'.manipulacao = tab.manipulacao /\ tab'.peao \in {tab.peao, j}
       /\ tab'.recebidas \in {sorteado.recebidas, <<>>}
       /\ tab'.recebidas = mesa.recebidas /\ tab'.caixa = mesa.caixa /\ tab'.iniciais = mesa.iniciais
  BY <1>1, <1>2, <1>10, AdotadaBom
<1>g. Fora(tab') \subseteq Fora(tab)
  BY <1>10, <1>11 DEF Fora, Pendentes
<1>12. Mesa(tab') = Mesa(limpo) /\ \A r \in Pendentes(tab') : tab'.recebidas[r].vaga = Nada
  BY <1>5, <1>11, ParcialVazia DEF Mesa, Pendentes
<1>13. /\ jogadores' \in Elencos /\ DOMAIN jogadores' = DOMAIN jogadores
       /\ \A k \in DOMAIN jogadores :
            /\ Sadio(jogadores'[k]) /\ jogadores'[k].primeiroTurno = feridos[k].primeiroTurno
            /\ jogadores'[k].baixa = feridos[k].baixa
            /\ jogadores'[k].amedrontado = feridos[k].amedrontado
  <2>1. CASE jogadores' = feridos
    BY <1>7, <2>1
  <2>2. CASE jogadores' = protegidos
    <3> DEFINE v == [feridos[j] EXCEPT !.protegido = TRUE]
    <3>1. feridos[j] \in Jogador /\ Sadio(feridos[j])
      BY <1>2, <1>7, ElencoDe
    <3>2. /\ v \in Jogador /\ Sadio(v) /\ v.primeiroTurno = feridos[j].primeiroTurno
          /\ v.baixa = feridos[j].baixa /\ v.amedrontado = feridos[j].amedrontado
      BY <3>1 DEF Jogador, Sadio
    <3>3. jogadores' = [feridos EXCEPT ![j] = v]
      BY <2>2
    <3> HIDE DEF v
    <3>4. /\ jogadores' \in Elencos /\ DOMAIN jogadores' = DOMAIN feridos /\ jogadores'[j] = v
          /\ \A k \in DOMAIN feridos \ {j} : jogadores'[k] = feridos[k]
      BY <1>2, <1>7, <3>2, <3>3, ParcialTrocada DEF Elencos
    <3>5. QED
      BY <1>7, <3>2, <3>4
  <2>3. QED
    BY <1>1, <2>1, <2>2
<1>14. turno' \in Turno /\ turno'.ativo = turno.ativo
  BY <1>1 DEF Tipos, Turno
<1>15. geradores' \subseteq Pecas /\ graca' \subseteq graca \cup {p} /\ graca \cap Mesa(limpo) \subseteq graca'
  BY <1>1, <1>2 DEF Tipos
<1>16. cartao' \in BOOLEAN
  BY <1>1 DEF Tipos
<1>17. Tipos'
  <2>1. graca' \subseteq Pecas
    BY <1>2, <1>15 DEF Tipos
  <2>2. DOMAIN tab'.peoes = DOMAIN jogadores' /\ turno'.ativo \in DOMAIN jogadores'
    BY <1>11, <1>13, <1>14 DEF Tipos
  <2>3. QED
    BY <1>1, <1>9, <1>11, <1>13, <1>14, <1>15, <1>16, <2>1, <2>2, TerminoSegue
<1>18. ASSUME NEW k \in DOMAIN jogadores, Afetado(jogadores[k]), tab.peoes[k] \notin graca'
       PROVE  Afetado(jogadores'[k])
  <2>1. curados[k] = jogadores[k]
    <3> SUFFICES ASSUME curados[k] # jogadores[k] PROVE FALSE
      OBVIOUS
    <3>1. curados # jogadores /\ tab.peoes[k] = p
      BY <1>3, <1>4
    <3>2. j \in Ocupantes(tab, p)
      BY <1>2 DEF Ocupantes, Tipos
    <3>3. p \in graca'
      BY <1>1, <1>2, <1>8, <3>1, <3>2
    <3>4. QED
      BY <1>18, <3>1, <3>3
  <2>2. QED
    BY <1>7, <1>13, <1>18, <2>1 DEF Afetado
<1>19. p \in graca' \ graca => \E k \in DOMAIN jogadores \ {j} : tab.peoes[k] = p
  BY <1>1, <1>3, <1>4
<1>20. Clareada(tab', jogadores', iluminadas')
  <2>1. EmBaixa(jogadores') = EmBaixa(feridos)
    BY <1>7, <1>13 DEF EmBaixa
  <2>2. /\ tab'.peoes = limpo.peoes /\ Mesa(tab') = Mesa(limpo)
        /\ \A q \in Mesa(limpo) : CelulaDe(tab', q) = CelulaDe(limpo, q)
    BY <1>8, <1>11 DEF Mesa, CelulaDe
  <2>3. Clareada(tab', jogadores', luz)
    BY <1>c, <2>1, <2>2, ClareadaMesma
  <2>4. QED
    BY <1>1, <2>3
<1>21. tab'.recebidas # <<>> => ~jogadores'[j].baixa
  BY <1>2, <1>11, <1>13, <1>d
<1>22. QED
  BY <1>1, <1>2, <1>7, <1>8, <1>11, <1>12, <1>13, <1>15, <1>17, <1>18, <1>19, <1>20, <1>21, <1>g

-----------------------------------------------------------------------------
(* The two steps a bot takes at once: some turns of a piece and its        *)
(* encaixe.                                                                *)

LEMMA ViradasTipos ==
  ASSUME NEW p, NEW o \in Orientacoes
  PROVE  Viradas(p, o) \subseteq Orientacoes
<1>1. Giros \subseteq Int /\ \A passo \in Giros : passo + passo \in Int
  BY PartidaAssumption DEF Horario, AntiHorario
<1>2. QED
  BY <1>1, Rotacionada DEF Viradas, Orientacoes

LEMMA InicialViradaBom ==
  ASSUME NEW t, Bom(t), NEW p \in DOMAIN t.iniciais, NEW o \in Orientacoes,
         NEW n, n = [t EXCEPT !.iniciais[p] = o]
  PROVE  /\ Bom(n) /\ n.peoes = t.peoes /\ n.posicionadas = t.posicionadas /\ n.peao = t.peao
         /\ n.recebidas = t.recebidas /\ DOMAIN n.iniciais = DOMAIN t.iniciais
         /\ n.selecionada = t.selecionada /\ n.caixa = t.caixa
<1> DEFINE r == [t.iniciais EXCEPT ![p] = o]
<1>1. n = [t EXCEPT !.iniciais = r] /\ t.iniciais \in Parcial(PecasIniciais, Orientacoes)
  BY DEF Bom, Tabuleiros
<1>2. r \in Parcial(PecasIniciais, Orientacoes) /\ DOMAIN r = DOMAIN t.iniciais
  BY <1>1, ParcialTrocada
<1> HIDE DEF r
<1>3. /\ n \in Tabuleiros
      /\ n.caixa = t.caixa /\ n.iniciais = r /\ n.posicionadas = t.posicionadas
      /\ n.peoes = t.peoes /\ n.recebidas = t.recebidas /\ n.peao = t.peao
      /\ n.selecionada = t.selecionada
  BY <1>1, <1>2 DEF Bom, Tabuleiros
<1>4. PeoesSobrePecas(n) /\ PecasSeparadas(n) /\ AlvosDasVagas(n)
  BY <1>2, <1>3 DEF Bom, PeoesSobrePecas, PecasSeparadas, AlvosDasVagas, Mesa, Pendentes, CelulaDe
<1>5. QED
  BY <1>2, <1>3, <1>4 DEF Bom

LEMMA RecebidaViradaBom ==
  ASSUME NEW t, Bom(t), NEW p \in Pendentes(t), NEW o \in Orientacoes,
         NEW n, n = [t EXCEPT !.recebidas[p].orientacao = o]
  PROVE  /\ Bom(n) /\ n.peoes = t.peoes /\ n.posicionadas = t.posicionadas /\ n.peao = t.peao
         /\ n.iniciais = t.iniciais /\ n.caixa = t.caixa /\ Pendentes(n) = Pendentes(t)
         /\ n.recebidas[p].vaga = t.recebidas[p].vaga /\ n.recebidas[p].alvo = t.recebidas[p].alvo
         /\ n.recebidas[p].orientacao = o
         /\ \A q \in Pendentes(t) \ {p} : n.recebidas[q] = t.recebidas[q]
<1> DEFINE v == [t.recebidas[p] EXCEPT !.orientacao = o]
           r == [t.recebidas EXCEPT ![p] = v]
<1>1. /\ t \in Tabuleiros /\ t.recebidas[p] \in Recebida
      /\ t.recebidas \in Parcial(PecasDaCaixa, Recebida)
  BY MesaDe DEF Bom, Tabuleiros
<1>2. v \in Recebida /\ v.vaga = t.recebidas[p].vaga /\ v.alvo = t.recebidas[p].alvo
      /\ v.orientacao = o
  BY <1>1 DEF Recebida
<1>3. n = [t EXCEPT !.recebidas = r]
  BY <1>1 DEF Tabuleiros
<1> HIDE DEF v
<1>4. /\ r \in Parcial(PecasDaCaixa, Recebida)
      /\ DOMAIN r = Pendentes(t) /\ r[p] = v /\ \A q \in Pendentes(t) \ {p} : r[q] = t.recebidas[q]
  BY <1>1, <1>2, ParcialTrocada DEF Pendentes
<1> HIDE DEF r
<1>5. /\ n \in Tabuleiros
      /\ n.caixa = t.caixa /\ n.iniciais = t.iniciais /\ n.posicionadas = t.posicionadas
      /\ n.peoes = t.peoes /\ n.recebidas = r /\ n.peao = t.peao
  BY <1>1, <1>3, <1>4 DEF Tabuleiros
<1>6. Mesa(n) = Mesa(t) /\ Pendentes(n) = Pendentes(t)
  BY <1>4, <1>5 DEF Mesa, Pendentes
<1>7. PeoesSobrePecas(n) /\ PecasSeparadas(n) /\ AlvosDasVagas(n)
  BY <1>2, <1>4, <1>5, <1>6 DEF Bom, PeoesSobrePecas, PecasSeparadas, AlvosDasVagas, CelulaDe
<1>8. QED
  BY <1>2, <1>4, <1>5, <1>6, <1>7 DEF Bom

LEMMA EncaixarInicialDoBotTipos ==
  ASSUME Tipos, NEW j, NEW p, NEW c \in Celulas, EncaixarInicialDoBot(j, p, c)
  PROVE  /\ Tipos' /\ tab'.peoes = tab.peoes /\ tab'.recebidas = tab.recebidas /\ tab'.peao = tab.peao
         /\ Mesa(tab') = Mesa(tab) \cup {p} /\ p \notin Mesa(tab) /\ p \in PecasIniciais
         /\ tab'.manipulacao = p
         /\ tab'.caixa = tab.caixa /\ DOMAIN tab'.iniciais = DOMAIN tab.iniciais \ {p}
         /\ \A q \in Mesa(tab) : tab'.posicionadas[q] = tab.posicionadas[q]
         /\ UNCHANGED <<jogadores, turno, iluminadas, graca, geradores, cartao>>
<1>1. PodePosicionarInicial(tab, p, c) /\ p \in DOMAIN tab.iniciais
  BY DEF EncaixarInicialDoBot, PodePosicionarAInicial, PodePosicionarInicial
<1>2. PICK o \in Viradas(p, tab.iniciais[p]) :
        DelegarAoTabuleiro(PosicionarInicial([tab EXCEPT !.iniciais[p] = o], p, c))
  BY DEF EncaixarInicialDoBot
<1>3. o \in Orientacoes
  <2>1. tab.iniciais[p] \in Orientacoes
    BY <1>1, ParcialDe DEF Tipos, Bom, Tabuleiros
  <2>2. QED
    BY <1>2, <2>1, ViradasTipos
<1> DEFINE t == [tab EXCEPT !.iniciais[p] = o]
<1>4. DelegarAoTabuleiro(PosicionarInicial(t, p, c))
  BY <1>2
<1>5. t = [tab EXCEPT !.iniciais[p] = o]
  OBVIOUS
<1> HIDE DEF t
<1>6. /\ Bom(t) /\ t.peoes = tab.peoes /\ t.posicionadas = tab.posicionadas /\ t.peao = tab.peao
      /\ t.recebidas = tab.recebidas /\ DOMAIN t.iniciais = DOMAIN tab.iniciais
      /\ t.selecionada = tab.selecionada /\ t.caixa = tab.caixa
  BY <1>1, <1>3, <1>5, InicialViradaBom DEF Tipos
<1>7. PodePosicionarInicial(t, p, c)
  BY <1>1, <1>6 DEF PodePosicionarInicial, Vazia, Mesa, CelulaDe
<1>8. QED
  BY <1>4, <1>6, <1>7, EncaixarInicialTipos

LEMMA EncaixarRecebidaDoBotTipos ==
  ASSUME Tipos, NEW j, NEW r, NEW c, EncaixarRecebidaDoBot(j, r, c)
  PROVE  \E t : /\ Bom(t) /\ t.peoes = tab.peoes /\ t.posicionadas = tab.posicionadas
                /\ t.peao \in {tab.peao, j} /\ t.iniciais = tab.iniciais /\ t.caixa = tab.caixa
                /\ PodePosicionarRecebida(t, r, c) /\ tab' = PosicionarRecebida(t, r, c)
                /\ Pendentes(t) = Pendentes(tab)
                /\ \A q \in Pendentes(t) : /\ t.recebidas[q].vaga = tab.recebidas[q].vaga
                                           /\ t.recebidas[q].alvo = tab.recebidas[q].alvo
                /\ turno' = IF turno.atravessou THEN [turno EXCEPT !.travessia = r] ELSE turno
                /\ UNCHANGED <<jogadores, iluminadas, graca, geradores, cartao>>
                /\ AvaliarTermino /\ j = turno.ativo
<1>1. PICK o \in Viradas(r, tab.recebidas[r].orientacao) :
        LET girado == [Adotada(tab, j) EXCEPT !.recebidas[r].orientacao = o]
        IN  /\ PodePosicionarARecebida(j, r, c)
            /\ Conecta(girado, r)
            /\ tab' = PosicionarRecebida(girado, r, c)
            /\ turno' = IF turno.atravessou THEN [turno EXCEPT !.travessia = r] ELSE turno
            /\ UNCHANGED <<jogadores, iluminadas, graca, geradores, cartao>>
            /\ AvaliarTermino
  BY DEF EncaixarRecebidaDoBot
<1> DEFINE s == Adotada(tab, j)
           t == [s EXCEPT !.recebidas[r].orientacao = o]
<1>2. j \in Jogadores /\ j = turno.ativo /\ PodePosicionarRecebida(s, r, c)
  BY <1>1 DEF PodePosicionarARecebida, DaVez, Tipos, Turno
<1>3. /\ Bom(s) /\ s.peoes = tab.peoes /\ s.posicionadas = tab.posicionadas
      /\ s.recebidas = tab.recebidas /\ s.iniciais = tab.iniciais /\ s.peao \in {tab.peao, j}
      /\ s.caixa = tab.caixa
  BY <1>2, AdotadaBom DEF Tipos
<1>4. Conecta(t, r) /\ tab' = PosicionarRecebida(t, r, c) /\ t = [s EXCEPT !.recebidas[r].orientacao = o]
  BY <1>1
<1> HIDE DEF s, t
<1>5. r \in Pendentes(s) /\ r \in Pendentes(tab)
  BY <1>2, <1>3 DEF PodePosicionarRecebida, Pendentes
<1>6. o \in Orientacoes
  <2>1. tab.recebidas[r].orientacao \in Orientacoes
    BY <1>5, MesaDe DEF Tipos, Bom, Recebida
  <2>2. QED
    BY <1>1, <2>1, ViradasTipos
<1>7. /\ Bom(t) /\ t.peoes = s.peoes /\ t.posicionadas = s.posicionadas /\ t.peao = s.peao
      /\ t.iniciais = s.iniciais /\ t.caixa = s.caixa /\ Pendentes(t) = Pendentes(s)
      /\ t.recebidas[r].vaga = s.recebidas[r].vaga /\ t.recebidas[r].alvo = s.recebidas[r].alvo
      /\ \A q \in Pendentes(s) \ {r} : t.recebidas[q] = s.recebidas[q]
  BY <1>3, <1>4, <1>5, <1>6, RecebidaViradaBom
<1>8. PodePosicionarRecebida(t, r, c)
  <2>1. PecaSob(t, t.peao) = PecaSob(s, s.peao) /\ (Vazia(s, c) => Vazia(t, c))
    BY <1>7 DEF PecaSob, Vazia, Mesa, CelulaDe
  <2>2. ConectaNaVaga(r, t.recebidas[r].orientacao, t.recebidas[r].vaga)
    BY <1>4 DEF Conecta
  <2>3. QED
    BY <1>2, <1>5, <1>7, <2>1, <2>2 DEF PodePosicionarRecebida
<1>9. Pendentes(t) = Pendentes(tab)
      /\ \A q \in Pendentes(t) : /\ t.recebidas[q].vaga = tab.recebidas[q].vaga
                                 /\ t.recebidas[q].alvo = tab.recebidas[q].alvo
  BY <1>3, <1>7 DEF Pendentes
<1>10. QED
  BY <1>1, <1>2, <1>3, <1>4, <1>7, <1>8, <1>9

-----------------------------------------------------------------------------
(* The steps of a match, whoever takes them: a Player, a bot, a desistência*)

PassoDoBot(j) ==
  \/ \E p \in Pecas \cup {Nada} : SelecionarAPeca(j, p)
  \/ \E p \in DOMAIN tab.iniciais, c \in CelulasDeInicio : EncaixarInicialDoBot(j, p, c)
  \/ \E r \in Pendentes(tab), c \in Celulas : EncaixarRecebidaDoBot(j, r, c)

Passo == \E j \in Jogadores : Jogada(j) \/ PassoDoBot(j) \/ Desistir(j)

LEMMA AcoesDoBot ==
  ASSUME Tipos, NEW j, NEW a \in AcoesValidasDaSubfase(j)
  PROVE  /\ a[1] = "girar_peca" => a[2] \in Pendentes(tab) /\ a[3] \in Giros
         /\ a[1] = "posicionar_peca" /\ EhInicial(a[2]) => a[3] \in CelulasDeInicio
<1>1. ASSUME NEW r \in Fixadas, a \in AcoesDaFixada(r)
      PROVE  /\ a[1] = "girar_peca" => a[2] \in Pendentes(tab) /\ a[3] \in Giros
             /\ a[1] = "posicionar_peca" => a[2] = r
  BY <1>1 DEF AcoesDaFixada, Fixadas
<1>2. \A r \in Fixadas : ~EhInicial(r)
  BY MesaDe, TiposDistintos DEF Fixadas, Tipos, Bom
<1>3. a \in AcoesDasPendentes(j) => a[1] = "escolher_vaga_da_peca_recebida"
  BY DEF AcoesDasPendentes
<1>4. a \in AcoesDoPrimeiroTurno(j) =>
        /\ a[1] # "girar_peca"
        /\ a[1] = "posicionar_peca" => a[3] \in CelulasDeInicio
  BY DEF AcoesDoPrimeiroTurno
<1>5. a \in AcoesSobreOInicio(j) => a[1] # "girar_peca" /\ a[1] # "posicionar_peca"
  BY DEF AcoesSobreOInicio
<1>6. \/ \E r \in Fixadas : a \in AcoesDaFixada(r)
      \/ a \in AcoesDasPendentes(j) \/ a \in AcoesDoPrimeiroTurno(j)
      \/ a \in {<<"encerrar_turno">>, <<"selecionar_peao">>, <<"confirmar_posicao_do_peao">>}
      \/ a \in AcoesSobreOInicio(j)
  BY DEF AcoesValidasDaSubfase
<1>7. QED
  BY <1>1, <1>2, <1>3, <1>4, <1>5, <1>6

LEMMA JogadaDoBotPasso ==
  ASSUME Tipos, NEW j, JogadaDoBot(j)
  PROVE  Passo
<1>1. PICK a \in AcoesValidasDaSubfase(j) : Executa(j, a)
  BY DEF JogadaDoBot
<1>2. j = turno.ativo /\ j \in Jogadores
  BY <1>1 DEF AcoesValidasDaSubfase, Tipos, Turno
<1>3. /\ a[1] = "girar_peca" => a[2] \in Pendentes(tab) /\ a[3] \in Giros
      /\ a[1] = "posicionar_peca" /\ EhInicial(a[2]) => a[3] \in CelulasDeInicio
  BY <1>1, AcoesDoBot
<1>4. CASE a[1] = "posicionar_peca" /\ EhInicial(a[2]) /\ EncaixarInicialDoBot(j, a[2], a[3])
  <2>1. a[2] \in DOMAIN tab.iniciais /\ a[3] \in CelulasDeInicio
    BY <1>3, <1>4 DEF EncaixarInicialDoBot, PodePosicionarAInicial, PodePosicionarInicial
  <2>2. QED
    BY <1>2, <1>4, <2>1 DEF Passo, PassoDoBot
<1>5. CASE a[1] = "posicionar_peca" /\ EncaixarRecebidaDoBot(j, a[2], a[3])
  <2>1. PodePosicionarRecebida(Adotada(tab, j), a[2], a[3]) /\ Bom(Adotada(tab, j))
        /\ Adotada(tab, j).recebidas = tab.recebidas
    BY <1>2, <1>5, AdotadaBom DEF EncaixarRecebidaDoBot, PodePosicionarARecebida, Tipos
  <2>2. a[3] \in Celulas /\ a[2] \in Pendentes(Adotada(tab, j))
    BY <2>1, PosicionarRecebidaBom
  <2>3. a[2] \in Pendentes(tab)
    BY <2>1, <2>2 DEF Pendentes
  <2>4. QED
    BY <1>2, <1>5, <2>2, <2>3 DEF Passo, PassoDoBot
<1>6. CASE a[1] = "girar_peca" /\ GirarAPeca(j, a[2], a[3])
  BY <1>2, <1>3, <1>6 DEF Passo, Jogada, PecasEmJogo
<1>7. CASE EscolherAVaga(j, a[2], a[3])
  <2>1. /\ Bom(Adotada(tab, j)) /\ PodeEscolherVaga(Adotada(tab, j), a[2], a[3])
        /\ Adotada(tab, j).recebidas = tab.recebidas
    BY <1>2, <1>7, AdotadaBom DEF EscolherAVaga, PodeEscolherAVaga, Tipos
  <2>2. a[2] \in Pendentes(tab) /\ a[3] \in Bordas
    BY <2>1, EscolherVagaBom DEF PodeEscolherVaga, Pendentes
  <2>3. QED
    BY <1>2, <1>7, <2>2 DEF Passo, Jogada
<1>8. CASE SelecionarAPeca(j, a[2])
  <2>1. a[2] \in Pecas \cup {Nada}
    BY <1>8, MesaDe DEF SelecionarAPeca, PodeSelecionarAPeca, PodeSelecionarPeca, Tipos, Bom,
                        Tabuleiros, Pecas
  <2>2. QED
    BY <1>2, <1>8, <2>1 DEF Passo, PassoDoBot
<1>9. CASE SelecionarOPeao(j)
  BY <1>2, <1>9 DEF Passo, Jogada
<1>10. CASE PosicionarOPeao(j, a[2])
  <2>1. a[2] \in Mesa(tab)
    BY <1>10 DEF PosicionarOPeao, PodePosicionarOPeao, PodePosicionarPeao
  <2>2. QED
    BY <1>2, <1>10, <2>1 DEF Passo, Jogada
<1>11. CASE MoverOPeao(j, a[2])
  <2>1. a[2] \in Mesa(tab)
    BY <1>11 DEF MoverOPeao, PodeMoverOPeao, PodeMoverPeao
  <2>2. QED
    BY <1>2, <1>11, <2>1 DEF Passo, Jogada
<1>12. CASE AtravessarOEscuro(j, a[2])
  <2>1. a[2] \in Celulas
    BY <1>12, VagaBorda DEF AtravessarOEscuro, PodeAtravessar, Tipos
  <2>2. QED
    BY <1>2, <1>12, <2>1 DEF Passo, Jogada
<1>13. CASE Permanecer(j) \/ ConfirmarPosicao(j) \/ EncerrarTurno(j)
  BY <1>2, <1>13 DEF Passo, Jogada
<1>14. QED
  BY <1>1, <1>4, <1>5, <1>6, <1>7, <1>8, <1>9, <1>10, <1>11, <1>12, <1>13 DEF Executa

LEMMA PassoDosRamos ==
  ASSUME Tipos, Passo
  PROVE  \E j \in Jogadores :
           \/ \E p : SelecionarAPeca(j, p)
           \/ \E p \in PecasEmJogo, passo \in {Horario, AntiHorario} : GirarAPeca(j, p, passo)
           \/ FinalizarManipulacao(j) \/ SelecionarOPeao(j) \/ DesselecionarOPeao(j)
           \/ \E p, c : c \in Celulas /\ PosicionarAInicial(j, p, c)
           \/ \E p, c : c \in Celulas /\ EncaixarInicialDoBot(j, p, c)
           \/ \E p, c : PosicionarARecebida(j, p, c)
           \/ \E p, c : EncaixarRecebidaDoBot(j, p, c)
           \/ \E r, b : EscolherAVaga(j, r, b)
           \/ \E p : p \in Mesa(tab) /\ PosicionarOPeao(j, p)
           \/ \E p : MoverOPeao(j, p)
           \/ \E c : c \in Celulas /\ AtravessarOEscuro(j, c)
           \/ Permanecer(j) \/ ConfirmarPosicao(j) \/ EncerrarTurno(j) \/ Desistir(j)
<1>1. Giros \subseteq {Horario, AntiHorario} /\ CelulasDeInicio \subseteq Celulas
  BY PartidaAssumption
<1>2. PICK j \in Jogadores : Jogada(j) \/ PassoDoBot(j) \/ Desistir(j)
  BY DEF Passo
<1>3. CASE Jogada(j)
  BY <1>1, <1>3 DEF Jogada
<1>4. CASE PassoDoBot(j)
  BY <1>1, <1>4 DEF PassoDoBot
<1>5. CASE Desistir(j)
  BY <1>5
<1>6. QED
  BY <1>2, <1>3, <1>4, <1>5

(* The steps that leave every pawn and the roster where they are.          *)
LEMMA PosicionarARecebidaTipos ==
  ASSUME Tipos, NEW j, NEW r, NEW c, PosicionarARecebida(j, r, c)
  PROVE  LET t == Adotada(tab, j)
         IN  /\ Bom(t) /\ t.peoes = tab.peoes /\ t.posicionadas = tab.posicionadas
             /\ t.peao \in {tab.peao, j} /\ t.iniciais = tab.iniciais /\ t.recebidas = tab.recebidas
             /\ t.caixa = tab.caixa
             /\ PodePosicionarRecebida(t, r, c) /\ tab' = PosicionarRecebida(t, r, c)
             /\ turno' = IF turno.atravessou THEN [turno EXCEPT !.travessia = r] ELSE turno
             /\ UNCHANGED <<jogadores, iluminadas, graca, geradores, cartao>>
             /\ AvaliarTermino /\ j = turno.ativo
<1>1. /\ j \in Jogadores /\ j = turno.ativo /\ PodePosicionarRecebida(Adotada(tab, j), r, c)
      /\ tab' = PosicionarRecebida(Adotada(tab, j), r, c)
      /\ turno' = IF turno.atravessou THEN [turno EXCEPT !.travessia = r] ELSE turno
      /\ UNCHANGED <<jogadores, iluminadas, graca, geradores, cartao>> /\ AvaliarTermino
  BY DEF PosicionarARecebida, PodePosicionarARecebida, DaVez, Tipos, Turno
<1> DEFINE t == Adotada(tab, j)
<1>2. /\ Bom(t) /\ t.peoes = tab.peoes /\ t.posicionadas = tab.posicionadas
      /\ t.peao \in {tab.peao, j} /\ t.iniciais = tab.iniciais /\ t.recebidas = tab.recebidas
      /\ t.caixa = tab.caixa
  BY <1>1, AdotadaBom DEF Tipos
<1>3. QED
  BY <1>1, <1>2

Quieto == /\ Tipos' /\ tab'.peoes = tab.peoes /\ Mesa(tab) \subseteq Mesa(tab')
          /\ UNCHANGED <<jogadores, iluminadas, graca, geradores, cartao>>
          /\ turno'.ativo = turno.ativo

LEMMA PassoQuieto ==
  ASSUME Tipos, NEW j \in Jogadores,
         \/ \E p : SelecionarAPeca(j, p)
         \/ \E p \in PecasEmJogo, passo \in {Horario, AntiHorario} : GirarAPeca(j, p, passo)
         \/ FinalizarManipulacao(j) \/ SelecionarOPeao(j) \/ DesselecionarOPeao(j)
         \/ \E p, c : c \in Celulas /\ PosicionarAInicial(j, p, c)
         \/ \E p, c : c \in Celulas /\ EncaixarInicialDoBot(j, p, c)
         \/ \E p, c : PosicionarARecebida(j, p, c)
         \/ \E p, c : EncaixarRecebidaDoBot(j, p, c)
         \/ \E r, b : EscolherAVaga(j, r, b)
         \/ \E c : c \in Celulas /\ AtravessarOEscuro(j, c)
  PROVE  Quieto
<1>1. ASSUME NEW p, SelecionarAPeca(j, p) PROVE Quieto
  BY <1>1, SelecionarAPecaTipos DEF Quieto, Mesa
<1>2. ASSUME NEW p \in PecasEmJogo, NEW passo \in {Horario, AntiHorario}, GirarAPeca(j, p, passo)
      PROVE  Quieto
  <2> DEFINE t == IF p \in Pendentes(tab) THEN Adotada(tab, j) ELSE tab
  <2>0. passo \in Int
    BY DEF Horario, AntiHorario
  <2>1. /\ Tipos' /\ tab' = GirarPeca(t, p, passo) /\ tab'.peoes = tab.peoes
        /\ Bom(t) /\ t.posicionadas = tab.posicionadas /\ t.recebidas = tab.recebidas
        /\ t.iniciais = tab.iniciais
        /\ UNCHANGED <<jogadores, turno, iluminadas, graca, geradores, cartao>>
    BY <1>2, <2>0, GirarAPecaTipos
  <2> HIDE DEF t
  <2>2. p \in DOMAIN t.iniciais \cup Mesa(t) \cup Pendentes(t)
    BY <2>1 DEF PecasEmJogo, Mesa, Pendentes
  <2>3. Mesa(tab') = Mesa(t)
    BY <2>0, <2>1, <2>2, GirarBom
  <2>4. QED
    BY <2>1, <2>3 DEF Quieto, Mesa
<1>3. ASSUME FinalizarManipulacao(j) \/ SelecionarOPeao(j) \/ DesselecionarOPeao(j) PROVE Quieto
  BY <1>3, SelecionarTipos DEF Quieto, Mesa
<1>4. ASSUME NEW p, NEW c \in Celulas, PosicionarAInicial(j, p, c) PROVE Quieto
  <2>1. PodePosicionarInicial(tab, p, c) /\ DelegarAoTabuleiro(PosicionarInicial(tab, p, c)) /\ Bom(tab)
    BY <1>4 DEF PosicionarAInicial, PodePosicionarAInicial, Tipos
  <2>2. QED
    BY <2>1, EncaixarInicialTipos DEF Quieto
<1>5. ASSUME NEW p, NEW c \in Celulas, EncaixarInicialDoBot(j, p, c) PROVE Quieto
  BY <1>5, EncaixarInicialDoBotTipos DEF Quieto
<1>6. ASSUME NEW p, NEW c, NEW t, Bom(t), t.peoes = tab.peoes, t.posicionadas = tab.posicionadas,
             PodePosicionarRecebida(t, p, c), tab' = PosicionarRecebida(t, p, c),
             turno' = IF turno.atravessou THEN [turno EXCEPT !.travessia = p] ELSE turno,
             UNCHANGED <<jogadores, iluminadas, graca, geradores, cartao>>, AvaliarTermino
      PROVE  Quieto
  <2>1. turno'.ativo = turno.ativo
    BY <1>6 DEF Tipos, Turno
  <2>2. QED
    BY <1>6, <2>1, EncaixarRecebidaTipos DEF Quieto
<1>7. ASSUME NEW p, NEW c, PosicionarARecebida(j, p, c) PROVE Quieto
  BY <1>6, <1>7, PosicionarARecebidaTipos
<1>8. ASSUME NEW p, NEW c, EncaixarRecebidaDoBot(j, p, c) PROVE Quieto
  BY <1>6, <1>8, EncaixarRecebidaDoBotTipos
<1>9. ASSUME NEW r, NEW b, EscolherAVaga(j, r, b) PROVE Quieto
  BY <1>9, EscolherAVagaTipos DEF Quieto, Mesa
<1>10. ASSUME NEW c \in Celulas, AtravessarOEscuro(j, c) PROVE Quieto
  <2>1. turno'.ativo = turno.ativo
    BY <1>10 DEF AtravessarOEscuro, Tipos, Turno
  <2>2. QED
    BY <1>10, <2>1, AtravessarTipos DEF Quieto, Mesa
<1>11. QED
  BY <1>1, <1>2, <1>3, <1>4, <1>5, <1>7, <1>8, <1>9, <1>10

LEMMA TiposSegue ==
  ASSUME Tipos, Passo
  PROVE  Tipos'
<1>1. PICK j \in Jogadores :
        \/ \E p : SelecionarAPeca(j, p)
        \/ \E p \in PecasEmJogo, passo \in {Horario, AntiHorario} : GirarAPeca(j, p, passo)
        \/ FinalizarManipulacao(j) \/ SelecionarOPeao(j) \/ DesselecionarOPeao(j)
        \/ \E p, c : c \in Celulas /\ PosicionarAInicial(j, p, c)
        \/ \E p, c : c \in Celulas /\ EncaixarInicialDoBot(j, p, c)
        \/ \E p, c : PosicionarARecebida(j, p, c)
        \/ \E p, c : EncaixarRecebidaDoBot(j, p, c)
        \/ \E r, b : EscolherAVaga(j, r, b)
        \/ \E p : p \in Mesa(tab) /\ PosicionarOPeao(j, p)
        \/ \E p : MoverOPeao(j, p)
        \/ \E c : c \in Celulas /\ AtravessarOEscuro(j, c)
        \/ Permanecer(j) \/ ConfirmarPosicao(j) \/ EncerrarTurno(j) \/ Desistir(j)
  BY PassoDosRamos
<1>2. CASE \/ \E p : p \in Mesa(tab) /\ PosicionarOPeao(j, p)
           \/ \E p : MoverOPeao(j, p)
           \/ Permanecer(j) \/ ConfirmarPosicao(j) \/ EncerrarTurno(j) \/ Desistir(j)
  BY <1>2, PosicionarOPeaoTipos, MoverOPeaoTipos, PermanecerTipos, ConfirmarTipos,
     EncerrarTurnoTipos, DesistirTipos
<1>3. QED
  BY <1>1, <1>2, PassoQuieto DEF Quieto

LEMMA TiposVaza ==
  ASSUME Tipos, UNCHANGED varsDaPartida
  PROVE  Tipos'
  BY DEF Tipos, varsDaPartida

LEMMA TiposNoInicio ==
  ASSUME Init
  PROVE  Tipos
<1>1. PICK c \in Caixas : tab = TabuleiroInicial(Jogadores, c)
  BY DEF Init
<1> DEFINE i == [p \in {"inicial"} \X Jogadores |-> 0]
           e == [j \in Jogadores |-> Nada]
<1>2. /\ tab.caixa = c /\ tab.iniciais = i /\ tab.posicionadas = <<>> /\ tab.selecionada = Nada
      /\ tab.manipulacao = Nada /\ tab.peoes = e /\ tab.peao = Nada /\ tab.recebidas = <<>>
  BY <1>1 DEF TabuleiroInicial
<1>3. i \in Parcial(PecasIniciais, Orientacoes)
  <2>1. {"inicial"} \X Jogadores \subseteq PecasIniciais
    BY PartidaAssumption DEF Jogadores, PecasIniciais
  <2>2. i \in [{"inicial"} \X Jogadores -> Orientacoes]
    BY DEF Orientacoes
  <2>3. QED
    BY <2>1, <2>2 DEF Parcial
<1>4. e \in Parcial(Jogadores, Pecas \cup {Nada})
  <2>1. e \in [Jogadores -> Pecas \cup {Nada}]
    OBVIOUS
  <2>2. QED
    BY <2>1 DEF Parcial
<1>5. c \in Seq(PecasDaCaixa) /\ SemRepeticao(c)
  BY PartidaAssumption DEF SemRepeticao
<1>6. DOMAIN e = Jogadores /\ \A j \in Jogadores : e[j] = Nada
  OBVIOUS
<1> HIDE DEF i, e
<1>7. tab \in Tabuleiros
  <2>1. tab = [caixa |-> c, iniciais |-> i, posicionadas |-> <<>>, selecionada |-> Nada,
               manipulacao |-> Nada, peoes |-> e, peao |-> Nada, recebidas |-> <<>>]
    BY <1>1 DEF TabuleiroInicial, i, e
  <2>2. /\ <<>> \in Parcial(Pecas, Posicionada) /\ <<>> \in Parcial(PecasDaCaixa, Recebida)
    BY ParcialVazia
  <2>3. QED
    BY <1>3, <1>4, <1>5, <2>1, <2>2 DEF Tabuleiros
<1>8. Mesa(tab) = {} /\ Pendentes(tab) = {}
  BY <1>2, ParcialVazia DEF Mesa, Pendentes
<1>9. PeoesSobrePecas(tab) /\ PecasSeparadas(tab) /\ AlvosDasVagas(tab)
  BY <1>2, <1>5, <1>6, <1>8 DEF PeoesSobrePecas, PecasSeparadas, AlvosDasVagas
<1>10. /\ jogadores \in Elencos /\ DOMAIN jogadores = Jogadores
       /\ \A j \in Jogadores : Sadio(jogadores[j])
  <2> DEFINE s == [primeiroTurno |-> TRUE, sanidade |-> SanidadeMaxima, protegido |-> FALSE,
                   baixa |-> FALSE, amedrontado |-> FALSE]
  <2>1. s \in Jogador /\ Sadio(s)
    BY PartidaAssumption DEF Jogador, Sadio
  <2>2. jogadores = [j \in Jogadores |-> s]
    BY DEF Init
  <2> HIDE DEF s
  <2>3. jogadores \in [Jogadores -> Jogador]
    BY <2>1, <2>2
  <2>4. jogadores \in Elencos
    BY <2>3 DEF Elencos, Parcial
  <2>5. QED
    BY <2>1, <2>2, <2>4
<1>11. Cardinality(Jogadores) > 1
  <2>1. NumeroDeJogadores \in Int /\ NumeroDeJogadores >= 2 /\ 1 \in Int
    BY PartidaAssumption
  <2>2. Cardinality(Jogadores) = NumeroDeJogadores
    BY <2>1, FS_Interval DEF Jogadores
  <2>3. QED
    BY <2>1, <2>2
<1>12. turno \in Turno /\ turno.ativo \in Jogadores
  BY PartidaAssumption DEF Init, Turno, Jogadores
<1>13. QED
  BY <1>2, <1>6, <1>7, <1>9, <1>10, <1>11, <1>12 DEF Init, Tipos, Bom

LEMMA TiposImplicam ==
  ASSUME Tipos
  PROVE  TypeOK /\ PeaoSobrePeca /\ CadaPecaNumLugar /\ AmedrontadoSemSanidade
<1>1. Bom(tab) /\ tab \in Tabuleiros /\ jogadores \in Elencos
  BY DEF Tipos, Bom
<1>2. TypeOK
  <2>1. \A p \in DOMAIN tab.iniciais : tab.iniciais[p] \in Orientacoes
    BY <1>1, ParcialDe DEF Tabuleiros
  <2>2. /\ tab.caixa \in Seq(PecasDaCaixa)
        /\ tab.selecionada \in Pecas \cup {Nada} /\ tab.manipulacao \in Pecas \cup {Nada}
        /\ tab.peao \in Jogadores \cup {Nada}
    BY <1>1 DEF Tabuleiros
  <2>3. QED
    BY <1>1, <2>1, <2>2, MesaDe, ElencoDe DEF Tipos, TypeOK
<1>3. PeaoSobrePeca
  BY <1>1 DEF Tipos, Bom, PeoesSobrePecas, PeaoSobrePeca
<1>4. CadaPecaNumLugar
  BY <1>1 DEF Bom, PecasSeparadas, SemRepeticao, CadaPecaNumLugar
<1>5. AmedrontadoSemSanidade
  BY DEF Tipos, Sadio, AmedrontadoSemSanidade
<1>6. QED
  BY <1>2, <1>3, <1>4, <1>5

-----------------------------------------------------------------------------
(* Who shares a piece.                                                     *)

LEMMA OcupantesFinitos ==
  ASSUME Tipos, NEW p
  PROVE  /\ IsFiniteSet(Ocupantes(tab, p)) /\ Cardinality(Ocupantes(tab, p)) \in Nat
         /\ Ocupantes(tab, p) \subseteq DOMAIN jogadores
<1>1. IsFiniteSet(DOMAIN jogadores)
  BY ElencoDe DEF Tipos
<1>2. Ocupantes(tab, p) \subseteq DOMAIN jogadores
  BY DEF Ocupantes, Tipos
<1>3. QED
  BY <1>1, <1>2, FS_Subset, FS_CardinalityType

LEMMA Par == \A j, k : j # k => Cardinality({j, k}) = 2
<1> SUFFICES ASSUME NEW j, NEW k, j # k PROVE Cardinality({j, k}) = 2
  OBVIOUS
<1>1. IsFiniteSet({j}) /\ Cardinality({j}) = 1 /\ k \notin {j}
  BY FS_Singleton
<1>2. Cardinality({j} \cup {k}) = Cardinality({j}) + 1
  BY <1>1, FS_AddElement
<1>3. {j} \cup {k} = {j, k}
  OBVIOUS
<1>4. QED
  BY <1>1, <1>2, <1>3

LEMMA VizinhaOutra == \A c \in Celulas, b \in Bordas : Vizinha(c, b) # c
<1> SUFFICES ASSUME NEW x \in 0 .. Lado - 1, NEW y \in 0 .. Lado - 1, NEW b \in Bordas
             PROVE  Vizinha(<<x, y>>, b) # <<x, y>>
  BY DEF Celulas
<1>1. Lado \in Nat /\ Lado >= 3
  BY LadoAssumption
<1>2. (x + 1) % Lado # x /\ (x - 1) % Lado # x /\ (y + 1) % Lado # y /\ (y - 1) % Lado # y
  BY <1>1
<1>3. QED
  BY <1>2 DEF Vizinha, Normalizar, Deslocamento, Bordas

(* Nobody moves: an affected Player stays so or is in the graça.           *)
LEMMA OcupacaoParada ==
  ASSUME Tipos, Tipos', OcupacaoTolerada,
         \A k \in DOMAIN jogadores' : k \in DOMAIN jogadores /\ tab'.peoes[k] = tab.peoes[k],
         \A k \in DOMAIN jogadores' :
           Afetado(jogadores[k]) => Afetado(jogadores'[k]) \/ tab.peoes[k] \in graca',
         graca \cap Mesa(tab') \subseteq graca'
  PROVE  OcupacaoTolerada'
<1> SUFFICES ASSUME NEW p \in Mesa(tab'), Cardinality(Ocupantes(tab', p)) > 1, ~EhPortao(p)
             PROVE  /\ Cardinality(Ocupantes(tab', p)) = 2
                    /\ p \in graca' \/ \E j \in Ocupantes(tab', p) : Afetado(jogadores'[j])
  BY DEF OcupacaoTolerada
<1> DEFINE A == Ocupantes(tab, p)
           B == Ocupantes(tab', p)
<1>1. B \subseteq A
  BY DEF Ocupantes, Tipos
<1>2. IsFiniteSet(A) /\ Cardinality(A) \in Nat /\ A \subseteq DOMAIN jogadores
  BY OcupantesFinitos
<1>3. Cardinality(B) \in Nat /\ Cardinality(B) <= Cardinality(A)
      /\ (Cardinality(B) = Cardinality(A) => A = B)
  BY <1>1, <1>2, FS_Subset, FS_CardinalityType
<1>4. \A k \in B : k \in DOMAIN jogadores' /\ tab.peoes[k] = p
  BY <1>1 DEF Ocupantes, Tipos
<1>5. p \in Mesa(tab)
  <2>1. Cardinality({}) = 0
    BY FS_EmptySet
  <2>2. PICK k \in A : TRUE
    BY <1>2, <1>3, <2>1
  <2>3. tab.peoes[k] = p /\ k \in DOMAIN tab.peoes
    BY DEF Ocupantes
  <2>4. p # Nada
    BY MesaDe, TiposDistintos DEF Tipos, Bom
  <2>5. QED
    BY <2>3, <2>4 DEF Tipos, Bom, PeoesSobrePecas
<1>6. Cardinality(A) = 2 /\ (p \in graca \/ \E j \in A : Afetado(jogadores[j]))
  BY <1>2, <1>3, <1>5 DEF OcupacaoTolerada
<1>7. Cardinality(B) = 2 /\ A = B
  BY <1>3, <1>6
<1>8. QED
  BY <1>4, <1>6, <1>7

LEMMA GracaParada ==
  ASSUME Tipos, Tipos', GracaOcupada, tab'.peoes = tab.peoes, DOMAIN jogadores' = DOMAIN jogadores,
         \A p \in graca' \ graca :
           \E j, k : j \in DOMAIN jogadores /\ k \in DOMAIN jogadores
                     /\ j # k /\ tab.peoes[j] = p /\ tab.peoes[k] = p
  PROVE  GracaOcupada'
<1> SUFFICES ASSUME ElencoCompleto, NEW p \in graca'
             PROVE  Cardinality(Ocupantes(tab', p)) > 1
  BY DEF GracaOcupada, ElencoCompleto
<1>1. Ocupantes(tab', p) = Ocupantes(tab, p)
  BY DEF Ocupantes
<1>2. CASE p \in graca
  BY <1>1, <1>2 DEF GracaOcupada
<1>3. CASE p \notin graca
  <2>1. PICK j, k : /\ j \in Ocupantes(tab, p) /\ k \in Ocupantes(tab, p) /\ j # k
    BY <1>3 DEF Ocupantes, Tipos
  <2>2. Cardinality({j, k}) = 2
    BY <2>1, Par
  <2>3. IsFiniteSet(Ocupantes(tab, p)) /\ Cardinality(Ocupantes(tab, p)) \in Nat
    BY OcupantesFinitos
  <2>4. {j, k} \subseteq Ocupantes(tab, p)
    BY <2>1
  <2>5. Cardinality({j, k}) <= Cardinality(Ocupantes(tab, p))
    BY <2>3, <2>4, FS_Subset
  <2>6. QED
    BY <1>1, <2>2, <2>3, <2>5
<1>4. QED
  BY <1>2, <1>3

LEMMA MoverOcupacao ==
  ASSUME Tipos, NEW j, NEW p, MoverOPeao(j, p)
  PROVE  /\ OcupacaoTolerada => OcupacaoTolerada'
         /\ GracaOcupada => GracaOcupada'
<1> DEFINE o == tab.peoes[j]
<1>1. /\ Tipos' /\ j \in DOMAIN tab.peoes
      /\ tab'.peoes = [tab.peoes EXCEPT ![j] = p]
      /\ tab'.posicionadas = tab.posicionadas
      /\ o \in Mesa(tab) /\ p \in VizinhasConectadas(tab, o)
      /\ graca' = (graca \ {o}) \cap Mesa(tab)
      /\ Cardinality(Ocupantes(tab, p)) < TetoOcupacao(tab, jogadores, p)
      /\ jogadores' = jogadores
  BY MoverOPeaoTipos
<1>2. Mesa(tab') = Mesa(tab) /\ p \in Mesa(tab)
  BY <1>1 DEF Mesa, VizinhasConectadas
<1>3. p # o
  <2>1. PICK b \in Bordas : CelulaDe(tab, p) = Vizinha(CelulaDe(tab, o), b)
    BY <1>1 DEF VizinhasConectadas, LigadaPela
  <2>2. CelulaDe(tab, o) \in Celulas
    BY <1>1, MesaDe DEF Tipos, Bom
  <2>3. QED
    BY <2>1, <2>2, VizinhaOutra
<1> DEFINE P == Ocupantes(tab, p)
           O == Ocupantes(tab, o)
<1>4. /\ Ocupantes(tab', p) = P \cup {j} /\ j \notin P
      /\ Ocupantes(tab', o) = O \ {j} /\ j \in O
      /\ \A q : q # p /\ q # o => Ocupantes(tab', q) = Ocupantes(tab, q)
  BY <1>1, <1>3 DEF Ocupantes
<1>5. /\ IsFiniteSet(P) /\ Cardinality(P) \in Nat /\ IsFiniteSet(O) /\ Cardinality(O) \in Nat
  BY OcupantesFinitos
<1>6. Cardinality(P \cup {j}) = Cardinality(P) + 1 /\ Cardinality(O \ {j}) = Cardinality(O) - 1
  BY <1>4, <1>5, FS_AddElement, FS_RemoveElement
<1>7. ASSUME ~EhPortao(p), Cardinality(P) > 0
      PROVE  Cardinality(P) = 1 /\ \E k \in P : Afetado(jogadores[k])
  <2> DEFINE n == Cardinality(P)
             b == \E k \in P : Afetado(jogadores[k])
  <2>1. n < TetoOcupacao(tab, jogadores, p) /\ TetoOcupacao(tab, jogadores, p) = IF b THEN 1 + 1 ELSE 1
    BY <1>1, <1>7 DEF TetoOcupacao
  <2> HIDE DEF b
  <2>2. n \in Nat /\ n > 0
    BY <1>5, <1>7
  <2> HIDE DEF n
  <2>3. n = 1 /\ b
    BY <2>1, <2>2
  <2>4. QED
    BY <2>3 DEF n, b
<1>8. P = {} => Cardinality(P) = 0
  BY FS_EmptySet
<1>9. ASSUME OcupacaoTolerada PROVE OcupacaoTolerada'
  <2> SUFFICES ASSUME NEW q \in Mesa(tab), Cardinality(Ocupantes(tab', q)) > 1, ~EhPortao(q)
               PROVE  /\ Cardinality(Ocupantes(tab', q)) = 2
                      /\ q \in graca' \/ \E k \in Ocupantes(tab', q) : Afetado(jogadores[k])
    BY <1>1, <1>2 DEF OcupacaoTolerada
  <2>1. CASE q = p
    <3>1. Cardinality(P) + 1 > 1
      BY <1>4, <1>6, <2>1
    <3>2. Cardinality(P) > 0
      BY <1>5, <3>1
    <3>3. Cardinality(P) = 1 /\ \E k \in P : Afetado(jogadores[k])
      BY <1>7, <2>1, <3>2
    <3>4. QED
      BY <1>4, <1>6, <2>1, <3>3
  <2>2. CASE q = o
    <3>1. Cardinality(O) - 1 > 1
      BY <1>4, <1>6, <2>2
    <3>2. Cardinality(O) > 1 /\ Cardinality(O) # 2
      BY <1>5, <3>1
    <3>3. QED
      BY <1>1, <1>9, <2>2, <3>2 DEF OcupacaoTolerada
  <2>3. CASE q # p /\ q # o
    BY <1>1, <1>4, <1>9, <2>3 DEF OcupacaoTolerada
  <2>4. QED
    BY <2>1, <2>2, <2>3
<1>10. ASSUME GracaOcupada PROVE GracaOcupada'
  <2> SUFFICES ASSUME ElencoCompleto, NEW q \in graca, q # o
               PROVE  Cardinality(Ocupantes(tab', q)) > 1
    BY <1>1 DEF GracaOcupada, ElencoCompleto
  <2>1. Cardinality(Ocupantes(tab, q)) > 1
    BY <1>10 DEF GracaOcupada
  <2>2. CASE q = p
    <3>1. Cardinality(P) > 1 /\ Ocupantes(tab', q) = P \cup {j}
      BY <1>4, <2>1, <2>2
    <3>2. Cardinality(P) + 1 > 1
      BY <1>5, <3>1
    <3>3. QED
      BY <1>6, <3>1, <3>2
  <2>3. CASE q # p
    BY <1>4, <2>1, <2>3
  <2>4. QED
    BY <2>2, <2>3
<1>11. QED
  BY <1>9, <1>10

LEMMA PosicionarOcupacao ==
  ASSUME Tipos, NEW j, NEW p \in Mesa(tab), PosicionarOPeao(j, p)
  PROVE  /\ OcupacaoTolerada => OcupacaoTolerada'
         /\ GracaOcupada => GracaOcupada'
<1>1. /\ Tipos' /\ tab.peoes[j] = Nada /\ Ocupantes(tab, p) = {} /\ graca' = graca
      /\ tab'.peoes = [tab.peoes EXCEPT ![j] = p] /\ DOMAIN jogadores' = DOMAIN jogadores
      /\ \A k \in DOMAIN jogadores :
           /\ jogadores[k].baixa => jogadores'[k].baixa
           /\ jogadores[k].amedrontado => jogadores'[k].amedrontado
      /\ Mesa(tab') \subseteq Mesa(tab)
  BY PosicionarOPeaoTipos
<1>2. Nada \notin Mesa(tab) /\ Nada \notin graca
  BY MesaDe, TiposDistintos DEF Tipos, Bom
<1>3. /\ Ocupantes(tab', p) \subseteq {j}
      /\ \A q : q # p /\ q # Nada => Ocupantes(tab', q) = Ocupantes(tab, q)
  BY <1>1 DEF Ocupantes
<1>4. ~(Cardinality(Ocupantes(tab', p)) > 1)
  <2>1. IsFiniteSet({j}) /\ Cardinality({j}) = 1
    BY FS_Singleton
  <2>2. Cardinality(Ocupantes(tab', p)) <= 1 /\ Cardinality(Ocupantes(tab', p)) \in Nat
    BY <1>3, <2>1, FS_Subset, FS_CardinalityType
  <2>3. QED
    BY <2>2
<1>5. ASSUME OcupacaoTolerada PROVE OcupacaoTolerada'
  <2> SUFFICES ASSUME NEW q \in Mesa(tab'), Cardinality(Ocupantes(tab', q)) > 1, ~EhPortao(q)
               PROVE  /\ Cardinality(Ocupantes(tab', q)) = 2
                      /\ q \in graca' \/ \E k \in Ocupantes(tab', q) : Afetado(jogadores'[k])
    BY DEF OcupacaoTolerada
  <2>1. q # p /\ q # Nada /\ q \in Mesa(tab)
    BY <1>1, <1>2, <1>4
  <2>2. Ocupantes(tab', q) = Ocupantes(tab, q)
    BY <1>3, <2>1
  <2>3. /\ Cardinality(Ocupantes(tab, q)) = 2
        /\ q \in graca \/ \E k \in Ocupantes(tab, q) : Afetado(jogadores[k])
    BY <1>5, <2>1, <2>2 DEF OcupacaoTolerada
  <2>4. Ocupantes(tab, q) \subseteq DOMAIN jogadores
    BY OcupantesFinitos
  <2>5. QED
    BY <1>1, <2>2, <2>3, <2>4 DEF Afetado
<1>6. ASSUME GracaOcupada PROVE GracaOcupada'
  <2> SUFFICES ASSUME ElencoCompleto, NEW q \in graca
               PROVE  Cardinality(Ocupantes(tab', q)) > 1
    BY <1>1 DEF GracaOcupada, ElencoCompleto
  <2>1. Cardinality(Ocupantes(tab, q)) > 1
    BY <1>6 DEF GracaOcupada
  <2>2. q # p
    <3>1. Cardinality({}) = 0
      BY FS_EmptySet
    <3>2. QED
      BY <1>1, <2>1, <3>1
  <2>3. QED
    BY <1>2, <1>3, <2>1, <2>2
<1>7. QED
  BY <1>5, <1>6

Ocupadas == Tipos /\ OcupacaoTolerada /\ GracaOcupada

LEMMA OcupadasSegue ==
  ASSUME Ocupadas, Passo
  PROVE  Ocupadas'
<1>0. Tipos /\ OcupacaoTolerada /\ GracaOcupada /\ Tipos'
  BY TiposSegue DEF Ocupadas
<1>1. PICK j \in Jogadores :
        \/ \E p : SelecionarAPeca(j, p)
        \/ \E p \in PecasEmJogo, passo \in {Horario, AntiHorario} : GirarAPeca(j, p, passo)
        \/ FinalizarManipulacao(j) \/ SelecionarOPeao(j) \/ DesselecionarOPeao(j)
        \/ \E p, c : c \in Celulas /\ PosicionarAInicial(j, p, c)
        \/ \E p, c : c \in Celulas /\ EncaixarInicialDoBot(j, p, c)
        \/ \E p, c : PosicionarARecebida(j, p, c)
        \/ \E p, c : EncaixarRecebidaDoBot(j, p, c)
        \/ \E r, b : EscolherAVaga(j, r, b)
        \/ \E p : p \in Mesa(tab) /\ PosicionarOPeao(j, p)
        \/ \E p : MoverOPeao(j, p)
        \/ \E c : c \in Celulas /\ AtravessarOEscuro(j, c)
        \/ Permanecer(j) \/ ConfirmarPosicao(j) \/ EncerrarTurno(j) \/ Desistir(j)
  BY <1>0, PassoDosRamos
<1>2. CASE Quieto
  BY <1>0, <1>2, OcupacaoParada, GracaParada DEF Quieto, Ocupadas, Tipos
<1>3. CASE \E p : p \in Mesa(tab) /\ PosicionarOPeao(j, p)
  BY <1>0, <1>3, PosicionarOcupacao DEF Ocupadas
<1>4. CASE \E p : MoverOPeao(j, p)
  BY <1>0, <1>4, MoverOcupacao DEF Ocupadas
<1>5. CASE Permanecer(j)
  <2>1. /\ tab'.peoes = tab.peoes /\ DOMAIN jogadores' = DOMAIN jogadores
        /\ \A k \in DOMAIN jogadores :
             /\ jogadores[k].baixa => jogadores'[k].baixa
             /\ jogadores[k].amedrontado => jogadores'[k].amedrontado
        /\ graca' \subseteq graca /\ graca \cap Mesa(tab') \subseteq graca'
    BY <1>0, <1>5, PermanecerTipos
  <2>2. \A k \in DOMAIN jogadores' : Afetado(jogadores[k]) => Afetado(jogadores'[k])
    BY <2>1 DEF Afetado
  <2>3. QED
    BY <1>0, <2>1, <2>2, OcupacaoParada, GracaParada DEF Ocupadas
<1>6. CASE ConfirmarPosicao(j)
  <2>1. /\ tab'.peoes = tab.peoes /\ DOMAIN jogadores' = DOMAIN jogadores
        /\ graca' \subseteq graca \cup {tab.peoes[j]}
        /\ graca \cap Mesa(tab') \subseteq graca'
        /\ \A k \in DOMAIN jogadores :
             Afetado(jogadores[k]) => Afetado(jogadores'[k]) \/ tab.peoes[k] \in graca'
        /\ tab.peoes[j] \in graca' \ graca =>
             \E k \in DOMAIN jogadores \ {j} : tab.peoes[k] = tab.peoes[j]
        /\ j = turno.ativo
    BY <1>0, <1>6, ConfirmarTipos
  <2>2. j \in DOMAIN jogadores
    BY <1>0, <2>1 DEF Tipos
  <2>3. OcupacaoTolerada'
    BY <1>0, <2>1, OcupacaoParada
  <2>4. GracaOcupada'
    BY <1>0, <2>1, <2>2, GracaParada
  <2>5. QED
    BY <1>0, <2>3, <2>4 DEF Ocupadas
<1>7. CASE EncerrarTurno(j)
  <2>1. /\ tab'.peoes = tab.peoes /\ DOMAIN jogadores' = DOMAIN jogadores
        /\ \A k \in DOMAIN jogadores :
             /\ jogadores'[k].baixa = jogadores[k].baixa
             /\ jogadores'[k].amedrontado = jogadores[k].amedrontado
        /\ graca' = graca
    BY <1>0, <1>7, EncerrarTurnoTipos
  <2>2. \A k \in DOMAIN jogadores' : Afetado(jogadores[k]) => Afetado(jogadores'[k])
    BY <2>1 DEF Afetado
  <2>3. QED
    BY <1>0, <2>1, <2>2, OcupacaoParada, GracaParada DEF Ocupadas
<1>8. CASE Desistir(j)
  <2>1. /\ j \in DOMAIN jogadores /\ DOMAIN jogadores' = DOMAIN jogadores \ {j}
        /\ \A k \in DOMAIN jogadores' :
             tab'.peoes[k] = tab.peoes[k] /\ jogadores'[k] = jogadores[k]
        /\ graca' = graca \cap Mesa(tab')
    BY <1>0, <1>8, DesistirTipos
  <2>2. OcupacaoTolerada'
    BY <1>0, <2>1, OcupacaoParada
  <2>3. ~ElencoCompleto'
    BY <2>1 DEF ElencoCompleto
  <2>4. QED
    BY <1>0, <2>2, <2>3 DEF Ocupadas, GracaOcupada, ElencoCompleto
<1>9. QED
  BY <1>0, <1>1, <1>2, <1>3, <1>4, <1>5, <1>6, <1>7, <1>8, PassoQuieto

-----------------------------------------------------------------------------
(* Whose turn comes next.                                                  *)

PassaAVez ==
  turno'.ativo # turno.ativo /\ resultado' = Nada =>
    /\ ~jogadores'[turno'.ativo].amedrontado
    /\ \A m \in Entre(turno.ativo, turno'.ativo) \cap DOMAIN jogadores' :
         jogadores'[m].amedrontado
    /\ tab' = SemSequencia(tab')

LEMMA PassagemPara ==
  ASSUME Tipos, Tipos', AvaliarTermino, turno'.ativo = Proximo(jogadores', turno.ativo),
         tab' = SemSequencia(tab')
  PROVE  PassaAVez
<1> SUFFICES ASSUME resultado' = Nada
             PROVE  /\ ~jogadores'[turno'.ativo].amedrontado
                    /\ \A m \in Entre(turno.ativo, turno'.ativo) \cap DOMAIN jogadores' :
                         jogadores'[m].amedrontado
  BY DEF PassaAVez
<1>1. jogadores' \in Elencos /\ turno.ativo \in Jogadores /\ turno'.ativo \in Jogadores
  BY DEF Tipos, Turno
<1>2. PICK v \in DOMAIN jogadores' : jogadores'[v].sanidade # 0
  BY <1>1, Avaliado
<1>3. v \in Acordados(jogadores')
  BY <1>2 DEF Tipos, Sadio, Acordados
<1>4. /\ turno'.ativo \in Acordados(jogadores')
      /\ \A outro \in Acordados(jogadores') :
           Distancia(turno.ativo, turno'.ativo) <= Distancia(turno.ativo, outro)
  BY <1>1, <1>2, <1>3, ProximoVivo
<1>5. ASSUME NEW m \in Entre(turno.ativo, turno'.ativo) \cap DOMAIN jogadores',
             ~jogadores'[m].amedrontado
      PROVE  FALSE
  <2>1. m \in Jogadores /\ Distancia(turno.ativo, m) < Distancia(turno.ativo, turno'.ativo)
    BY <1>5 DEF Entre
  <2>2. m \in Acordados(jogadores')
    BY <1>5 DEF Acordados
  <2>3. Distancia(turno.ativo, turno'.ativo) <= Distancia(turno.ativo, m)
    BY <1>4, <2>2
  <2>4. Distancia(turno.ativo, m) \in Int /\ Distancia(turno.ativo, turno'.ativo) \in Int
    BY <1>1, <2>1, PartidaAssumption DEF Distancia, Jogadores
  <2>5. QED
    BY <2>1, <2>3, <2>4
<1>6. QED
  BY <1>4, <1>5 DEF Acordados

LEMMA PassagemSegue ==
  ASSUME Tipos, Passo
  PROVE  PassaAVez
<1>0. Tipos'
  BY TiposSegue
<1>1. PICK j \in Jogadores :
        \/ \E p : SelecionarAPeca(j, p)
        \/ \E p \in PecasEmJogo, passo \in {Horario, AntiHorario} : GirarAPeca(j, p, passo)
        \/ FinalizarManipulacao(j) \/ SelecionarOPeao(j) \/ DesselecionarOPeao(j)
        \/ \E p, c : c \in Celulas /\ PosicionarAInicial(j, p, c)
        \/ \E p, c : c \in Celulas /\ EncaixarInicialDoBot(j, p, c)
        \/ \E p, c : PosicionarARecebida(j, p, c)
        \/ \E p, c : EncaixarRecebidaDoBot(j, p, c)
        \/ \E r, b : EscolherAVaga(j, r, b)
        \/ \E p : p \in Mesa(tab) /\ PosicionarOPeao(j, p)
        \/ \E p : MoverOPeao(j, p)
        \/ \E c : c \in Celulas /\ AtravessarOEscuro(j, c)
        \/ Permanecer(j) \/ ConfirmarPosicao(j) \/ EncerrarTurno(j) \/ Desistir(j)
  BY PassoDosRamos
<1>2. CASE Quieto
  BY <1>2 DEF Quieto, PassaAVez
<1>3. CASE \E p : p \in Mesa(tab) /\ PosicionarOPeao(j, p)
  BY <1>3, PosicionarOPeaoTipos DEF PassaAVez
<1>4. CASE \E p : MoverOPeao(j, p)
  BY <1>4, MoverOPeaoTipos DEF PassaAVez
<1>5. CASE Permanecer(j)
  <2>1. AvaliarTermino
    BY <1>5 DEF Permanecer
  <2>2. QED
    BY <1>0, <1>5, <2>1, PermanecerTipos, PassagemPara
<1>6. CASE ConfirmarPosicao(j)
  <2>1. turno'.ativo = turno.ativo
    BY <1>6, ConfirmarTipos DEF Tipos, Turno
  <2>2. QED
    BY <2>1 DEF PassaAVez
<1>7. CASE EncerrarTurno(j)
  <2>1. AvaliarTermino
    BY <1>7 DEF EncerrarTurno
  <2>2. QED
    BY <1>0, <1>7, <2>1, EncerrarTurnoTipos, PassagemPara
<1>8. CASE Desistir(j)
  <2>1. AvaliarTermino
    BY <1>8 DEF Desistir
  <2>2. CASE j = turno.ativo
    BY <1>0, <1>8, <2>1, <2>2, DesistirTipos, PassagemPara
  <2>3. CASE j # turno.ativo
    BY <1>8, <2>3, DesistirTipos DEF PassaAVez
  <2>4. QED
    BY <2>2, <2>3
<1>9. QED
  BY <1>1, <1>2, <1>3, <1>4, <1>5, <1>6, <1>7, <1>8, PassoQuieto

-----------------------------------------------------------------------------
(* The two specifications: Players only, and Players with bots.            *)

LEMMA NextPasso ==
  ASSUME Tipos, Next
  PROVE  Passo
  BY DEF Next, Passo

LEMMA NextComBotsPasso ==
  ASSUME Tipos, NextComBots
  PROVE  Passo
<1>1. CASE \E j \in Jogadores \ Bots : Jogada(j)
  BY <1>1 DEF Passo
<1>2. CASE \E j \in Bots : JogadaDoBot(j)
  BY <1>2, JogadaDoBotPasso
<1>3. CASE \E j \in Desistentes : Desistir(j)
  BY <1>3, PartidaAssumption DEF Passo, Jogadores
<1>4. QED
  BY <1>1, <1>2, <1>3 DEF NextComBots

LEMMA OcupadasVaza ==
  ASSUME Ocupadas, UNCHANGED varsDaPartida
  PROVE  Ocupadas'
<1>1. Tipos'
  BY TiposVaza DEF Ocupadas
<1>2. QED
  BY <1>1 DEF Ocupadas, varsDaPartida, OcupacaoTolerada, GracaOcupada, ElencoCompleto

LEMMA OcupadasNoInicio ==
  ASSUME Init
  PROVE  Ocupadas
<1>1. Tipos
  BY TiposNoInicio
<1>2. Mesa(tab) = {} /\ graca = {}
  BY ParcialVazia DEF Init, TabuleiroInicial, Mesa
<1>3. QED
  BY <1>1, <1>2 DEF Ocupadas, OcupacaoTolerada, GracaOcupada

(***************************************************************************)
(* The invariant behind the theorems below, for Players only: the shape of *)
(* the state, pieces that only the affected share (peoes.ts, partida.ts)   *)
(* and a graça with its pawn on the board.                                 *)
(***************************************************************************)
THEOREM PecasEPeoes == Spec => []Ocupadas
<1>1. Init => Ocupadas
  BY OcupadasNoInicio
<1>2. Ocupadas /\ [Next]_varsDaPartida => Ocupadas'
  BY NextPasso, OcupadasSegue, OcupadasVaza DEF Ocupadas
<1>3. QED
  BY <1>1, <1>2, PTL DEF Spec

(***************************************************************************)
(* The same invariant when some of the Players are bots.                   *)
(***************************************************************************)
THEOREM PecasEPeoesComBots == SpecComBots => []Ocupadas
<1>1. InitComBots => Ocupadas
  BY OcupadasNoInicio DEF InitComBots
<1>2. Ocupadas /\ [NextComBots]_vars => Ocupadas'
  BY NextComBotsPasso, OcupadasSegue, OcupadasVaza DEF Ocupadas, vars, varsDaPartida
<1>3. QED
  BY <1>1, <1>2, PTL DEF SpecComBots

(***************************************************************************)
(* The state of a match always has its type.                               *)
(***************************************************************************)
THEOREM Tipagem == (Spec => []TypeOK) /\ (SpecComBots => []TypeOK)
<1>1. Ocupadas => TypeOK
  BY TiposImplicam DEF Ocupadas
<1>2. QED
  BY <1>1, PecasEPeoes, PecasEPeoesComBots, PTL

(***************************************************************************)
(* A pawn stands on a piece of the board that is not a monster's, whatever *)
(* attacks, cleanings, rescues and desistências took pieces away.          *)
(***************************************************************************)
THEOREM PeoesNoTabuleiro == (Spec => []PeaoSobrePeca) /\ (SpecComBots => []PeaoSobrePeca)
<1>1. Ocupadas => PeaoSobrePeca
  BY TiposImplicam DEF Ocupadas
<1>2. QED
  BY <1>1, PecasEPeoes, PecasEPeoesComBots, PTL

(***************************************************************************)
(* A piece is in one place, once (Caixa, table, board or hand), and a cell *)
(* of the board holds one piece, through drawings, encaixes, attacks,      *)
(* cleanings and desistências.                                             *)
(***************************************************************************)
THEOREM CadaPecaUmaVez == (Spec => []CadaPecaNumLugar) /\ (SpecComBots => []CadaPecaNumLugar)
<1>1. Ocupadas => CadaPecaNumLugar
  BY TiposImplicam DEF Ocupadas
<1>2. QED
  BY <1>1, PecasEPeoes, PecasEPeoesComBots, PTL

(***************************************************************************)
(* A Player is amedrontado exactly when its sanity is zero, through        *)
(* attacks, rescues and dark crossings.                                    *)
(***************************************************************************)
THEOREM Amedrontados == (Spec => []AmedrontadoSemSanidade) /\ (SpecComBots => []AmedrontadoSemSanidade)
<1>1. Ocupadas => AmedrontadoSemSanidade
  BY TiposImplicam DEF Ocupadas
<1>2. QED
  BY <1>1, PecasEPeoes, PecasEPeoesComBots, PTL

(***************************************************************************)
(* Pawns share a piece other than the Portão only around a rescue: never   *)
(* three, and one of the two is em baixa or amedrontado, or the piece is   *)
(* in its graça (pecaAdmiteEntrada, peoes.ts).                             *)
(***************************************************************************)
THEOREM PecasPartilhadas == (Spec => []OcupacaoTolerada) /\ (SpecComBots => []OcupacaoTolerada)
<1>1. Ocupadas => OcupacaoTolerada
  BY DEF Ocupadas
<1>2. QED
  BY <1>1, PecasEPeoes, PecasEPeoesComBots, PTL

(***************************************************************************)
(* While nobody gave up, a piece in the graça of a rescue is shared: the   *)
(* graça ends with the first movement that parts the rescued and the       *)
(* rescuer.                                                                *)
(***************************************************************************)
THEOREM GracaPartilhada == (Spec => []GracaOcupada) /\ (SpecComBots => []GracaOcupada)
<1>1. Ocupadas => GracaOcupada
  BY DEF Ocupadas
<1>2. QED
  BY <1>1, PecasEPeoes, PecasEPeoesComBots, PTL

(***************************************************************************)
(* The turn passes to the next Player, in the order of entry, who is not   *)
(* amedrontado, and whoever loses the turn leaves nothing selected,        *)
(* turning or pending.                                                     *)
(***************************************************************************)
THEOREM VezDoAcordado == (Spec => PassagemDeVez) /\ (SpecComBots => PassagemDeVez)
<1>1. Ocupadas /\ [Next]_varsDaPartida => [PassaAVez]_varsDaPartida
  BY NextPasso, PassagemSegue DEF Ocupadas
<1>2. Ocupadas /\ [NextComBots]_vars => [PassaAVez]_varsDaPartida
  BY NextComBotsPasso, PassagemSegue DEF Ocupadas, vars, varsDaPartida
<1>3. QED
  BY <1>1, <1>2, PecasEPeoes, PecasEPeoesComBots, PTL DEF Spec, SpecComBots, PassagemDeVez, PassaAVez

-----------------------------------------------------------------------------
(* The turns: what they remember and what the board keeps between them.    *)

Ativo     == turno.ativo
Comecando == jogadores[Ativo].primeiroTurno
NoPeao    == tab.peoes[Ativo]
Definida  == Comecando \/ turno.confirmada

-----------------------------------------------------------------------------
(* What each kind of step does to the board and to the turn.               *)

(* Only turn, roster, light and graça stay.                                *)
Delegado == UNCHANGED <<jogadores, turno, iluminadas, graca>>

MesmasForas ==
  /\ tab'.caixa = tab.caixa /\ DOMAIN tab'.iniciais = DOMAIN tab.iniciais
  /\ Pendentes(tab') = Pendentes(tab)

(* The edges of a piece that a received piece could take.                  *)
Livres(t, p) == {b \in Aberturas(t, p) : Vazia(t, Vizinha(CelulaDe(t, p), b))}

(* Another piece is selected only to be the initial one of a first turn.   *)
MesmaSelecao ==
  tab'.selecionada # tab.selecionada =>
    Comecando /\ <<"inicial", Ativo>> \in DOMAIN tab.iniciais

(* The edge that is taken was free, and no other piece waits for one.      *)
UnicaEscolhida(r) ==
  /\ tab'.selecionada = r
  /\ \A q \in Pendentes(tab) : tab.recebidas[q].vaga = Nada
  /\ Vazia(tab, tab'.recebidas[r].alvo)

(* In the light there is a free edge for each piece that is drawn; a       *)
(* crossing draws one piece, for the cell at a free edge.                  *)
Unica(S) == \A r, q \in S : r = q
SorteioCabe ==
  Pendentes(tab') # {} =>
    /\ ~jogadores[Ativo].baixa /\ IsFiniteSet(Pendentes(tab'))
    /\ Cardinality(Pendentes(tab')) <= Cardinality(Livres(tab, NoPeao))
SorteioUnico(c) ==
  /\ Unica(Pendentes(tab'))
  /\ \E b \in Livres(tab, NoPeao) : c = Vizinha(CelulaDe(tab, NoPeao), b)

(* Something is selected or let go.                                        *)
Seleciona ==
  /\ Delegado /\ MesmasForas
  /\ tab'.posicionadas = tab.posicionadas /\ tab'.peoes = tab.peoes
  /\ tab'.recebidas = tab.recebidas
  /\ tab'.manipulacao \in {tab.manipulacao, Nada}
  /\ tab'.peao # tab.peao =>
       tab'.peao \in {Nada, Ativo} /\ tab'.manipulacao = Nada /\ tab.recebidas = <<>>
  /\ MesmaSelecao

(* A piece is turned.                                                      *)
Gira ==
  /\ Delegado /\ MesmasForas
  /\ tab'.peoes = tab.peoes /\ Mesa(tab') = Mesa(tab)
  /\ tab'.manipulacao = tab.manipulacao
  /\ tab'.peao # tab.peao => tab.peao = Nada /\ tab'.peao = Ativo
  /\ \A q \in Mesa(tab) : CelulaDe(tab', q) = CelulaDe(tab, q)
  /\ \A q \in Mesa(tab) \ {tab.manipulacao} : tab'.posicionadas[q] = tab.posicionadas[q]
  /\ tab'.posicionadas = tab.posicionadas
     \/ /\ tab.manipulacao \in Mesa(tab)
        /\ GiroMantemConexao(tab, tab.manipulacao, tab'.posicionadas[tab.manipulacao].orientacao)
  /\ \A r \in Pendentes(tab) : /\ tab'.recebidas[r].vaga = tab.recebidas[r].vaga
                               /\ tab'.recebidas[r].alvo = tab.recebidas[r].alvo
  /\ MesmaSelecao

(* The active Player puts its initial piece on the board.                  *)
PoeInicial(p) ==
  /\ Delegado
  /\ Comecando /\ p = <<"inicial", Ativo>> /\ p \in DOMAIN tab.iniciais /\ p \notin Mesa(tab)
  /\ tab'.caixa = tab.caixa /\ DOMAIN tab'.iniciais = DOMAIN tab.iniciais \ {p}
  /\ tab'.recebidas = tab.recebidas
  /\ tab'.peoes = tab.peoes /\ tab'.peao = tab.peao /\ tab'.manipulacao = p
  /\ Mesa(tab') = Mesa(tab) \cup {p}
  /\ \A q \in Mesa(tab) : tab'.posicionadas[q] = tab.posicionadas[q]

(* A received piece is put in its vaga, beside the piece under the pawn.   *)
PoeRecebida(p) ==
  /\ UNCHANGED <<jogadores, iluminadas, graca>>
  /\ turno' = IF turno.atravessou THEN [turno EXCEPT !.travessia = p] ELSE turno
  /\ p \in Pendentes(tab) /\ p \notin Mesa(tab) /\ p \in PecasDaCaixa
  /\ tab'.caixa = tab.caixa /\ DOMAIN tab'.iniciais = DOMAIN tab.iniciais
  /\ Pendentes(tab') = Pendentes(tab) \ {p}
  /\ \A r \in Pendentes(tab') : /\ tab'.recebidas[r].vaga = tab.recebidas[r].vaga
                                /\ tab'.recebidas[r].alvo = tab.recebidas[r].alvo
  /\ tab'.peoes = tab.peoes /\ tab'.manipulacao \in {Nada, p}
  /\ tab'.peao \in {tab.peao, Ativo} /\ (tab.peao = Nada \/ tab'.peao = tab.peao)
  /\ Mesa(tab') = Mesa(tab) \cup {p}
  /\ \A q \in Mesa(tab) : tab'.posicionadas[q] = tab.posicionadas[q]
  /\ tab.recebidas[p].vaga # Nada
  /\ CelulaDe(tab', p) = tab.recebidas[p].alvo
  /\ Oposta(tab.recebidas[p].vaga) \in Aberturas(tab', p)

(* A received piece gets its vaga.                                         *)
EscolheVaga(r, b) ==
  /\ Delegado /\ MesmasForas
  /\ r \in Pendentes(tab)
  /\ tab'.posicionadas = tab.posicionadas /\ tab'.peoes = tab.peoes
  /\ tab'.manipulacao = Nada
  /\ IF tab.peao = Nada THEN tab'.peao = Ativo ELSE tab'.peao = tab.peao
  /\ tab'.recebidas[r].vaga = b
  /\ LET p == PecaSob(tab, tab'.peao)
     IN  /\ p \in Mesa(tab) /\ b \in Aberturas(tab, p)
         /\ tab'.recebidas[r].alvo = Vizinha(CelulaDe(tab, p), b)
  /\ \A q \in Pendentes(tab) \ {r} : tab'.recebidas[q] = tab.recebidas[q]
  /\ VagaPermitida(Ativo, r, b) /\ UnicaEscolhida(r)

(* The pawn comes to the board.                                            *)
PoePeao(p) ==
  /\ Tipos' /\ UNCHANGED <<turno, graca>>
  /\ Comecando /\ NoPeao = Nada /\ p \in Mesa(tab) /\ EhInicial(p) /\ Ocupantes(tab, p) = {}
  /\ tab'.peoes = [tab.peoes EXCEPT ![Ativo] = p]
  /\ DOMAIN jogadores' = DOMAIN jogadores
  /\ \A k \in DOMAIN jogadores : jogadores'[k].primeiroTurno = jogadores[k].primeiroTurno
  /\ Mesa(tab') \subseteq Mesa(tab) /\ Fora(tab') \subseteq Fora(tab)
  /\ \A q \in Mesa(tab') : tab'.posicionadas[q] = tab.posicionadas[q]
  /\ tab'.manipulacao = tab.manipulacao /\ tab'.peao = Ativo
  /\ \A r \in Pendentes(tab') : tab'.recebidas[r].vaga = Nada
  /\ tab'.iniciais = tab.iniciais
  /\ Clareada(tab', jogadores', iluminadas')
  /\ Pendentes(tab') # {} => jogadores[Ativo].baixa \/ ~jogadores'[Ativo].baixa
  /\ \A k \in DOMAIN jogadores \ {Ativo} : tab.peoes[k] = Nada =>
       /\ jogadores'[k].baixa = jogadores[k].baixa
       /\ jogadores'[k].amedrontado = jogadores[k].amedrontado

(* The pawn moves.                                                         *)
Move(p) ==
  /\ UNCHANGED <<jogadores, turno, iluminadas>>
  /\ ~Comecando /\ ~turno.confirmada /\ tab.recebidas = <<>> /\ NaZona(p)
  /\ tab.peao = Ativo /\ NoPeao \in Mesa(tab)
  /\ p \in VizinhasConectadas(tab, NoPeao)
  /\ tab'.peoes = [tab.peoes EXCEPT ![Ativo] = p]
  /\ tab'.posicionadas = tab.posicionadas /\ tab'.recebidas = tab.recebidas
  /\ tab'.peao = tab.peao /\ tab'.manipulacao = tab.manipulacao
  /\ Fora(tab') = Fora(tab)

(* The turn goes on to another one.                                        *)
Passa ==
  /\ DOMAIN jogadores' \subseteq DOMAIN jogadores
  /\ \A k \in DOMAIN jogadores' :
       /\ tab'.peoes[k] = tab.peoes[k]
       /\ jogadores'[k].primeiroTurno = (jogadores[k].primeiroTurno /\ k # Ativo)
          \/ jogadores'[k].primeiroTurno = jogadores[k].primeiroTurno
       /\ ~jogadores'[k].primeiroTurno /\ jogadores[k].primeiroTurno => tab.peoes[k] # Nada
  /\ turno'.inicio = tab'.peoes[turno'.ativo]
  /\ ~turno'.confirmada /\ ~turno'.atravessou /\ turno'.travessia = Nada
  /\ tab'.recebidas = <<>> /\ tab'.peao = Nada /\ tab'.manipulacao = Nada

(* The same while nobody gave up: the turn is ended, or the pawn stays.    *)
Encerra ==
  /\ IF Comecando THEN NoPeao # Nada ELSE turno.confirmada
  /\ \A k \in DOMAIN jogadores :
       /\ jogadores'[k].primeiroTurno = (jogadores[k].primeiroTurno /\ k # Ativo)
       /\ jogadores'[k].baixa = jogadores[k].baixa
       /\ jogadores'[k].amedrontado = jogadores[k].amedrontado
  /\ EmBaixa(jogadores') = EmBaixa(jogadores) /\ iluminadas' = iluminadas
  /\ tab'.posicionadas = tab.posicionadas /\ tab'.iniciais = tab.iniciais
Fica ==
  /\ ~Comecando /\ ~turno.confirmada
  /\ \A k \in DOMAIN jogadores : jogadores'[k].primeiroTurno = jogadores[k].primeiroTurno
  /\ TravessiaEmMonstro \/ (~turno.atravessou /\ NoPeao = turno.inicio)
  /\ TravessiaEmMonstro \/ Clareada(tab, jogadores, iluminadas) =>
       Clareada(tab', jogadores', iluminadas')
PassaCompleta ==
  DOMAIN jogadores' = DOMAIN jogadores =>
    /\ tab'.peoes = tab.peoes /\ AvaliarTermino
    /\ turno'.ativo = Proximo(jogadores', Ativo)
    /\ turno'.rodada = IF Acordados(jogadores') # {} /\ turno'.ativo <= Ativo
                       THEN turno.rodada + 1 ELSE turno.rodada
    /\ Mesa(tab') \subseteq Mesa(tab) /\ Fora(tab') \subseteq Fora(tab)
    /\ Encerra \/ Fica

(* Another Player gives up.                                                *)
Abandona ==
  /\ UNCHANGED turno /\ Ativo \in DOMAIN jogadores'
  /\ DOMAIN jogadores' \subseteq DOMAIN jogadores /\ DOMAIN jogadores' # DOMAIN jogadores
  /\ \A k \in DOMAIN jogadores' : tab'.peoes[k] = tab.peoes[k] /\ jogadores'[k] = jogadores[k]
  /\ Mesa(tab') \subseteq Mesa(tab) /\ Fora(tab') \subseteq Fora(tab)
  /\ \A q \in Mesa(tab') : tab'.posicionadas[q] = tab.posicionadas[q]
  /\ tab'.recebidas = tab.recebidas /\ tab'.peao = tab.peao /\ tab'.manipulacao = tab.manipulacao

(* The position is confirmed.                                              *)
Confirma ==
  /\ turno' = [turno EXCEPT !.confirmada = TRUE]
  /\ ~Comecando /\ ~turno.confirmada /\ tab.recebidas = <<>>
  /\ PousouNaTravessia(Ativo) /\ NoPeao \in Mesa(tab)
  /\ DOMAIN jogadores' = DOMAIN jogadores
  /\ \A k \in DOMAIN jogadores : jogadores'[k].primeiroTurno = jogadores[k].primeiroTurno
  /\ tab'.peoes = tab.peoes /\ tab'.manipulacao = tab.manipulacao
  /\ tab'.peao \in {tab.peao, Ativo}
  /\ Mesa(tab') \subseteq Mesa(tab) /\ Fora(tab') \subseteq Fora(tab)
  /\ \A q \in Mesa(tab') : tab'.posicionadas[q] = tab.posicionadas[q]
  /\ \A r \in Pendentes(tab') : tab'.recebidas[r].vaga = Nada
  /\ Clareada(tab', jogadores', iluminadas')
  /\ Pendentes(tab') # {} => ~jogadores'[Ativo].baixa
  /\ SorteioCabe

(* The dark is crossed: a piece is drawn for the cell c.                   *)
Atravessa(c) ==
  /\ UNCHANGED <<jogadores, iluminadas, graca>>
  /\ turno' = [turno EXCEPT !.atravessou = tab'.recebidas # <<>>]
  /\ ~Comecando /\ ~turno.confirmada /\ ~turno.atravessou /\ jogadores[Ativo].baixa
  /\ NoPeao \in Mesa(tab) /\ turno.inicio \in {Nada, NoPeao}
  /\ c \in Vizinhas(CelulaDe(tab, NoPeao))
  /\ tab'.posicionadas = tab.posicionadas /\ tab'.peoes = tab.peoes
  /\ tab'.manipulacao = tab.manipulacao /\ tab'.peao \in {tab.peao, Ativo}
  /\ Fora(tab') \subseteq Fora(tab)
  /\ \A r \in Pendentes(tab') : tab'.recebidas[r].vaga = Nada /\ tab'.recebidas[r].alvo = c
  /\ SorteioUnico(c)

-----------------------------------------------------------------------------
(* How many pieces are drawn.                                              *)

LEMMA LivresFinitas ==
  ASSUME NEW t, Bom(t), NEW p \in Mesa(t)
  PROVE  /\ Livres(t, p) \subseteq Bordas /\ IsFiniteSet(Livres(t, p))
         /\ Cardinality(Livres(t, p)) \in Nat
<1>1. Livres(t, p) \subseteq Bordas
  BY MesaDe DEF Bom, Livres
<1>2. IsFiniteSet(Bordas)
  <2>1. 0 \in Int /\ 3 \in Int
    OBVIOUS
  <2>2. QED
    BY <2>1, FS_Interval, Zenon DEF Bordas
<1>3. QED
  BY <1>1, <1>2, FS_Subset, FS_CardinalityType

Primeiras(c, k) == {c[i] : i \in 1..k}

LEMMA PrimeirasContadas ==
  ASSUME NEW c, NEW k \in Nat
  PROVE  /\ IsFiniteSet(Primeiras(c, k))
         /\ Cardinality(Primeiras(c, k)) \in Nat /\ Cardinality(Primeiras(c, k)) <= k
         /\ k <= 1 => Unica(Primeiras(c, k))
<1> DEFINE f == [i \in 1..k |-> c[i]]
           S == Primeiras(c, k)
<1>1. f \in [1..k -> S] /\ \A x \in S : \E i \in 1..k : f[i] = x
  BY DEF Primeiras
<1>5. k <= 1 => Unica(S)
  BY DEF Primeiras, Unica
<1> HIDE DEF f, S
<1>2. f \in Surjection(1..k, S)
  BY <1>1, Fun_IsSurj
<1>3. IsFiniteSet(1..k) /\ Cardinality(1..k) = k
  BY FS_Interval
<1>4. IsFiniteSet(S) /\ Cardinality(S) <= k
  BY <1>2, <1>3, FS_Surjection
<1>6. QED
  BY <1>4, <1>5, FS_CardinalityType DEF S

LEMMA VagasContadas ==
  ASSUME NEW t, Bom(t), NEW p \in Mesa(t)
  PROVE  LET V == VagasDisponiveis([t EXCEPT !.recebidas = <<>>], p)
         IN  Cardinality(V) \in Nat /\ Cardinality(V) <= Cardinality(Livres(t, p))
<1> DEFINE s == [t EXCEPT !.recebidas = <<>>]
<1>1. s.posicionadas = t.posicionadas
  BY DEF Bom, Tabuleiros
<1>2. VagasDisponiveis(s, p) \subseteq Livres(t, p)
  BY <1>1 DEF VagasDisponiveis, Livres, Aberturas, Vazia, CelulaDe, Mesa
<1>3. QED
  BY <1>2, LivresFinitas, FS_Subset, FS_CardinalityType

LEMMA SorteioNaLuz ==
  ASSUME NEW t, Bom(t), NEW p \in Mesa(t), NEW l, NEW a,
         NEW n, n = GerarRecebidas(t, p, FALSE, l, a)
  PROVE  IsFiniteSet(Pendentes(n)) /\ Cardinality(Pendentes(n)) <= Cardinality(Livres(t, p))
<1> DEFINE k == QuantidadeSorteada(t, p, FALSE, l)
           V == VagasDisponiveis([t EXCEPT !.recebidas = <<>>], p)
<1>1. k \in 0 .. Len(t.caixa) /\ Len(t.caixa) \in Nat
  BY QuantidadeCabe, LenProperties DEF Bom, Tabuleiros
<1>2. Pendentes(n) = Primeiras(t.caixa, k)
  BY DEF Primeiras, GerarRecebidas, Bom, Tabuleiros, Pendentes
<1>3. k = Menor(Cardinality(V), Len(t.caixa))
  BY DEF QuantidadeSorteada, VagasParaSortear
<1>4. Cardinality(V) \in Nat /\ Cardinality(V) <= Cardinality(Livres(t, p))
  BY VagasContadas
<1> HIDE DEF k, V
<1>5. k \in Nat /\ k <= Cardinality(V)
  BY <1>1, <1>3, <1>4 DEF Menor
<1>6. /\ IsFiniteSet(Pendentes(n))
      /\ Cardinality(Pendentes(n)) \in Nat /\ Cardinality(Pendentes(n)) <= k
  BY <1>2, <1>5, PrimeirasContadas, Zenon
<1>7. Cardinality(Livres(t, p)) \in Nat
  BY LivresFinitas
<1>8. \A w, x, y, z \in Nat : w <= x /\ x <= y /\ y <= z => w <= z
  OBVIOUS
<1>9. QED
  BY <1>4, <1>5, <1>6, <1>7, <1>8, Zenon

LEMMA SorteioNoEscuro ==
  ASSUME NEW t, Bom(t), NEW p \in Mesa(t), NEW l, NEW a,
         NEW n, n = GerarRecebidas(t, p, TRUE, l, a)
  PROVE  Unica(Pendentes(n))
<1> DEFINE k == QuantidadeSorteada(t, p, TRUE, l)
<1>1. k \in 0 .. Len(t.caixa) /\ Len(t.caixa) \in Nat
  BY QuantidadeCabe, LenProperties DEF Bom, Tabuleiros
<1>2. Pendentes(n) = Primeiras(t.caixa, k)
  BY DEF Primeiras, GerarRecebidas, Bom, Tabuleiros, Pendentes
<1>3. PICK m : k = Menor(m, 1)
  BY DEF QuantidadeSorteada
<1> HIDE DEF k
<1>4. k \in Nat /\ k <= 1
  BY <1>1, <1>3 DEF Menor
<1>5. QED
  BY <1>2, <1>4, PrimeirasContadas, Zenon

-----------------------------------------------------------------------------
(* The commands are steps of these kinds.                                  *)

LEMMA SelecionaFatos ==
  ASSUME Tipos, NEW j,
         \/ \E p : SelecionarAPeca(j, p)
         \/ FinalizarManipulacao(j) \/ SelecionarOPeao(j) \/ DesselecionarOPeao(j)
  PROVE  Seleciona
<1>1. tab \in Tabuleiros
  BY DEF Tipos, Bom
<1>2. CASE \E p : SelecionarAPeca(j, p)
  <2>1. PICK p : SelecionarAPeca(j, p)
    BY <1>2
  <2>2. tab' = SelecionarPeca(tab, p) /\ Delegado
    BY <2>1, SelecionarAPecaTipos DEF Delegado
  <2>3. PodeSelecionarPeca(tab, p) /\ Bom(tab) /\ DaVez(j) /\ InicialDisponivel(j, p)
    BY <2>1 DEF SelecionarAPeca, PodeSelecionarAPeca, Tipos
  <2>4. MesmaSelecao
    <3>1. DOMAIN tab.iniciais \subseteq PecasIniciais
      BY <1>1, MesaDe
    <3>2. CASE p \in DOMAIN tab.iniciais
      BY <2>3, <3>1, <3>2, TiposDistintos DEF DaVez, InicialDisponivel, Comecando, Ativo, MesmaSelecao
    <3>3. CASE p = tab.manipulacao
      BY <1>1, <2>2, <3>3 DEF SelecionarPeca, Tabuleiros, MesmaSelecao
    <3>4. QED
      BY <2>3, <3>2, <3>3 DEF PodeSelecionarPeca
  <2>5. QED
    BY <2>2, <2>3, <2>4, SelecionarPecaBom DEF Seleciona, MesmasForas, Pendentes
<1>3. CASE FinalizarManipulacao(j) \/ SelecionarOPeao(j) \/ DesselecionarOPeao(j)
  <2>1. /\ tab'.posicionadas = tab.posicionadas /\ tab'.peoes = tab.peoes
        /\ tab'.recebidas = tab.recebidas /\ MesmasForas /\ Delegado
    BY <1>3, SelecionarTipos DEF MesmasForas, Delegado, Pendentes
  <2>2. /\ tab'.manipulacao \in {tab.manipulacao, Nada}
        /\ tab'.peao # tab.peao =>
             tab'.peao \in {Nada, Ativo} /\ tab'.manipulacao = Nada /\ tab.recebidas = <<>>
    <3>1. CASE FinalizarManipulacao(j)
      BY <1>1, <3>1 DEF FinalizarManipulacao, DelegarAoTabuleiro, Tabuleiros
    <3>2. CASE SelecionarOPeao(j)
      <4>1. tab' = SelecionarPeao(tab, j) /\ PodeSelecionarPeao(tab, j) /\ j = Ativo
        BY <3>2 DEF SelecionarOPeao, PodeSelecionarOPeao, DelegarAoTabuleiro, DaVez, Ativo
      <4>2. QED
        BY <1>1, <4>1 DEF SelecionarPeao, PodeSelecionarPeao, Tabuleiros
    <3>3. CASE DesselecionarOPeao(j)
      <4>1. tab' = DesselecionarPeao(tab, j) /\ PodeDesselecionarPeao(tab, j)
        BY <3>3 DEF DesselecionarOPeao, DelegarAoTabuleiro
      <4>2. QED
        BY <1>1, <4>1 DEF DesselecionarPeao, PodeDesselecionarPeao, Tabuleiros
    <3>4. QED
      BY <1>3, <3>1, <3>2, <3>3
  <2>3. MesmaSelecao
    BY <1>1, <1>3 DEF FinalizarManipulacao, SelecionarOPeao, DesselecionarOPeao, DelegarAoTabuleiro,
         SelecionarPeao, DesselecionarPeao, Tabuleiros, MesmaSelecao
  <2>4. QED
    BY <2>1, <2>2, <2>3 DEF Seleciona
<1>4. QED
  BY <1>2, <1>3

LEMMA GiraFatos ==
  ASSUME Tipos, NEW j, NEW p \in PecasEmJogo, NEW passo \in Int, GirarAPeca(j, p, passo)
  PROVE  Gira
<1> DEFINE t == IF p \in Pendentes(tab) THEN Adotada(tab, j) ELSE tab
<1>1. /\ tab' = GirarPeca(t, p, passo) /\ tab'.peoes = tab.peoes
      /\ Bom(t) /\ t.posicionadas = tab.posicionadas /\ t.recebidas = tab.recebidas
      /\ t.iniciais = tab.iniciais /\ t.peoes = tab.peoes /\ t.caixa = tab.caixa /\ Delegado
  BY GirarAPecaTipos DEF Delegado
<1>2. j = Ativo /\ PodeGirarPeca(tab, p, passo) /\ Bom(tab)
  BY DEF GirarAPeca, PodeGirarAPeca, DaVez, Ativo, Tipos
<1>3. t.manipulacao = tab.manipulacao /\ (t.peao # tab.peao => tab.peao = Nada /\ t.peao = Ativo)
      /\ t.selecionada = tab.selecionada
  BY <1>2 DEF Adotada, ComSelecao, Bom, Tabuleiros
<1> HIDE DEF t
<1>m. MesmaSelecao
  <2>1. t \in Tabuleiros
    BY <1>1 DEF Bom
  <2>2. tab'.selecionada = t.selecionada
    BY <1>1, <2>1 DEF GirarPeca, Tabuleiros
  <2>3. QED
    BY <1>3, <2>2 DEF MesmaSelecao
<1>4. p \in DOMAIN t.iniciais \cup Mesa(t) \cup Pendentes(t)
  BY <1>1 DEF PecasEmJogo, Mesa, Pendentes
<1>5. /\ tab'.caixa = t.caixa /\ tab'.peao = t.peao /\ tab'.manipulacao = t.manipulacao
      /\ Mesa(tab') = Mesa(t) /\ Pendentes(tab') = Pendentes(t)
      /\ DOMAIN tab'.iniciais = DOMAIN t.iniciais
      /\ \A q \in Mesa(t) : CelulaDe(tab', q) = CelulaDe(t, q)
      /\ \A q \in Mesa(t) \ {p} : tab'.posicionadas[q] = t.posicionadas[q]
      /\ p \in Mesa(t) => tab'.posicionadas[p].orientacao = Rotacionar(t.posicionadas[p].orientacao, passo)
      /\ p \notin Mesa(t) => tab'.posicionadas = t.posicionadas
      /\ \A q \in Pendentes(t) : /\ tab'.recebidas[q].vaga = t.recebidas[q].vaga
                                 /\ tab'.recebidas[q].alvo = t.recebidas[q].alvo
  BY <1>1, <1>4, GirarBom
<1>6. Mesa(t) = Mesa(tab) /\ Pendentes(t) = Pendentes(tab)
      /\ \A q \in Mesa(t) : CelulaDe(t, q) = CelulaDe(tab, q)
  BY <1>1 DEF Mesa, Pendentes, CelulaDe
<1>7. ASSUME p \in Mesa(tab)
      PROVE  p = tab.manipulacao /\ GiroMantemConexao(tab, p, Rotacionar(tab.posicionadas[p].orientacao, passo))
  <2>1. p \notin Pendentes(tab) /\ p \notin DOMAIN tab.iniciais
    BY <1>2, <1>7 DEF Bom, PecasSeparadas
  <2>2. QED
    BY <1>2, <2>1 DEF PodeGirarPeca, PodeGirarRecebida, PodeGirarDaMesa, PodeGirarPosicionada
<1>8. MesmasForas
  BY <1>1, <1>5, <1>6 DEF MesmasForas
<1>9. CASE p \in Mesa(tab)
  BY <1>1, <1>3, <1>m, <1>5, <1>6, <1>7, <1>8, <1>9 DEF Gira
<1>10. CASE p \notin Mesa(tab)
  BY <1>1, <1>3, <1>m, <1>5, <1>6, <1>8, <1>10 DEF Gira
<1>11. QED
  BY <1>9, <1>10

LEMMA PoeInicialFatos ==
  ASSUME Tipos, NEW j, NEW p, NEW c \in Celulas,
         PosicionarAInicial(j, p, c) \/ EncaixarInicialDoBot(j, p, c)
  PROVE  PoeInicial(p)
<1>1. /\ j = Ativo /\ PodePosicionarInicial(tab, p, c) /\ p \in DOMAIN tab.iniciais
      /\ InicialDisponivel(j, p)
  BY DEF PosicionarAInicial, EncaixarInicialDoBot, PodePosicionarAInicial, PodePosicionarInicial,
         DaVez, Ativo
<1>2. p \in PecasIniciais /\ p \notin Mesa(tab)
  BY <1>1, MesaDe DEF Tipos, Bom, PecasSeparadas
<1>3. Comecando /\ p = <<"inicial", Ativo>>
  BY <1>1, <1>2, TiposDistintos DEF InicialDisponivel, Comecando
<1>4. /\ tab'.peoes = tab.peoes /\ tab'.peao = tab.peao /\ tab'.manipulacao = p
      /\ tab'.recebidas = tab.recebidas
      /\ tab'.caixa = tab.caixa /\ DOMAIN tab'.iniciais = DOMAIN tab.iniciais \ {p}
      /\ Mesa(tab') = Mesa(tab) \cup {p}
      /\ \A q \in Mesa(tab) : tab'.posicionadas[q] = tab.posicionadas[q]
      /\ Delegado
  <2>1. CASE PosicionarAInicial(j, p, c)
    <3>1. DelegarAoTabuleiro(PosicionarInicial(tab, p, c)) /\ Bom(tab)
      BY <2>1 DEF PosicionarAInicial, Tipos
    <3>2. QED
      BY <1>1, <3>1, EncaixarInicialTipos DEF Delegado
  <2>2. CASE EncaixarInicialDoBot(j, p, c)
    BY <2>2, EncaixarInicialDoBotTipos DEF Delegado
  <2>3. QED
    BY <2>1, <2>2
<1>5. QED
  BY <1>1, <1>2, <1>3, <1>4 DEF PoeInicial

LEMMA PoeRecebidaFatos ==
  ASSUME Tipos, tab.peao \in {Nada, Ativo}, NEW j, NEW p, NEW c,
         PosicionarARecebida(j, p, c) \/ EncaixarRecebidaDoBot(j, p, c)
  PROVE  PoeRecebida(p)
<1>1. PICK t : /\ Bom(t) /\ t.peoes = tab.peoes /\ t.posicionadas = tab.posicionadas
               /\ t.peao \in {tab.peao, j} /\ t.iniciais = tab.iniciais /\ t.caixa = tab.caixa
               /\ PodePosicionarRecebida(t, p, c) /\ tab' = PosicionarRecebida(t, p, c)
               /\ Pendentes(t) = Pendentes(tab)
               /\ \A q \in Pendentes(t) : /\ t.recebidas[q].vaga = tab.recebidas[q].vaga
                                          /\ t.recebidas[q].alvo = tab.recebidas[q].alvo
               /\ turno' = IF turno.atravessou THEN [turno EXCEPT !.travessia = p] ELSE turno
               /\ UNCHANGED <<jogadores, iluminadas, graca>> /\ j = turno.ativo
  <2>1. CASE PosicionarARecebida(j, p, c)
    <3>1. PICK t : t = Adotada(tab, j)
      OBVIOUS
    <3>2. /\ Bom(t) /\ t.peoes = tab.peoes /\ t.posicionadas = tab.posicionadas
          /\ t.peao \in {tab.peao, j} /\ t.iniciais = tab.iniciais /\ t.recebidas = tab.recebidas
          /\ t.caixa = tab.caixa
          /\ PodePosicionarRecebida(t, p, c) /\ tab' = PosicionarRecebida(t, p, c)
          /\ turno' = IF turno.atravessou THEN [turno EXCEPT !.travessia = p] ELSE turno
          /\ UNCHANGED <<jogadores, iluminadas, graca>> /\ j = turno.ativo
      BY <2>1, <3>1, PosicionarARecebidaTipos
    <3>3. QED
      BY <3>2 DEF Pendentes
  <2>2. CASE EncaixarRecebidaDoBot(j, p, c)
    BY <2>2, EncaixarRecebidaDoBotTipos
  <2>3. QED
    BY <2>1, <2>2
<1>2. t.peao # Nada
  BY <1>1 DEF PodePosicionarRecebida
<1>3. t.peao \in {tab.peao, Ativo} /\ (tab.peao = Nada \/ t.peao = tab.peao)
  BY <1>1 DEF Ativo
<1>4. /\ tab'.peoes = t.peoes /\ tab'.caixa = t.caixa /\ tab'.peao = t.peao
      /\ tab'.iniciais = t.iniciais /\ tab'.manipulacao \in {Nada, p}
      /\ Mesa(tab') = Mesa(t) \cup {p} /\ p \notin Mesa(t) /\ p \in PecasDaCaixa
      /\ Pendentes(tab') = Pendentes(t) \ {p} /\ p \in Pendentes(t)
      /\ \A q \in Mesa(t) : tab'.posicionadas[q] = t.posicionadas[q]
      /\ \A q \in Pendentes(tab') : tab'.recebidas[q] = t.recebidas[q]
      /\ tab'.posicionadas[p] = [celula |-> c, orientacao |-> t.recebidas[p].orientacao]
  BY <1>1, PosicionarRecebidaBom
<1>5. Mesa(t) = Mesa(tab)
  BY <1>1 DEF Mesa
<1>6. /\ t.recebidas[p].vaga # Nada /\ t.recebidas[p].alvo = c
      /\ ConectaNaVaga(p, t.recebidas[p].orientacao, t.recebidas[p].vaga)
  BY <1>1 DEF PodePosicionarRecebida
<1>7. CelulaDe(tab', p) = c /\ Oposta(t.recebidas[p].vaga) \in Aberturas(tab', p)
  BY <1>4, <1>6 DEF CelulaDe, Aberturas, ConectaNaVaga
<1>8. QED
  BY <1>1, <1>3, <1>4, <1>5, <1>6, <1>7 DEF PoeRecebida

LEMMA EscolheVagaFatos ==
  ASSUME Tipos, NEW j, NEW r, NEW b, EscolherAVaga(j, r, b)
  PROVE  EscolheVaga(r, b)
<1> DEFINE t == Adotada(tab, j)
<1>1. /\ tab' = EscolherVaga(t, r, b) /\ Bom(t) /\ PodeEscolherVaga(t, r, b)
      /\ t.posicionadas = tab.posicionadas /\ t.recebidas = tab.recebidas /\ Delegado
  BY EscolherAVagaTipos DEF Delegado
<1>2. j = Ativo /\ j \in Jogadores /\ VagaPermitida(j, r, b) /\ Bom(tab)
  BY DEF EscolherAVaga, PodeEscolherAVaga, DaVez, Ativo, Tipos, Turno
<1>3. t.peoes = tab.peoes /\ t.caixa = tab.caixa /\ t.iniciais = tab.iniciais
  BY <1>2, AdotadaBom
<1>4. tab.recebidas # <<>>
  <2>1. r \in Pendentes(tab)
    BY <1>1 DEF PodeEscolherVaga, Pendentes
  <2>2. QED
    BY <2>1, ParcialVazia DEF Pendentes
<1>5. IF tab.peao = Nada THEN t.peao = Ativo ELSE t.peao = tab.peao
  BY <1>2, <1>4 DEF Adotada, ComSelecao, Bom, Tabuleiros
<1> HIDE DEF t
<1> DEFINE p == PecaSob(t, t.peao)
<1>6. /\ tab'.peoes = t.peoes /\ tab'.caixa = t.caixa /\ tab'.peao = t.peao
      /\ tab'.iniciais = t.iniciais /\ tab'.posicionadas = t.posicionadas /\ tab'.manipulacao = Nada
      /\ Pendentes(tab') = Pendentes(t)
      /\ p \in Mesa(t)
      /\ tab'.recebidas[r].vaga = b /\ tab'.recebidas[r].alvo = Vizinha(CelulaDe(t, p), b)
      /\ \A q \in Pendentes(t) \ {r} : tab'.recebidas[q] = t.recebidas[q]
  BY <1>1, EscolherVagaBom
<1>7. r \in Pendentes(t) /\ b \in Aberturas(t, p)
  BY <1>1 DEF PodeEscolherVaga, VagasDisponiveis
<1>8. p = PecaSob(tab, tab'.peao)
  BY <1>1, <1>3, <1>6 DEF PecaSob, Mesa
<1>9. /\ Mesa(t) = Mesa(tab) /\ Pendentes(t) = Pendentes(tab) /\ Aberturas(t, p) = Aberturas(tab, p)
      /\ CelulaDe(t, p) = CelulaDe(tab, p)
  BY <1>1 DEF Mesa, Pendentes, Aberturas, CelulaDe
<1> HIDE DEF p
<1>10. UnicaEscolhida(r)
  <2>1. tab'.selecionada = r
    BY <1>1 DEF EscolherVaga, Bom, Tabuleiros
  <2>2. \A q \in Pendentes(tab) : tab.recebidas[q].vaga = Nada
    BY <1>1, <1>9 DEF PodeEscolherVaga
  <2>3. Vazia(t, Vizinha(CelulaDe(t, p), b))
    BY <1>1 DEF PodeEscolherVaga, VagasDisponiveis, p
  <2>4. Vazia(tab, tab'.recebidas[r].alvo)
    BY <1>6, <1>9, <1>1, <2>3 DEF Vazia, CelulaDe
  <2>5. QED
    BY <2>1, <2>2, <2>4 DEF UnicaEscolhida
<1>11. QED
  BY <1>1, <1>2, <1>3, <1>5, <1>6, <1>7, <1>8, <1>9, <1>10 DEF EscolheVaga, MesmasForas

LEMMA PoePeaoFatos ==
  ASSUME Tipos, NEW j, NEW p \in Mesa(tab), PosicionarOPeao(j, p)
  PROVE  PoePeao(p)
<1>1. Pendentes(tab') # {} => tab'.recebidas # <<>>
  BY ParcialVazia DEF Pendentes
<1>2. /\ Tipos' /\ j = turno.ativo /\ jogadores[j].primeiroTurno /\ tab.peoes[j] = Nada
      /\ Ocupantes(tab, p) = {} /\ EhInicial(p)
      /\ tab'.peoes = [tab.peoes EXCEPT ![j] = p] /\ DOMAIN jogadores' = DOMAIN jogadores
      /\ \A k \in DOMAIN jogadores : jogadores'[k].primeiroTurno = jogadores[k].primeiroTurno
      /\ Mesa(tab') \subseteq Mesa(tab) /\ Fora(tab') \subseteq Fora(tab)
      /\ \A q \in Mesa(tab') : tab'.posicionadas[q] = tab.posicionadas[q]
      /\ tab'.manipulacao = tab.manipulacao /\ tab'.peao = j
      /\ \A r \in Pendentes(tab') : tab'.recebidas[r].vaga = Nada
      /\ UNCHANGED <<turno, graca>> /\ tab'.iniciais = tab.iniciais
      /\ Clareada(tab', jogadores', iluminadas')
  BY PosicionarOPeaoTipos
<1>3. /\ tab'.recebidas # <<>> => jogadores[j].baixa \/ ~jogadores'[j].baixa
      /\ \A k \in DOMAIN jogadores \ {j} : tab.peoes[k] = Nada =>
           /\ jogadores'[k].baixa = jogadores[k].baixa
           /\ jogadores'[k].amedrontado = jogadores[k].amedrontado
  BY PosicionarOPeaoTipos
<1>4. QED
  BY <1>1, <1>2, <1>3 DEF PoePeao, Ativo, Comecando, NoPeao

LEMMA MoveFatos ==
  ASSUME Tipos, NEW j, NEW p, MoverOPeao(j, p)
  PROVE  Move(p)
<1>1. /\ j = Ativo /\ ~Comecando /\ ~turno.confirmada /\ tab.recebidas = <<>> /\ NaZona(p)
      /\ tab.peao = Ativo /\ tab' = MoverPeao(tab, j, p)
  BY DEF MoverOPeao, PodeMoverOPeao, SemPassoDefinitivo, DaVez, PodeMoverPeao, Ativo, Comecando
<1>2. tab'.iniciais = tab.iniciais /\ tab'.manipulacao = tab.manipulacao
  BY <1>1 DEF MoverPeao, Tipos, Bom, Tabuleiros
<1>3. /\ tab'.peoes = [tab.peoes EXCEPT ![j] = p]
      /\ tab'.posicionadas = tab.posicionadas /\ tab'.recebidas = tab.recebidas
      /\ tab'.peao = tab.peao /\ tab'.caixa = tab.caixa
      /\ tab.peoes[j] \in Mesa(tab) /\ p \in VizinhasConectadas(tab, tab.peoes[j])
      /\ UNCHANGED <<jogadores, turno, iluminadas>>
  BY MoverOPeaoTipos
<1>4. Fora(tab') = Fora(tab)
  BY <1>2, <1>3 DEF Fora, Pendentes
<1>5. QED
  BY <1>1, <1>2, <1>3, <1>4 DEF Move, NoPeao

LEMMA SemManipulacao ==
  ASSUME NEW n \in Tabuleiros, n = SemSequencia(n)
  PROVE  n.manipulacao = Nada
<1>1. SemSequencia(n).manipulacao = Nada
  BY DEF SemSequencia, Tabuleiros
<1>2. QED
  BY <1>1

LEMMA PassaFatos ==
  ASSUME Tipos, NEW j, Permanecer(j) \/ EncerrarTurno(j) \/ (Desistir(j) /\ j = Ativo)
  PROVE  Passa
<1>1. Tipos' /\ tab' = SemSequencia(tab')
  BY PermanecerTipos, EncerrarTurnoTipos, DesistirTipos DEF Ativo
<1>2. tab' \in Tabuleiros
  BY <1>1 DEF Tipos, Bom
<1>3. tab'.manipulacao = Nada
  <2>1. PICK n : n = tab'
    OBVIOUS
  <2>2. n \in Tabuleiros /\ n = SemSequencia(n)
    BY <1>1, <1>2, <2>1
  <2>3. QED
    BY <2>1, <2>2, SemManipulacao
<1>4. CASE Permanecer(j)
  BY <1>3, <1>4, PermanecerTipos DEF Passa, Tipos
<1>5. CASE EncerrarTurno(j)
  <2>1. /\ j = turno.ativo /\ DOMAIN jogadores' = DOMAIN jogadores /\ tab'.peoes = tab.peoes
        /\ jogadores[j].primeiroTurno => tab.peoes[j] # Nada
        /\ \A k \in DOMAIN jogadores :
             jogadores'[k].primeiroTurno = (jogadores[k].primeiroTurno /\ k # j)
        /\ turno'.inicio = tab'.peoes[turno'.ativo]
        /\ ~turno'.confirmada /\ ~turno'.atravessou /\ turno'.travessia = Nada
        /\ tab'.recebidas = <<>> /\ tab'.peao = Nada
    BY <1>5, EncerrarTurnoTipos
  <2>2. \A k \in DOMAIN jogadores' :
          ~jogadores'[k].primeiroTurno /\ jogadores[k].primeiroTurno => tab.peoes[k] # Nada
    BY <2>1
  <2>3. QED
    BY <1>3, <2>1, <2>2 DEF Passa, Ativo
<1>6. CASE Desistir(j) /\ j = Ativo
  BY <1>3, <1>6, DesistirTipos DEF Passa, Ativo
<1>7. QED
  BY <1>4, <1>5, <1>6

LEMMA PassaCompletaFatos ==
  ASSUME Tipos, NEW j, Permanecer(j) \/ EncerrarTurno(j) \/ Desistir(j)
  PROVE  PassaCompleta
<1>1. CASE Permanecer(j)
  <2>1. /\ j = Ativo /\ ~Comecando /\ ~turno.confirmada
        /\ TravessiaEmMonstro \/ (~turno.atravessou /\ NoPeao = turno.inicio)
    BY <1>1, PermanecerTipos DEF PodePermanecerNaPeca, SemPassoDefinitivo, DaVez, Ativo, Comecando,
       NoPeao, NaPeca
  <2>2. Fica
    BY <1>1, <2>1, PermanecerTipos DEF Fica
  <2>3. QED
    BY <1>1, <2>1, <2>2, PermanecerTipos DEF PassaCompleta
<1>2. CASE EncerrarTurno(j)
  <2>1. j = Ativo /\ IF Comecando THEN NoPeao # Nada ELSE turno.confirmada
    BY <1>2, EncerrarTurnoTipos DEF PodeEncerrar, DaVez, Ativo, Comecando, NoPeao, NaPeca
  <2>2. Encerra
    BY <1>2, <2>1, EncerrarTurnoTipos DEF Encerra
  <2>3. Mesa(tab') = Mesa(tab)
    BY <1>2, EncerrarTurnoTipos DEF Mesa
  <2>4. QED
    BY <1>2, <2>1, <2>2, <2>3, EncerrarTurnoTipos DEF PassaCompleta
<1>3. CASE Desistir(j)
  BY <1>3, DesistirTipos DEF PassaCompleta
<1>4. QED
  BY <1>1, <1>2, <1>3

LEMMA AbandonaFatos ==
  ASSUME Tipos, NEW j, Desistir(j), j # Ativo
  PROVE  Abandona
  BY DesistirTipos DEF Abandona, Ativo, Tipos

LEMMA ConfirmarSorteia ==
  ASSUME Tipos, NEW j, ConfirmarPosicao(j), j = Ativo, NoPeao \in Mesa(tab), tab.recebidas = <<>>
  PROVE  SorteioCabe
<1> DEFINE p == NaPeca(j)
           gerado   == GerarRecebidas(tab, p, FALSE, {}, Nada)
           sorteado == IF jogadores[j].baixa \/ p = turno.inicio THEN tab ELSE gerado
           curados  == Resgatados(tab, jogadores, p, j)
           feridos  == Atacados(sorteado, curados, turno.inicio, p)
           limpo    == AplicarLimpeza(sorteado, Luz(sorteado, feridos))
           mesa     == Devolvida(limpo, j, feridos)
<1>1. tab' = Adotada(mesa, j)
  BY DEF ConfirmarPosicao
<1>2. p = NoPeao /\ p \in Mesa(tab) /\ Bom(tab) /\ j \in Jogadores /\ Pendentes(tab) = {}
  BY ParcialVazia DEF NaPeca, NoPeao, Ativo, Tipos, Turno, Pendentes
<1> HIDE DEF p
<1>3. /\ Bom(gerado) /\ gerado.posicionadas = tab.posicionadas
      /\ IsFiniteSet(Pendentes(gerado))
      /\ Cardinality(Pendentes(gerado)) <= Cardinality(Livres(tab, p))
  <2>1. \E e, l : gerado = GerarRecebidas(tab, p, e, l, Nada)
    BY Zenon
  <2>2. Bom(gerado) /\ gerado.posicionadas = tab.posicionadas
    <3> HIDE DEF gerado
    <3>1. QED
      BY <1>2, <2>1, SorteioLivre
  <2>3. IsFiniteSet(Pendentes(gerado)) /\ Cardinality(Pendentes(gerado)) <= Cardinality(Livres(tab, p))
    BY <1>2, SorteioNaLuz
  <2>4. QED
    BY <2>2, <2>3
<1>4. sorteado \in {tab, gerado} /\ (jogadores[j].baixa => sorteado = tab)
  OBVIOUS
<1> HIDE DEF gerado, sorteado, feridos, curados
<1>5. Bom(sorteado) /\ Mesa(sorteado) = Mesa(tab)
  BY <1>2, <1>3, <1>4 DEF Mesa
<1>6. Bom(limpo) /\ limpo.recebidas = sorteado.recebidas /\ Mesa(limpo) \subseteq Mesa(tab)
  BY <1>5, LimpezaBom
<1> HIDE DEF limpo
<1>7. Bom(mesa) /\ mesa.recebidas \in {sorteado.recebidas, <<>>}
  BY <1>6, DevolvidaBom
<1> HIDE DEF mesa
<1>8. tab'.recebidas \in {sorteado.recebidas, <<>>}
  BY <1>1, <1>2, <1>7, AdotadaBom
<1>9. Pendentes(tab') # {} => ~jogadores[Ativo].baixa /\ Pendentes(tab') = Pendentes(gerado)
  BY <1>2, <1>4, <1>8, ParcialVazia DEF Pendentes
<1>10. QED
  BY <1>2, <1>3, <1>9 DEF SorteioCabe

LEMMA ConfirmaFatos ==
  ASSUME Tipos, NEW j, ConfirmarPosicao(j)
  PROVE  Confirma
<1>1. j = Ativo /\ ~Comecando /\ ~turno.confirmada /\ tab.recebidas = <<>> /\ PousouNaTravessia(Ativo)
  BY ConfirmarTipos DEF PodeConfirmar, SemPassoDefinitivo, DaVez, Ativo, Comecando
<1>2. Pendentes(tab') # {} => tab'.recebidas # <<>>
  BY ParcialVazia DEF Pendentes
<1>3. SorteioCabe
  <2>1. NoPeao \in Mesa(tab)
    BY <1>1, ConfirmarTipos DEF NoPeao
  <2>2. QED
    BY <1>1, <2>1, ConfirmarSorteia
<1>4. QED
  BY <1>1, <1>2, <1>3, ConfirmarTipos DEF Confirma, NoPeao

LEMMA AtravessaFatos ==
  ASSUME Tipos, NEW j, NEW c \in Celulas, AtravessarOEscuro(j, c)
  PROVE  Atravessa(c)
<1>1. /\ j = Ativo /\ ~Comecando /\ ~turno.confirmada /\ ~turno.atravessou /\ jogadores[Ativo].baixa
      /\ NoPeao \in Mesa(tab) /\ turno.inicio \in {Nada, NoPeao}
      /\ \E b \in VagasDisponiveis(tab, NoPeao) : c = Vizinha(CelulaDe(tab, NoPeao), b)
  BY AtravessarTipos DEF PodeAtravessar, SemPassoDefinitivo, DaVez, Ativo, Comecando, NoPeao, NaPeca
<1>2. c \in Vizinhas(CelulaDe(tab, NoPeao))
  <2>1. VagasDisponiveis(tab, NoPeao) \subseteq Bordas
    BY <1>1, VagaBorda DEF Tipos
  <2>2. QED
    BY <1>1, <2>1 DEF Vizinhas
<1>3. SorteioUnico(c)
  <2>1. VagasDisponiveis(tab, NoPeao) \subseteq Livres(tab, NoPeao)
    BY DEF VagasDisponiveis, Livres
  <2>2. PICK luz : luz = Luz(tab, jogadores)
    OBVIOUS
  <2>3. PICK n : n = GerarRecebidas(tab, NoPeao, TRUE, luz, c)
    OBVIOUS
  <2>4. tab' = ComSelecao(n, j)
    BY <1>1, <2>2, <2>3 DEF AtravessarOEscuro, NaPeca, NoPeao, Ativo
  <2>5. Unica(Pendentes(n))
    <3>1. PICK t, p : t = tab /\ p = NoPeao
      OBVIOUS
    <3>2. Bom(t) /\ p \in Mesa(t) /\ n = GerarRecebidas(t, p, TRUE, luz, c)
      BY <1>1, <2>3, <3>1 DEF Tipos
    <3>3. QED
      BY <3>2, SorteioNoEscuro
  <2>6. Pendentes(tab') = Pendentes(n)
    BY <2>3, <2>4 DEF ComSelecao, GerarRecebidas, Pendentes, Tipos, Bom, Tabuleiros
  <2>7. QED
    BY <1>1, <2>1, <2>5, <2>6 DEF SorteioUnico
<1>4. QED
  BY <1>1, <1>2, <1>3, AtravessarTipos DEF Atravessa

(* Every step, by its kind.                                                *)
NaMesmaVez ==
  \/ Seleciona \/ Gira \/ \E p : PoeInicial(p) \/ PoeRecebida(p) \/ PoePeao(p) \/ Move(p)
  \/ \E r, b : EscolheVaga(r, b)
  \/ \E c : Atravessa(c)
  \/ Confirma \/ Abandona

LEMMA PassoPorTipo ==
  ASSUME Tipos, tab.peao \in {Nada, Ativo}, Passo
  PROVE  NaMesmaVez \/ (Passa /\ PassaCompleta)
<1>1. PICK j \in Jogadores :
        \/ \E p : SelecionarAPeca(j, p)
        \/ \E p \in PecasEmJogo, passo \in {Horario, AntiHorario} : GirarAPeca(j, p, passo)
        \/ FinalizarManipulacao(j) \/ SelecionarOPeao(j) \/ DesselecionarOPeao(j)
        \/ \E p, c : c \in Celulas /\ PosicionarAInicial(j, p, c)
        \/ \E p, c : c \in Celulas /\ EncaixarInicialDoBot(j, p, c)
        \/ \E p, c : PosicionarARecebida(j, p, c)
        \/ \E p, c : EncaixarRecebidaDoBot(j, p, c)
        \/ \E r, b : EscolherAVaga(j, r, b)
        \/ \E p : p \in Mesa(tab) /\ PosicionarOPeao(j, p)
        \/ \E p : MoverOPeao(j, p)
        \/ \E c : c \in Celulas /\ AtravessarOEscuro(j, c)
        \/ Permanecer(j) \/ ConfirmarPosicao(j) \/ EncerrarTurno(j) \/ Desistir(j)
  BY PassoDosRamos
<1>2. Horario \in Int /\ AntiHorario \in Int
  BY DEF Horario, AntiHorario
<1>3. CASE \/ \E p : SelecionarAPeca(j, p)
           \/ FinalizarManipulacao(j) \/ SelecionarOPeao(j) \/ DesselecionarOPeao(j)
  BY <1>3, SelecionaFatos DEF NaMesmaVez
<1>4. CASE \E p \in PecasEmJogo, passo \in {Horario, AntiHorario} : GirarAPeca(j, p, passo)
  BY <1>2, <1>4, GiraFatos DEF NaMesmaVez
<1>5. CASE \E p, c : c \in Celulas /\ (PosicionarAInicial(j, p, c) \/ EncaixarInicialDoBot(j, p, c))
  BY <1>5, PoeInicialFatos DEF NaMesmaVez
<1>6. CASE \E p, c : PosicionarARecebida(j, p, c) \/ EncaixarRecebidaDoBot(j, p, c)
  BY <1>6, PoeRecebidaFatos DEF NaMesmaVez
<1>7. CASE \E r, b : EscolherAVaga(j, r, b)
  BY <1>7, EscolheVagaFatos DEF NaMesmaVez
<1>8. CASE \E p : p \in Mesa(tab) /\ PosicionarOPeao(j, p)
  BY <1>8, PoePeaoFatos DEF NaMesmaVez
<1>9. CASE \E p : MoverOPeao(j, p)
  BY <1>9, MoveFatos DEF NaMesmaVez
<1>10. CASE \E c : c \in Celulas /\ AtravessarOEscuro(j, c)
  BY <1>10, AtravessaFatos DEF NaMesmaVez
<1>11. CASE ConfirmarPosicao(j)
  BY <1>11, ConfirmaFatos DEF NaMesmaVez
<1>12. CASE Desistir(j) /\ j # Ativo
  BY <1>12, AbandonaFatos DEF NaMesmaVez
<1>13. CASE Permanecer(j) \/ EncerrarTurno(j) \/ (Desistir(j) /\ j = Ativo)
  BY <1>13, PassaFatos, PassaCompletaFatos
<1>14. QED
  BY <1>1, <1>3, <1>4, <1>5, <1>6, <1>7, <1>8, <1>9, <1>10, <1>11, <1>12, <1>13

-----------------------------------------------------------------------------
(* Whose turn it is.                                                       *)

(* The pawn that is selected is that of the active Player; what the turn   *)
(* remembers of the board is no piece that is off it; pieces are pending   *)
(* after a first placing, a confirmation or a crossing only.               *)
NaVez ==
  /\ tab.peao \in {Nada, Ativo}
  /\ turno.inicio \notin Fora(tab) /\ turno.travessia \notin Fora(tab)
  /\ tab.manipulacao \notin Fora(tab)
  /\ \A k \in DOMAIN jogadores : ~jogadores[k].primeiroTurno => tab.peoes[k] # Nada
  /\ ~turno.atravessou => turno.travessia = Nada
  /\ turno.atravessou => ~Comecando
  /\ Pendentes(tab) # {} => Definida \/ turno.atravessou

LEMMA ForaPecas ==
  ASSUME NEW t, Bom(t)
  PROVE  Fora(t) \subseteq Pecas /\ Nada \notin Fora(t) /\ Mesa(t) \cap Fora(t) = {}
<1>1. t \in Tabuleiros /\ Fora(t) \cap Mesa(t) = {}
  BY ForaDaMesa DEF Bom
<1>2. \A i \in DOMAIN t.caixa : t.caixa[i] \in PecasDaCaixa
  <2>1. t.caixa \in Seq(PecasDaCaixa)
    BY <1>1 DEF Tabuleiros
  <2>2. QED
    BY <2>1
<1>3. Fora(t) \subseteq PecasIniciais \cup PecasDaCaixa
  BY <1>1, <1>2, MesaDe DEF Fora, PecasDa
<1>4. QED
  BY <1>1, <1>3, TiposDistintos DEF Pecas

(* A step that does not pass the turn on keeps the shape of the board and  *)
(* what the turn began with.                                               *)
Segue ==
  /\ turno'.ativo = turno.ativo /\ turno'.inicio = turno.inicio
  /\ turno'.rodada = turno.rodada
  /\ turno.ativo \in DOMAIN jogadores' /\ DOMAIN jogadores' \subseteq DOMAIN jogadores
  /\ \A k \in DOMAIN jogadores' :
       /\ jogadores'[k].primeiroTurno = jogadores[k].primeiroTurno
       /\ k # turno.ativo => tab'.peoes[k] = tab.peoes[k]
       /\ tab.peoes[k] # Nada => tab'.peoes[k] # Nada
  /\ Fora(tab') \subseteq Fora(tab) /\ Mesa(tab') \subseteq Mesa(tab) \cup Fora(tab)
  /\ \A q \in Mesa(tab) \cap Mesa(tab') : CelulaDe(tab', q) = CelulaDe(tab, q)

LEMMA MesmaVezSegue ==
  ASSUME Tipos, Tipos', NaMesmaVez
  PROVE  Segue
<1>1. /\ turno.ativo \in DOMAIN jogadores /\ DOMAIN tab.peoes = DOMAIN jogadores
      /\ DOMAIN tab'.peoes = DOMAIN jogadores' /\ turno \in Turno
      /\ Nada \notin Pecas /\ PecasIniciais \subseteq Pecas /\ PecasDaCaixa \subseteq Pecas
  BY TiposDistintos DEF Tipos, Pecas
<1>2. \A q \in Mesa(tab) \cap Mesa(tab') :
        tab'.posicionadas[q] = tab.posicionadas[q] => CelulaDe(tab', q) = CelulaDe(tab, q)
  BY DEF CelulaDe
<1>3. CASE Seleciona
  BY <1>1, <1>2, <1>3 DEF Seleciona, Segue, Delegado, MesmasForas, Fora, Mesa
<1>4. CASE Gira
  BY <1>1, <1>4 DEF Gira, Segue, Delegado, MesmasForas, Fora
<1>5. CASE \E p : PoeInicial(p)
  <2>1. PICK p : PoeInicial(p)
    BY <1>5
  <2>2. Pendentes(tab') = Pendentes(tab)
    BY <2>1 DEF PoeInicial, Pendentes
  <2>3. QED
    BY <1>1, <1>2, <2>1, <2>2 DEF PoeInicial, Segue, Delegado, Fora
<1>6. CASE \E p : PoeRecebida(p)
  <2>1. PICK p : PoeRecebida(p)
    BY <1>6
  <2>2. turno'.ativo = turno.ativo /\ turno'.inicio = turno.inicio /\ turno'.rodada = turno.rodada
    BY <1>1, <2>1 DEF PoeRecebida, Turno
  <2>3. QED
    BY <1>1, <1>2, <2>1, <2>2 DEF PoeRecebida, Segue, Fora
<1>7. CASE \E p : PoePeao(p)
  <2>1. PICK p : PoePeao(p)
    BY <1>7
  <2>2. p # Nada
    <3>1. Mesa(tab) \subseteq Pecas
      BY MesaDe DEF Tipos, Bom
    <3>2. QED
      BY <1>1, <2>1, <3>1 DEF PoePeao
  <2>3. \A k \in DOMAIN jogadores : k # turno.ativo => tab'.peoes[k] = tab.peoes[k]
    BY <1>1, <2>1 DEF PoePeao, Ativo
  <2>4. tab'.peoes[turno.ativo] = p
    BY <1>1, <2>1 DEF PoePeao, Ativo
  <2>5. QED
    BY <1>1, <1>2, <2>1, <2>2, <2>3, <2>4 DEF PoePeao, Segue
<1>8. CASE \E p : Move(p)
  <2>1. PICK p : Move(p)
    BY <1>8
  <2>2. p # Nada
    <3>1. Mesa(tab) \subseteq Pecas
      BY MesaDe DEF Tipos, Bom
    <3>2. QED
      BY <1>1, <2>1, <3>1 DEF Move, VizinhasConectadas
  <2>3. \A k \in DOMAIN jogadores : k # turno.ativo => tab'.peoes[k] = tab.peoes[k]
    BY <1>1, <2>1 DEF Move, Ativo
  <2>4. tab'.peoes[turno.ativo] = p
    BY <1>1, <2>1 DEF Move, Ativo
  <2>5. QED
    BY <1>1, <1>2, <2>1, <2>2, <2>3, <2>4 DEF Move, Segue, Mesa
<1>9. CASE \E r, b : EscolheVaga(r, b)
  BY <1>1, <1>2, <1>9 DEF EscolheVaga, Segue, Delegado, MesmasForas, Fora, Mesa
<1>10. CASE \E c : Atravessa(c)
  <2>1. PICK c : Atravessa(c)
    BY <1>10
  <2>2. turno'.ativo = turno.ativo /\ turno'.inicio = turno.inicio /\ turno'.rodada = turno.rodada
    BY <1>1, <2>1 DEF Atravessa, Turno
  <2>3. QED
    BY <1>1, <1>2, <2>1, <2>2 DEF Atravessa, Segue, Mesa
<1>11. CASE Confirma
  <2>1. turno'.ativo = turno.ativo /\ turno'.inicio = turno.inicio /\ turno'.rodada = turno.rodada
    BY <1>1, <1>11 DEF Confirma, Turno
  <2>2. QED
    BY <1>1, <1>2, <1>11, <2>1 DEF Confirma, Segue
<1>12. CASE Abandona
  BY <1>1, <1>2, <1>12 DEF Abandona, Segue, Fora, Ativo
<1>13. QED
  BY <1>3, <1>4, <1>5, <1>6, <1>7, <1>8, <1>9, <1>10, <1>11, <1>12 DEF NaMesmaVez

LEMMA NaVezFica ==
  ASSUME Tipos, Tipos', NaVez, NaMesmaVez
  PROVE  NaVez'
<1> USE MesmaVezSegue
<1>1. Segue
  OBVIOUS
<1>2. /\ turno \in Turno /\ Fora(tab') \cap Mesa(tab') = {} /\ Nada \notin Fora(tab')
      /\ turno.ativo \in DOMAIN jogadores /\ Bom(tab) /\ Bom(tab')
      /\ Nada \notin Fora(tab)
  BY ForaPecas DEF Tipos
<1>3. turno'.inicio \notin Fora(tab')
  BY <1>1 DEF NaVez, Segue
<1>4. \A k \in DOMAIN jogadores' : ~jogadores'[k].primeiroTurno => tab'.peoes[k] # Nada
  BY <1>1 DEF NaVez, Segue
<1>5. (Comecando)' <=> Comecando
  BY <1>1 DEF Segue, Comecando, Ativo
<1>6. (Ativo)' = Ativo /\ Ativo = turno.ativo
  BY <1>1 DEF Segue, Ativo
<1> DEFINE Resto1 ==
  /\ tab'.peao \in {Nada, Ativo}
  /\ turno'.travessia \notin Fora(tab') /\ tab'.manipulacao \notin Fora(tab')
  /\ ~turno'.atravessou => turno'.travessia = Nada
  /\ turno'.atravessou => ~Comecando
  /\ Pendentes(tab') # {} => Comecando \/ turno'.confirmada \/ turno'.atravessou
<1>7. Resto1
  <2>1. CASE Seleciona
    <3>1. Pendentes(tab') = Pendentes(tab) /\ turno' = turno
      BY <2>1 DEF Seleciona, MesmasForas, Delegado
    <3>2. QED
      BY <1>1, <1>2, <2>1, <3>1 DEF Seleciona, NaVez, Segue, Definida
  <2>2. CASE Gira
    BY <1>1, <1>2, <2>2 DEF Gira, NaVez, Segue, Delegado, MesmasForas, Definida
  <2>3. CASE \E p : PoeInicial(p)
    <3>1. PICK p : PoeInicial(p)
      BY <2>3
    <3>2. Pendentes(tab') = Pendentes(tab) /\ p \in Mesa(tab') /\ tab'.manipulacao = p /\ turno' = turno
          /\ tab'.peao = tab.peao
      BY <3>1 DEF PoeInicial, Pendentes, Delegado
    <3>3. QED
      BY <1>1, <1>2, <3>2 DEF NaVez, Segue, Definida
  <2>4. CASE \E p : PoeRecebida(p)
    <3>1. PICK p : PoeRecebida(p)
      BY <2>4
    <3>2. /\ p \in Mesa(tab') /\ tab'.manipulacao \in {Nada, p}
          /\ turno'.atravessou = turno.atravessou /\ turno'.confirmada = turno.confirmada
          /\ turno'.travessia = IF turno.atravessou THEN p ELSE turno.travessia
          /\ Pendentes(tab) # {} /\ tab'.peao \in {tab.peao, Ativo}
      BY <1>2, <3>1 DEF PoeRecebida, Turno
    <3>3. tab'.peao \in {Nada, Ativo}
      BY <3>2 DEF NaVez
    <3>4. QED
      BY <1>1, <1>2, <3>2, <3>3 DEF NaVez, Segue, Definida
  <2>5. CASE \E p : PoePeao(p)
    <3>1. PICK p : PoePeao(p)
      BY <2>5
    <3>2. QED
      BY <1>1, <1>2, <3>1 DEF PoePeao, NaVez, Segue, Definida
  <2>6. CASE \E p : Move(p)
    <3>1. PICK p : Move(p)
      BY <2>6
    <3>2. QED
      BY <1>1, <1>2, <3>1, ParcialVazia DEF Move, NaVez, Segue, Definida, Pendentes
  <2>7. CASE \E r, b : EscolheVaga(r, b)
    <3>1. PICK r, b : EscolheVaga(r, b)
      BY <2>7
    <3>2. tab'.peao \in {Nada, Ativo} /\ tab'.manipulacao = Nada /\ turno' = turno
          /\ Pendentes(tab') = Pendentes(tab)
      BY <3>1 DEF EscolheVaga, NaVez, Delegado, MesmasForas
    <3>3. QED
      BY <1>1, <1>2, <3>2 DEF NaVez, Segue, Definida
  <2>8. CASE \E c : Atravessa(c)
    <3>1. PICK c : Atravessa(c)
      BY <2>8
    <3>2. /\ turno'.travessia = turno.travessia /\ turno'.confirmada = turno.confirmada
          /\ turno'.atravessou = (tab'.recebidas # <<>>)
      BY <1>2, <3>1 DEF Atravessa, Turno
    <3>3. Pendentes(tab') # {} <=> turno'.atravessou
      <4>1. PICK n : n = tab'
        OBVIOUS
      <4>2. n \in Tabuleiros
        BY <1>2, <4>1 DEF Bom
      <4>3. n.recebidas = <<>> <=> Pendentes(n) = {}
        BY <4>2, MesaDe
      <4>4. QED
        BY <3>2, <4>1, <4>3
    <3>4. /\ tab'.manipulacao = tab.manipulacao /\ tab'.peao \in {tab.peao, Ativo}
          /\ ~Comecando /\ ~turno.atravessou
      BY <3>1 DEF Atravessa
    <3>5. QED
      BY <1>1, <1>2, <3>2, <3>3, <3>4 DEF NaVez, Segue
  <2>9. CASE Confirma
    <3>1. /\ turno'.travessia = turno.travessia /\ turno'.confirmada
          /\ turno'.atravessou = turno.atravessou
      BY <1>2, <2>9 DEF Confirma, Turno
    <3>2. QED
      BY <1>1, <1>2, <2>9, <3>1 DEF Confirma, NaVez, Segue
  <2>10. CASE Abandona
    <3>1. Pendentes(tab') = Pendentes(tab)
      BY <2>10 DEF Abandona, Pendentes
    <3>2. QED
      BY <1>1, <1>2, <2>10, <3>1 DEF Abandona, NaVez, Segue, Definida
  <2>11. QED
    BY <2>1, <2>2, <2>3, <2>4, <2>5, <2>6, <2>7, <2>8, <2>9, <2>10 DEF NaMesmaVez
<1>8. QED
  <2>1. /\ turno'.inicio \notin Fora(tab')
        /\ (Definida)' <=> Comecando \/ turno'.confirmada
    BY <1>3, <1>5 DEF Definida
  <2>2. QED
    BY <1>4, <1>5, <1>6, <1>7, <2>1 DEF NaVez

LEMMA NaVezPassa ==
  ASSUME Tipos, Tipos', NaVez, Passa
  PROVE  NaVez'
<1>1. /\ Bom(tab') /\ DOMAIN tab'.peoes = DOMAIN jogadores'
      /\ turno'.ativo \in DOMAIN jogadores'
  BY DEF Tipos
<1>2. tab'.peoes[turno'.ativo] \notin Fora(tab') /\ Nada \notin Fora(tab')
  <2>1. tab'.peoes[turno'.ativo] \in Mesa(tab') \cup {Nada}
    BY <1>1 DEF Bom, PeoesSobrePecas
  <2>2. QED
    BY <1>1, <2>1, ForaPecas
<1>3. \A k \in DOMAIN jogadores' : ~jogadores'[k].primeiroTurno => tab'.peoes[k] # Nada
  BY DEF NaVez, Passa
<1>4. Pendentes(tab') = {}
  BY ParcialVazia DEF Passa, Pendentes
<1>5. QED
  BY <1>1, <1>2, <1>3, <1>4 DEF NaVez, Passa

-----------------------------------------------------------------------------
(* One house per turn.                                                     *)

(* A cell the pawn may go to, seen from the piece the turn began on.       *)
Destino(c) == turno.inicio \in Mesa(tab) => c \in Vizinhas(CelulaDe(tab, turno.inicio))

(* While a crossing is being made, its Player is in Baixa and the crossing *)
(* has a piece in the hand or on the board, on or for a neighbouring cell. *)
UmaCasa ==
  /\ turno.atravessou /\ ~turno.confirmada =>
       /\ jogadores[Ativo].baixa
       /\ turno.travessia = Nada => Pendentes(tab) # {}
       /\ \A r \in Pendentes(tab) : Destino(tab.recebidas[r].alvo)
       /\ turno.travessia \in Mesa(tab) => Destino(CelulaDe(tab, turno.travessia))
  /\ ~Comecando /\ turno.inicio \in Mesa(tab) =>
       CelulaDe(tab, NoPeao) \in
         {CelulaDe(tab, turno.inicio)} \cup Vizinhas(CelulaDe(tab, turno.inicio))

LEMMA UmaCasaFica ==
  ASSUME Tipos, Tipos', NaVez, UmaCasa, NaMesmaVez
  PROVE  UmaCasa'
<1>1. Segue
  BY MesmaVezSegue
<1>2. /\ turno \in Turno /\ turno.ativo \in DOMAIN jogadores
      /\ DOMAIN tab.peoes = DOMAIN jogadores /\ DOMAIN tab'.peoes = DOMAIN jogadores'
      /\ turno'.inicio = turno.inicio /\ turno'.ativo = turno.ativo /\ turno.ativo \in DOMAIN jogadores'
      /\ Nada \notin Fora(tab) /\ Mesa(tab) \cap Fora(tab) = {} /\ Bom(tab) /\ Bom(tab')
  BY <1>1, ForaPecas DEF Tipos, Segue
<1>3. (Comecando)' <=> Comecando
  BY <1>1 DEF Segue, Comecando, Ativo
<1>4. turno.inicio \in Mesa(tab') =>
        turno.inicio \in Mesa(tab) /\ CelulaDe(tab', turno.inicio) = CelulaDe(tab, turno.inicio)
  BY <1>1, <1>2 DEF NaVez, Segue
<1>5. ASSUME NEW c, Destino(c)
      PROVE  turno.inicio \in Mesa(tab') => c \in Vizinhas(CelulaDe(tab', turno.inicio))
  BY <1>4, <1>5 DEF Destino
<1>6. turno.travessia \in Mesa(tab') =>
        turno.travessia \in Mesa(tab) /\ CelulaDe(tab', turno.travessia) = CelulaDe(tab, turno.travessia)
  BY <1>1, <1>2 DEF NaVez, Segue
<1> DEFINE Chega(c) == turno.inicio \in Mesa(tab') => c \in Vizinhas(CelulaDe(tab', turno.inicio))
           Cruza == /\ jogadores'[turno.ativo].baixa
                    /\ turno'.travessia = Nada => Pendentes(tab') # {}
                    /\ \A r \in Pendentes(tab') : Chega(tab'.recebidas[r].alvo)
                    /\ turno'.travessia \in Mesa(tab') => Chega(CelulaDe(tab', turno'.travessia))
           Perto == CelulaDe(tab', tab'.peoes[turno.ativo]) \in
                      {CelulaDe(tab', turno.inicio)} \cup Vizinhas(CelulaDe(tab', turno.inicio))
<1>7. ASSUME turno' = turno, UmaCasa, ~Comecando,
             jogadores'[turno.ativo].baixa = jogadores[turno.ativo].baixa,
             Pendentes(tab') = Pendentes(tab),
             \A r \in Pendentes(tab) : tab'.recebidas[r].alvo = tab.recebidas[r].alvo
      PROVE  turno'.atravessou /\ ~turno'.confirmada => Cruza
  BY <1>5, <1>6, <1>7 DEF UmaCasa, Ativo
<1>8. turno'.atravessou /\ ~turno'.confirmada => Cruza
  <2> SUFFICES ASSUME turno'.atravessou, ~turno'.confirmada
               PROVE  Cruza
    OBVIOUS
  <2>1. CASE Seleciona
    <3>1. turno' = turno /\ jogadores' = jogadores /\ Pendentes(tab') = Pendentes(tab)
          /\ tab'.recebidas = tab.recebidas
      BY <2>1 DEF Seleciona, Delegado, MesmasForas
    <3>2. ~Comecando
      BY <3>1 DEF NaVez
    <3>3. QED
      BY <1>7, <3>1, <3>2
  <2>2. CASE Gira
    <3>1. turno' = turno /\ jogadores' = jogadores /\ Pendentes(tab') = Pendentes(tab)
          /\ \A r \in Pendentes(tab) : tab'.recebidas[r].alvo = tab.recebidas[r].alvo
      BY <2>2 DEF Gira, Delegado, MesmasForas
    <3>2. ~Comecando
      BY <3>1 DEF NaVez
    <3>3. QED
      BY <1>7, <3>1, <3>2
  <2>3. CASE \E p : PoeInicial(p)
    BY <2>3 DEF PoeInicial, NaVez, Delegado
  <2>4. CASE \E p : PoeRecebida(p)
    <3>1. PICK p : PoeRecebida(p)
      BY <2>4
    <3>2. turno.atravessou /\ ~turno.confirmada /\ turno'.travessia = p
      BY <1>2, <3>1 DEF PoeRecebida, Turno
    <3>3. p \in Pendentes(tab) /\ CelulaDe(tab', p) = tab.recebidas[p].alvo /\ p # Nada
          /\ jogadores' = jogadores
      BY <3>1, TiposDistintos DEF PoeRecebida, Pecas
    <3>4. \A r \in Pendentes(tab') : r \in Pendentes(tab) /\ tab'.recebidas[r].alvo = tab.recebidas[r].alvo
      BY <3>1 DEF PoeRecebida
    <3>5. \A r \in Pendentes(tab) : Destino(tab.recebidas[r].alvo)
      BY <3>2 DEF UmaCasa
    <3>6. jogadores'[turno.ativo].baixa
      BY <3>2, <3>3 DEF UmaCasa, Ativo
    <3>7. QED
      BY <1>5, <3>2, <3>3, <3>4, <3>5, <3>6
  <2>5. CASE \E p : PoePeao(p)
    BY <2>5 DEF PoePeao, NaVez
  <2>6. CASE \E p : Move(p)
    <3>1. PICK p : Move(p)
      BY <2>6
    <3>2. turno' = turno /\ jogadores' = jogadores /\ tab'.recebidas = tab.recebidas /\ ~Comecando
      BY <3>1 DEF Move
    <3>3. QED
      BY <1>7, <3>2 DEF Pendentes
  <2>7. CASE \E r, b : EscolheVaga(r, b)
    <3>1. PICK r, b : EscolheVaga(r, b)
      BY <2>7
    <3>2. turno' = turno /\ jogadores' = jogadores /\ Pendentes(tab') = Pendentes(tab)
      BY <3>1 DEF EscolheVaga, Delegado, MesmasForas
    <3>3. ~Comecando /\ jogadores[Ativo].baixa /\ Ativo # Nada
      BY <1>2, <3>2, PartidaAssumption DEF NaVez, UmaCasa, Ativo, Turno, Jogadores
    <3>4. tab'.peao = Ativo
      BY <3>1 DEF EscolheVaga, NaVez
    <3>5. PecaSob(tab, Ativo) \in Mesa(tab) => PecaSob(tab, Ativo) = NoPeao
      <4>1. Nada \notin Mesa(tab)
        BY <1>2, MesaDe, TiposDistintos DEF Bom
      <4>2. QED
        BY <4>1 DEF PecaSob, NoPeao
    <3>6. tab'.recebidas[r].alvo = Vizinha(CelulaDe(tab, NoPeao), b) /\ r \in Pendentes(tab)
      BY <3>1, <3>4, <3>5 DEF EscolheVaga
    <3>7. turno.inicio \in Mesa(tab) => tab'.recebidas[r].alvo = tab.recebidas[r].alvo
      <4>1. VagaPermitida(Ativo, r, b)
        BY <3>1 DEF EscolheVaga
      <4>2. turno.inicio \in Mesa(tab) => tab.recebidas[r].alvo \in Vizinhas(CelulaDe(tab, turno.inicio))
        BY <3>2, <3>6 DEF UmaCasa, Destino
      <4>3. turno.inicio \in Mesa(tab) => tab.recebidas[r].alvo # Nada
        BY <1>2, <4>2, MesaDe, VizinhasCelulas, TiposDistintos DEF Bom
      <4>4. QED
        BY <3>3, <3>6, <4>1, <4>3 DEF VagaPermitida, NaPeca, NoPeao
    <3>8. \A q \in Pendentes(tab) \ {r} : tab'.recebidas[q] = tab.recebidas[q]
      BY <3>1 DEF EscolheVaga
    <3>9. \A q \in Pendentes(tab) : Destino(tab'.recebidas[q].alvo)
      BY <3>2, <3>7, <3>8 DEF UmaCasa, Destino
    <3>10. QED
      BY <1>5, <1>6, <3>2, <3>9 DEF UmaCasa, Ativo
  <2>8. CASE \E c : Atravessa(c)
    <3>1. PICK c : Atravessa(c)
      BY <2>8
    <3>2. /\ turno'.travessia = Nada /\ jogadores' = jogadores /\ tab'.recebidas # <<>>
          /\ jogadores[turno.ativo].baixa
      BY <1>2, <3>1 DEF Atravessa, Turno, NaVez, Ativo
    <3>3. Pendentes(tab') # {}
      <4>1. PICK n : n = tab'
        OBVIOUS
      <4>2. n \in Tabuleiros /\ n.recebidas # <<>>
        BY <1>2, <3>2, <4>1 DEF Bom
      <4>3. Pendentes(n) # {}
        BY <4>2, MesaDe
      <4>4. QED
        BY <4>1, <4>3
    <3>4. Nada \notin Mesa(tab') /\ Nada \notin Mesa(tab)
      <4>1. PICK n : n = tab'
        OBVIOUS
      <4>2. n \in Tabuleiros /\ tab \in Tabuleiros
        BY <1>2, <4>1 DEF Bom
      <4>3. Nada \notin Mesa(n) /\ Nada \notin Mesa(tab)
        BY <4>2, MesaDe, TiposDistintos
      <4>4. QED
        BY <4>1, <4>3
    <3>5. Destino(c)
      BY <3>1, <3>4 DEF Atravessa, Destino, NoPeao
    <3>6. \A r \in Pendentes(tab') : tab'.recebidas[r].alvo = c
      BY <3>1 DEF Atravessa
    <3>7. QED
      BY <1>5, <3>2, <3>3, <3>4, <3>5, <3>6
  <2>9. CASE Confirma
    BY <1>2, <2>9 DEF Confirma, Turno
  <2>10. CASE Abandona
    <3>1. /\ turno' = turno /\ jogadores'[turno.ativo] = jogadores[turno.ativo]
          /\ tab'.recebidas = tab.recebidas
      BY <1>2, <2>10 DEF Abandona
    <3>2. ~Comecando
      BY <3>1 DEF NaVez
    <3>3. QED
      BY <1>7, <3>1, <3>2 DEF Pendentes
  <2>11. QED
    BY <2>1, <2>2, <2>3, <2>4, <2>5, <2>6, <2>7, <2>8, <2>9, <2>10 DEF NaMesmaVez
<1>9. ~Comecando /\ turno.inicio \in Mesa(tab') => Perto
  <2> SUFFICES ASSUME ~Comecando, turno.inicio \in Mesa(tab')
               PROVE  Perto
    OBVIOUS
  <2>1. /\ turno.inicio \in Mesa(tab) /\ CelulaDe(tab', turno.inicio) = CelulaDe(tab, turno.inicio)
        /\ CelulaDe(tab, NoPeao) \in
             {CelulaDe(tab, turno.inicio)} \cup Vizinhas(CelulaDe(tab, turno.inicio))
    BY <1>4 DEF UmaCasa
  <2>2. NoPeao \in Mesa(tab) /\ NoPeao # Nada
    BY <1>2 DEF NaVez, NoPeao, Ativo, Comecando, Bom, PeoesSobrePecas
  <2>3. CASE tab'.peoes[turno.ativo] = NoPeao
    <3>1. NoPeao \in Mesa(tab')
      BY <1>2, <2>2, <2>3 DEF Bom, PeoesSobrePecas
    <3>2. CelulaDe(tab', NoPeao) = CelulaDe(tab, NoPeao)
      BY <1>1, <2>2, <3>1 DEF Segue
    <3>3. QED
      BY <2>1, <2>3, <3>2
  <2>4. CASE \E p : Move(p)
    <3>1. PICK p : Move(p)
      BY <2>4
    <3>2. /\ tab'.peoes[turno.ativo] = p /\ p \in Mesa(tab) /\ tab'.posicionadas = tab.posicionadas
          /\ NaZona(p) /\ Pendentes(tab) = {} /\ ~turno.confirmada
      BY <1>2, <3>1, ParcialVazia DEF Move, Ativo, VizinhasConectadas, Pendentes
    <3>3. CelulaDe(tab', p) = CelulaDe(tab, p)
      BY <3>2 DEF CelulaDe
    <3>4. CASE turno.atravessou
      <4>1. turno.travessia = p
        BY <3>2, <3>4 DEF NaZona, UmaCasa
      <4>2. QED
        BY <2>1, <3>2, <3>3, <3>4, <4>1 DEF UmaCasa, Destino
    <3>5. CASE ~turno.atravessou
      <4>1. p = turno.inicio \/ \E b \in Bordas : LigadaPela(tab, turno.inicio, b, p)
        BY <2>1, <3>2, <3>5 DEF NaZona, VizinhasConectadas
      <4>2. CelulaDe(tab, p) \in {CelulaDe(tab, turno.inicio)} \cup Vizinhas(CelulaDe(tab, turno.inicio))
        BY <4>1 DEF LigadaPela, Vizinhas
      <4>3. QED
        BY <2>1, <3>2, <3>3, <4>2
    <3>6. QED
      BY <3>4, <3>5
  <2>5. tab'.peoes[turno.ativo] = NoPeao \/ \E p : Move(p)
    BY <1>2 DEF NaMesmaVez, Seleciona, Gira, PoeInicial, PoeRecebida, PoePeao, EscolheVaga, Atravessa,
                Confirma, Abandona, NoPeao, Ativo
  <2>6. QED
    BY <2>3, <2>4, <2>5
<1>10. QED
  BY <1>2, <1>3, <1>8, <1>9 DEF UmaCasa, Destino, Ativo, NoPeao

LEMMA UmaCasaPassa ==
  ASSUME Tipos, Tipos', Passa
  PROVE  UmaCasa'
  BY DEF Passa, UmaCasa, NoPeao, Ativo

-----------------------------------------------------------------------------
(* What is connected to the piece under the pawn.                          *)

LEMMA DeltaDaVizinha ==
  ASSUME NEW x \in 0 .. Lado - 1
  PROVE  /\ DeltaToroidal(x, (x + 1) % Lado) = 1
         /\ DeltaToroidal(x, (x - 1) % Lado) = -1
         /\ DeltaToroidal(x, x % Lado) = 0
<1>1. Lado \in Nat /\ Lado >= 3
  BY LadoAssumption
<1>2. \A y \in 0 .. Lado - 1 : y % Lado = y
  BY <1>1
<1>3. (-1) % Lado = Lado - 1 /\ Lado % Lado = 0 /\ (1 - Lado) % Lado = 1
  BY <1>1
<1>4. (x + 1) % Lado = (IF x = Lado - 1 THEN 0 ELSE x + 1)
  BY <1>1, <1>2, <1>3
<1>5. (x - 1) % Lado = (IF x = 0 THEN Lado - 1 ELSE x - 1)
  BY <1>1, <1>2, <1>3
<1>6. (((x + 1) % Lado) - x) % Lado = 1
  <2>1. CASE x = Lado - 1
    BY <1>1, <1>3, <1>4, <2>1
  <2>2. CASE x # Lado - 1
    <3>1. ((x + 1) % Lado) - x = 1
      BY <1>1, <1>4, <2>2
    <3>2. QED
      BY <1>1, <1>2, <3>1
  <2>3. QED
    BY <2>1, <2>2
<1>7. (((x - 1) % Lado) - x) % Lado = Lado - 1
  <2>1. CASE x = 0
    BY <1>1, <1>2, <1>5, <2>1
  <2>2. CASE x # 0
    <3>1. ((x - 1) % Lado) - x = -1
      BY <1>1, <1>5, <2>2
    <3>2. QED
      BY <1>3, <3>1
  <2>3. QED
    BY <2>1, <2>2
<1>8. ((x % Lado) - x) % Lado = 0
  <2>1. (x % Lado) - x = 0
    BY <1>1, <1>2
  <2>2. QED
    BY <1>1, <1>2, <2>1
<1>9. QED
  BY <1>1, <1>6, <1>7, <1>8 DEF DeltaToroidal

(* The edge that faces the neighbour over edge b is b, round the torus too.*)
LEMMA BordaDaVizinha == \A c \in Celulas, b \in Bordas : BordaVoltada(c, Vizinha(c, b)) = b
<1> SUFFICES ASSUME NEW x \in 0 .. Lado - 1, NEW y \in 0 .. Lado - 1, NEW b \in Bordas
             PROVE  BordaVoltada(<<x, y>>, Vizinha(<<x, y>>, b)) = b
  BY DEF Celulas
<1> DEFINE v == Vizinha(<<x, y>>, b)
           dl == DeltaToroidal(x, v[1])
           dc == DeltaToroidal(y, v[2])
<1>1. v = <<(x + Deslocamento(b)[1]) % Lado, (y + Deslocamento(b)[2]) % Lado>>
  BY DEF Vizinha, Normalizar
<1>2. CASE b = 0
  <2>1. v = <<(x - 1) % Lado, y % Lado>>
    BY <1>1, <1>2 DEF Deslocamento
  <2>2. dl = -1 /\ dc = 0
    BY <2>1, DeltaDaVizinha
  <2>3. QED
    BY <1>2, <2>2 DEF BordaVoltada, ModuloDe
<1>3. CASE b = 1
  <2>1. v = <<x % Lado, (y + 1) % Lado>>
    BY <1>1, <1>3 DEF Deslocamento
  <2>2. dl = 0 /\ dc = 1
    BY <2>1, DeltaDaVizinha
  <2>3. QED
    BY <1>3, <2>2 DEF BordaVoltada, ModuloDe
<1>4. CASE b = 2
  <2>1. v = <<(x + 1) % Lado, y % Lado>>
    BY <1>1, <1>4 DEF Deslocamento
  <2>2. dl = 1 /\ dc = 0
    BY <2>1, DeltaDaVizinha
  <2>3. QED
    BY <1>4, <2>2 DEF BordaVoltada, ModuloDe
<1>5. CASE b = 3
  <2>1. v = <<x % Lado, (y - 1) % Lado>>
    BY <1>1, <1>5 DEF Deslocamento
  <2>2. dl = 0 /\ dc = -1
    BY <2>1, DeltaDaVizinha
  <2>3. QED
    BY <1>5, <2>2 DEF BordaVoltada, ModuloDe
<1>6. QED
  BY <1>2, <1>3, <1>4, <1>5 DEF Bordas

(* A drawn piece is put on the board, and turned, while the turn is        *)
(* decided, or as the piece of the crossing; it is connected to the piece  *)
(* under the pawn wherever the pawn may have been when it was put there.   *)
PecaEncaixada ==
  tab.manipulacao \in Mesa(tab) \cap PecasDaCaixa =>
    /\ tab.peao = Ativo /\ NoPeao \in Mesa(tab)
    /\ Definida \/ (turno.atravessou /\ turno.travessia = tab.manipulacao)
    /\ NoPeao # tab.manipulacao /\ (Definida \/ NoPeao = turno.inicio) =>
         tab.manipulacao \in VizinhasConectadas(tab, NoPeao)

(* A vaga is an open edge of the piece under the pawn, which stays open.   *)
VagasAbertas ==
  \A r \in Pendentes(tab) : tab.recebidas[r].vaga # Nada =>
    /\ tab.peao = Ativo /\ NoPeao \in Mesa(tab)
    /\ tab.recebidas[r].vaga \in Aberturas(tab, NoPeao)
    /\ tab.recebidas[r].alvo = Vizinha(CelulaDe(tab, NoPeao), tab.recebidas[r].vaga)
    /\ tab.manipulacao # NoPeao

LEMMA MesmasAberturas ==
  ASSUME NEW t, NEW n, NEW p, n.posicionadas[p] = t.posicionadas[p]
  PROVE  Aberturas(n, p) = Aberturas(t, p) /\ CelulaDe(n, p) = CelulaDe(t, p)
  BY DEF Aberturas, CelulaDe

LEMMA MesmaConexao ==
  ASSUME NEW t, NEW n, NEW p, NEW q, q \in VizinhasConectadas(t, p), q \in Mesa(n),
         n.posicionadas[p] = t.posicionadas[p], n.posicionadas[q] = t.posicionadas[q]
  PROVE  q \in VizinhasConectadas(n, p)
<1>1. /\ Aberturas(n, p) = Aberturas(t, p) /\ CelulaDe(n, p) = CelulaDe(t, p)
      /\ Aberturas(n, q) = Aberturas(t, q) /\ CelulaDe(n, q) = CelulaDe(t, q)
  BY MesmasAberturas
<1>2. QED
  BY <1>1 DEF VizinhasConectadas, LigadaPela

(* A turn that is accepted keeps the connection.                           *)
LEMMA GiroConectado ==
  ASSUME NEW t \in Tabuleiros, NEW n, NEW p \in Mesa(t), NEW q \in Mesa(t), p # q,
         PecaSob(t, t.peao) = p, p # Nada, q \in VizinhasConectadas(t, p), q \in Mesa(n),
         n.posicionadas[p] = t.posicionadas[p], CelulaDe(n, q) = CelulaDe(t, q),
         GiroMantemConexao(t, q, n.posicionadas[q].orientacao)
  PROVE  q \in VizinhasConectadas(n, p)
<1>1. PICK b \in Bordas : LigadaPela(t, p, b, q)
  BY DEF VizinhasConectadas
<1>2. CelulaDe(t, p) \in Celulas
  BY MesaDe
<1>3. BordaVoltada(CelulaDe(t, p), CelulaDe(t, q)) = b /\ b # Nada
  BY <1>1, <1>2, BordaDaVizinha, TiposDistintos DEF LigadaPela
<1>4. Oposta(b) \in Aberturas(n, q)
  BY <1>3 DEF GiroMantemConexao, ConectaNaVaga, Aberturas
<1>5. /\ b \in Aberturas(n, p) /\ CelulaDe(n, q) = Vizinha(CelulaDe(n, p), b)
  BY <1>1, MesmasAberturas DEF LigadaPela
<1>6. QED
  BY <1>4, <1>5 DEF VizinhasConectadas, LigadaPela

(* The new values of what the two invariants read.                         *)
PecaEncaixadaApos ==
  tab'.manipulacao \in Mesa(tab') \cap PecasDaCaixa =>
    /\ tab'.peao = Ativo /\ tab'.peoes[Ativo] \in Mesa(tab')
    /\ Comecando \/ turno'.confirmada \/ (turno'.atravessou /\ turno'.travessia = tab'.manipulacao)
    /\ /\ tab'.peoes[Ativo] # tab'.manipulacao
       /\ Comecando \/ turno'.confirmada \/ tab'.peoes[Ativo] = turno.inicio
       => tab'.manipulacao \in VizinhasConectadas(tab', tab'.peoes[Ativo])
VagasAbertasApos ==
  \A r \in Pendentes(tab') : tab'.recebidas[r].vaga # Nada =>
    /\ tab'.peao = Ativo /\ tab'.peoes[Ativo] \in Mesa(tab')
    /\ tab'.recebidas[r].vaga \in Aberturas(tab', tab'.peoes[Ativo])
    /\ tab'.recebidas[r].alvo = Vizinha(CelulaDe(tab', tab'.peoes[Ativo]), tab'.recebidas[r].vaga)
    /\ tab'.manipulacao # tab'.peoes[Ativo]

LEMMA EncaixadaGira ==
  ASSUME Tipos, Tipos', NaVez, PecaEncaixada, VagasAbertas, Gira
  PROVE  PecaEncaixadaApos /\ VagasAbertasApos
<1>1. /\ tab \in Tabuleiros /\ turno' = turno /\ tab'.peoes[Ativo] = NoPeao /\ Mesa(tab') = Mesa(tab)
      /\ tab'.manipulacao = tab.manipulacao /\ Pendentes(tab') = Pendentes(tab)
      /\ Ativo # Nada /\ Ativo \in DOMAIN tab.peoes /\ Nada \notin Mesa(tab)
  BY MesaDe, TiposDistintos, PartidaAssumption DEF Gira, Delegado, MesmasForas, Tipos, Bom, NoPeao,
     Ativo, Turno, Jogadores
<1>2. tab.peao = Ativo => tab'.peao = Ativo
  BY <1>1 DEF Gira
<1>3. PecaEncaixadaApos
  <2>1. SUFFICES ASSUME tab.manipulacao \in Mesa(tab), tab.manipulacao \in PecasDaCaixa
                 PROVE  /\ tab'.peao = Ativo /\ NoPeao \in Mesa(tab')
                        /\ Comecando \/ turno.confirmada
                           \/ (turno.atravessou /\ turno.travessia = tab.manipulacao)
                        /\ /\ NoPeao # tab.manipulacao
                           /\ Comecando \/ turno.confirmada \/ NoPeao = turno.inicio
                           => tab.manipulacao \in VizinhasConectadas(tab', NoPeao)
    BY <1>1 DEF PecaEncaixadaApos
  <2>2. /\ tab.peao = Ativo /\ NoPeao \in Mesa(tab)
        /\ Definida \/ (turno.atravessou /\ turno.travessia = tab.manipulacao)
        /\ NoPeao # tab.manipulacao /\ (Definida \/ NoPeao = turno.inicio) =>
             tab.manipulacao \in VizinhasConectadas(tab, NoPeao)
    BY <2>1 DEF PecaEncaixada
  <2>3. ASSUME NoPeao # tab.manipulacao, tab.manipulacao \in VizinhasConectadas(tab, NoPeao)
        PROVE  tab.manipulacao \in VizinhasConectadas(tab', NoPeao)
    <3>1. PecaSob(tab, tab.peao) = NoPeao /\ NoPeao # Nada
      BY <1>1, <2>2 DEF PecaSob, NoPeao
    <3>2. tab'.posicionadas[NoPeao] = tab.posicionadas[NoPeao]
      BY <2>2, <2>3 DEF Gira
    <3>3. CelulaDe(tab', tab.manipulacao) = CelulaDe(tab, tab.manipulacao)
      BY <2>1 DEF Gira
    <3>4. CASE tab'.posicionadas = tab.posicionadas
      <4>1. tab'.posicionadas[tab.manipulacao] = tab.posicionadas[tab.manipulacao]
        BY <3>4
      <4>2. QED
        BY <1>1, <2>1, <2>3, <3>2, <4>1, MesmaConexao
    <3>5. CASE GiroMantemConexao(tab, tab.manipulacao, tab'.posicionadas[tab.manipulacao].orientacao)
      BY <1>1, <2>1, <2>2, <2>3, <3>1, <3>2, <3>3, <3>5, GiroConectado
    <3>6. QED
      BY <3>4, <3>5 DEF Gira
  <2>4. QED
    BY <1>1, <1>2, <2>2, <2>3 DEF Definida
<1>4. VagasAbertasApos
  <2>1. SUFFICES ASSUME NEW r \in Pendentes(tab), tab'.recebidas[r].vaga # Nada
                 PROVE  /\ tab'.peao = Ativo /\ NoPeao \in Mesa(tab')
                        /\ tab'.recebidas[r].vaga \in Aberturas(tab', NoPeao)
                        /\ tab'.recebidas[r].alvo = Vizinha(CelulaDe(tab', NoPeao), tab'.recebidas[r].vaga)
                        /\ tab'.manipulacao # NoPeao
    BY <1>1 DEF VagasAbertasApos
  <2>2. tab'.recebidas[r].vaga = tab.recebidas[r].vaga /\ tab'.recebidas[r].alvo = tab.recebidas[r].alvo
    BY DEF Gira
  <2>3. /\ tab.peao = Ativo /\ NoPeao \in Mesa(tab)
        /\ tab.recebidas[r].vaga \in Aberturas(tab, NoPeao)
        /\ tab.recebidas[r].alvo = Vizinha(CelulaDe(tab, NoPeao), tab.recebidas[r].vaga)
        /\ tab.manipulacao # NoPeao
    BY <2>1, <2>2 DEF VagasAbertas
  <2>4. tab'.posicionadas[NoPeao] = tab.posicionadas[NoPeao]
    BY <2>3 DEF Gira
  <2>5. Aberturas(tab', NoPeao) = Aberturas(tab, NoPeao) /\ CelulaDe(tab', NoPeao) = CelulaDe(tab, NoPeao)
    BY <2>4, MesmasAberturas
  <2>6. QED
    BY <1>1, <1>2, <2>2, <2>3, <2>5
<1>5. QED
  BY <1>3, <1>4

(* Pieces under the pawn and pieces that are turned stay where they are.   *)
LEMMA EncaixadaParada ==
  ASSUME Tipos, Tipos', PecaEncaixada, VagasAbertas,
         turno' = turno, tab'.peoes[Ativo] = NoPeao, Ativo \in DOMAIN tab'.peoes,
         tab'.manipulacao \in {tab.manipulacao, Nada},
         tab'.manipulacao \in Mesa(tab') => tab'.manipulacao \in Mesa(tab),
         \A q \in Mesa(tab) \cap Mesa(tab') : tab'.posicionadas[q] = tab.posicionadas[q],
         tab'.recebidas = tab.recebidas,
         \/ tab'.peao = tab.peao
         \/ tab'.manipulacao = Nada /\ tab.recebidas = <<>>
  PROVE  PecaEncaixadaApos /\ VagasAbertasApos
<1>1. /\ NoPeao \in Mesa(tab) => NoPeao \in Mesa(tab') /\ NoPeao # Nada
      /\ Nada \notin PecasDaCaixa
  <2>1. Nada \notin Mesa(tab)
    BY MesaDe, TiposDistintos DEF Tipos, Bom
  <2>2. QED
    BY <2>1, TiposDistintos DEF Tipos, Bom, PeoesSobrePecas, Pecas
<1>2. Pendentes(tab') = Pendentes(tab) /\ (tab.recebidas = <<>> => Pendentes(tab) = {})
  BY ParcialVazia DEF Pendentes
<1>3. PecaEncaixadaApos
  <2>1. SUFFICES ASSUME tab'.manipulacao \in Mesa(tab'), tab'.manipulacao \in PecasDaCaixa
                 PROVE  /\ tab'.peao = Ativo /\ NoPeao \in Mesa(tab')
                        /\ Definida \/ (turno.atravessou /\ turno.travessia = tab'.manipulacao)
                        /\ /\ NoPeao # tab'.manipulacao
                           /\ Definida \/ NoPeao = turno.inicio
                           => tab'.manipulacao \in VizinhasConectadas(tab', NoPeao)
    BY DEF PecaEncaixadaApos, Definida
  <2>2. tab'.manipulacao = tab.manipulacao /\ tab.manipulacao \in Mesa(tab) /\ tab'.peao = tab.peao
    BY <1>1, <2>1
  <2>3. /\ tab.peao = Ativo /\ NoPeao \in Mesa(tab)
        /\ Definida \/ (turno.atravessou /\ turno.travessia = tab.manipulacao)
        /\ NoPeao # tab.manipulacao /\ (Definida \/ NoPeao = turno.inicio) =>
             tab.manipulacao \in VizinhasConectadas(tab, NoPeao)
    BY <2>1, <2>2 DEF PecaEncaixada
  <2>4. tab.manipulacao \in VizinhasConectadas(tab, NoPeao) =>
          tab.manipulacao \in VizinhasConectadas(tab', NoPeao)
    BY <1>1, <2>1, <2>2, <2>3, MesmaConexao
  <2>5. QED
    BY <1>1, <2>2, <2>3, <2>4
<1>4. VagasAbertasApos
  <2>1. SUFFICES ASSUME NEW r \in Pendentes(tab), tab.recebidas[r].vaga # Nada
                 PROVE  /\ tab'.peao = Ativo /\ NoPeao \in Mesa(tab')
                        /\ tab.recebidas[r].vaga \in Aberturas(tab', NoPeao)
                        /\ tab.recebidas[r].alvo = Vizinha(CelulaDe(tab', NoPeao), tab.recebidas[r].vaga)
                        /\ tab'.manipulacao # NoPeao
    BY <1>2 DEF VagasAbertasApos
  <2>2. /\ tab.peao = Ativo /\ NoPeao \in Mesa(tab)
        /\ tab.recebidas[r].vaga \in Aberturas(tab, NoPeao)
        /\ tab.recebidas[r].alvo = Vizinha(CelulaDe(tab, NoPeao), tab.recebidas[r].vaga)
        /\ tab.manipulacao # NoPeao
    BY <2>1 DEF VagasAbertas
  <2>3. Aberturas(tab', NoPeao) = Aberturas(tab, NoPeao) /\ CelulaDe(tab', NoPeao) = CelulaDe(tab, NoPeao)
    BY <1>1, <2>2, MesmasAberturas
  <2>4. QED
    BY <1>1, <1>2, <2>2, <2>3
<1>5. QED
  BY <1>3, <1>4

LEMMA EncaixadaPoe ==
  ASSUME Tipos, Tipos', NaVez, PecaEncaixada, VagasAbertas, NEW p, PoeInicial(p) \/ PoeRecebida(p)
  PROVE  PecaEncaixadaApos /\ VagasAbertasApos
<1>1. /\ Ativo \in DOMAIN tab.peoes /\ tab'.peoes[Ativo] = NoPeao /\ turno \in Turno /\ Ativo # Nada
      /\ tab'.peao \in {tab.peao, Ativo} /\ tab'.manipulacao \in {Nada, p} /\ Mesa(tab') = Mesa(tab) \cup {p}
      /\ p \notin Mesa(tab) /\ p \in Pecas /\ (p \in PecasDaCaixa => PoeRecebida(p))
      /\ \A q \in Mesa(tab) : tab'.posicionadas[q] = tab.posicionadas[q]
      /\ Nada \notin Pecas /\ Pendentes(tab') \subseteq Pendentes(tab)
      /\ \A r \in Pendentes(tab') : /\ tab'.recebidas[r].vaga = tab.recebidas[r].vaga
                                    /\ tab'.recebidas[r].alvo = tab.recebidas[r].alvo
  BY TiposDistintos, PartidaAssumption, MesaDe DEF Tipos, Bom, PoeInicial, PoeRecebida, NoPeao, Ativo,
     Turno, Jogadores, Pecas, Pendentes
<1>2. NoPeao \in Mesa(tab) =>
        /\ Aberturas(tab', NoPeao) = Aberturas(tab, NoPeao)
        /\ CelulaDe(tab', NoPeao) = CelulaDe(tab, NoPeao)
  BY <1>1, MesmasAberturas
<1>3. VagasAbertasApos
  <2>1. SUFFICES ASSUME NEW r \in Pendentes(tab'), tab'.recebidas[r].vaga # Nada
                 PROVE  /\ tab'.peao = Ativo /\ NoPeao \in Mesa(tab')
                        /\ tab'.recebidas[r].vaga \in Aberturas(tab', NoPeao)
                        /\ tab'.recebidas[r].alvo = Vizinha(CelulaDe(tab', NoPeao), tab'.recebidas[r].vaga)
                        /\ tab'.manipulacao # NoPeao
    BY <1>1 DEF VagasAbertasApos
  <2>2. /\ tab.peao = Ativo /\ NoPeao \in Mesa(tab)
        /\ tab.recebidas[r].vaga \in Aberturas(tab, NoPeao)
        /\ tab.recebidas[r].alvo = Vizinha(CelulaDe(tab, NoPeao), tab.recebidas[r].vaga)
    BY <1>1, <2>1 DEF VagasAbertas
  <2>3. NoPeao # Nada
    BY <1>1, <2>2, MesaDe DEF Tipos, Bom
  <2>4. QED
    BY <1>1, <1>2, <2>2, <2>3
<1>4. PecaEncaixadaApos
  <2>1. SUFFICES ASSUME tab'.manipulacao \in Mesa(tab'), tab'.manipulacao \in PecasDaCaixa
                 PROVE  /\ tab'.peao = Ativo /\ tab'.peoes[Ativo] \in Mesa(tab')
                        /\ Comecando \/ turno'.confirmada
                           \/ (turno'.atravessou /\ turno'.travessia = tab'.manipulacao)
                        /\ tab'.manipulacao \in VizinhasConectadas(tab', tab'.peoes[Ativo])
    BY DEF PecaEncaixadaApos
  <2>2. tab'.manipulacao = p /\ PoeRecebida(p)
    BY <1>1, <2>1 DEF Pecas
  <2>3. /\ p \in Pendentes(tab) /\ tab.recebidas[p].vaga # Nada
        /\ CelulaDe(tab', p) = tab.recebidas[p].alvo
        /\ Oposta(tab.recebidas[p].vaga) \in Aberturas(tab', p)
        /\ turno' = IF turno.atravessou THEN [turno EXCEPT !.travessia = p] ELSE turno
    BY <2>2 DEF PoeRecebida
  <2>4. /\ tab.peao = Ativo /\ NoPeao \in Mesa(tab)
        /\ tab.recebidas[p].vaga \in Aberturas(tab, NoPeao)
        /\ tab.recebidas[p].alvo = Vizinha(CelulaDe(tab, NoPeao), tab.recebidas[p].vaga)
    BY <2>3 DEF VagasAbertas
  <2>5. Comecando \/ turno'.confirmada \/ (turno'.atravessou /\ turno'.travessia = p)
    BY <1>1, <2>3 DEF NaVez, Definida, Turno
  <2>6. tab.recebidas[p].vaga \in Bordas
    BY <2>3, MesaDe DEF Tipos, Bom, Recebida
  <2>7. p \in VizinhasConectadas(tab', NoPeao)
    <3>1. LigadaPela(tab', NoPeao, tab.recebidas[p].vaga, p)
      BY <1>2, <2>3, <2>4 DEF LigadaPela
    <3>2. QED
      BY <1>1, <2>6, <3>1 DEF VizinhasConectadas
  <2>8. QED
    BY <1>1, <2>2, <2>4, <2>5, <2>7
<1>5. QED
  BY <1>3, <1>4

LEMMA EncaixadaVaga ==
  ASSUME Tipos, Tipos', NaVez, VagasAbertas, NEW r, NEW b, EscolheVaga(r, b)
  PROVE  PecaEncaixadaApos /\ VagasAbertasApos
<1>1. /\ Ativo \in DOMAIN tab.peoes /\ tab'.peoes[Ativo] = NoPeao /\ Ativo # Nada
      /\ tab'.peao = Ativo /\ tab'.manipulacao = Nada /\ tab'.posicionadas = tab.posicionadas
      /\ Pendentes(tab') = Pendentes(tab) /\ r \in Pendentes(tab)
      /\ Nada \notin Mesa(tab) /\ Mesa(tab') = Mesa(tab)
  BY TiposDistintos, PartidaAssumption, MesaDe DEF Tipos, Bom, EscolheVaga, NoPeao, Ativo, NaVez,
     Turno, Jogadores, MesmasForas, Mesa
<1>2. PecaEncaixadaApos
  BY <1>1 DEF PecaEncaixadaApos
<1>3. Aberturas(tab', NoPeao) = Aberturas(tab, NoPeao) /\ CelulaDe(tab', NoPeao) = CelulaDe(tab, NoPeao)
  BY <1>1, MesmasAberturas
<1>4. PecaSob(tab, Ativo) \in Mesa(tab) => PecaSob(tab, Ativo) = NoPeao
  BY <1>1 DEF PecaSob, NoPeao
<1>5. /\ NoPeao \in Mesa(tab) /\ b \in Aberturas(tab, NoPeao) /\ tab'.recebidas[r].vaga = b
      /\ tab'.recebidas[r].alvo = Vizinha(CelulaDe(tab, NoPeao), b)
  BY <1>1, <1>4 DEF EscolheVaga
<1>6. \A q \in Pendentes(tab) \ {r} : tab'.recebidas[q] = tab.recebidas[q]
  BY DEF EscolheVaga
<1>7. VagasAbertasApos
  <2>1. SUFFICES ASSUME NEW q \in Pendentes(tab), tab'.recebidas[q].vaga # Nada
                 PROVE  /\ tab'.recebidas[q].vaga \in Aberturas(tab', NoPeao)
                        /\ tab'.recebidas[q].alvo = Vizinha(CelulaDe(tab', NoPeao), tab'.recebidas[q].vaga)
    BY <1>1, <1>5 DEF VagasAbertasApos
  <2>2. CASE q = r
    BY <1>3, <1>5, <2>2
  <2>3. CASE q # r
    BY <1>3, <1>6, <2>1, <2>3 DEF VagasAbertas
  <2>4. QED
    BY <2>2, <2>3
<1>8. QED
  BY <1>2, <1>7

LEMMA EncaixadaPeao ==
  ASSUME Tipos, Tipos', NaVez, PecaEncaixada, Ativo \in DOMAIN tab'.peoes,
         Confirma \/ (\E p : PoePeao(p) \/ Move(p)) \/ \E c : Atravessa(c)
  PROVE  PecaEncaixadaApos /\ VagasAbertasApos
<1>1. /\ Ativo \in DOMAIN tab.peoes /\ turno \in Turno /\ Nada \notin Mesa(tab) /\ Bom(tab')
      /\ tab'.manipulacao = tab.manipulacao
  BY MesaDe, TiposDistintos DEF Tipos, Bom, Ativo, Confirma, PoePeao, Move, Atravessa
<1>2. VagasAbertasApos
  <2>1. \A r \in Pendentes(tab') : tab'.recebidas[r].vaga = Nada
    BY ParcialVazia DEF Confirma, PoePeao, Move, Atravessa, Pendentes
  <2>2. QED
    BY <2>1 DEF VagasAbertasApos
<1>3. ASSUME tab.manipulacao \in Mesa(tab'), tab.manipulacao \in PecasDaCaixa
      PROVE  /\ tab.manipulacao \in Mesa(tab) /\ tab.peao = Ativo /\ NoPeao \in Mesa(tab)
             /\ Definida \/ (turno.atravessou /\ turno.travessia = tab.manipulacao)
  <2>1. tab.manipulacao \in Mesa(tab)
    BY <1>3 DEF Confirma, PoePeao, Move, Atravessa, Mesa
  <2>2. QED
    BY <1>3, <2>1 DEF PecaEncaixada
<1>4. PecaEncaixadaApos
  <2>1. SUFFICES ASSUME tab.manipulacao \in Mesa(tab'), tab.manipulacao \in PecasDaCaixa
                 PROVE  /\ tab'.peao = Ativo /\ tab'.peoes[Ativo] = tab.manipulacao
                        /\ turno'.atravessou /\ turno'.travessia = tab.manipulacao
    BY <1>1 DEF PecaEncaixadaApos
  <2>2. CASE Confirma
    <3>1. turno'.atravessou = turno.atravessou /\ turno'.travessia = turno.travessia
      BY <1>1, <2>2 DEF Confirma, Turno
    <3>2. turno.atravessou /\ turno.travessia = tab.manipulacao /\ tab.peao = Ativo
      BY <1>3, <2>1, <2>2 DEF Confirma, Definida
    <3>3. NoPeao = tab.manipulacao
      BY <1>1, <1>3, <2>1, <2>2, <3>2 DEF Confirma, PousouNaTravessia, NaPeca, NoPeao
    <3>4. QED
      BY <2>2, <3>1, <3>2, <3>3 DEF Confirma, NoPeao
  <2>3. CASE \E p : PoePeao(p)
    BY <1>1, <1>3, <2>1, <2>3 DEF PoePeao
  <2>4. CASE \E p : Move(p)
    <3>1. PICK p : Move(p)
      BY <2>4
    <3>2. turno.atravessou /\ turno.travessia = tab.manipulacao /\ tab.peao = Ativo
      BY <1>3, <2>1, <3>1 DEF Move, Definida
    <3>3. p = tab.manipulacao
      BY <1>1, <1>3, <2>1, <3>1, <3>2 DEF Move, NaZona
    <3>4. QED
      BY <1>1, <3>1, <3>2, <3>3 DEF Move
  <2>5. CASE \E c : Atravessa(c)
    BY <1>3, <2>1, <2>5 DEF Atravessa, Definida
  <2>6. QED
    BY <2>2, <2>3, <2>4, <2>5
<1>5. QED
  BY <1>2, <1>4

Encaixada == PecaEncaixada /\ VagasAbertas

LEMMA EncaixadaFica ==
  ASSUME Tipos, Tipos', NaVez, Encaixada, NaMesmaVez
  PROVE  Encaixada'
<1>1. Segue /\ PecaEncaixada /\ VagasAbertas
  BY MesmaVezSegue DEF Encaixada
<1>2. /\ (Ativo)' = Ativo /\ turno'.inicio = turno.inicio /\ ((Comecando)' <=> Comecando)
      /\ Ativo \in DOMAIN tab'.peoes /\ Ativo \in DOMAIN tab.peoes
      /\ Mesa(tab) \cap Fora(tab) = {} /\ Bom(tab')
      /\ Mesa(tab') \subseteq Mesa(tab) \cup Fora(tab)
  BY <1>1, ForaPecas DEF Segue, Ativo, Comecando, Tipos
<1>3. PecaEncaixadaApos /\ VagasAbertasApos
  <2>1. CASE Seleciona
    <3>1. /\ turno' = turno /\ tab'.peoes[Ativo] = NoPeao /\ tab'.recebidas = tab.recebidas
          /\ tab'.manipulacao \in {tab.manipulacao, Nada}
          /\ tab'.posicionadas = tab.posicionadas
          /\ \/ tab'.peao = tab.peao
             \/ tab'.manipulacao = Nada /\ tab.recebidas = <<>>
      BY <2>1 DEF Seleciona, Delegado, NoPeao
    <3>2. Mesa(tab') = Mesa(tab)
      BY <3>1 DEF Mesa
    <3>3. QED
      BY <1>1, <1>2, <3>1, <3>2, EncaixadaParada
  <2>2. CASE Abandona
    <3>1. /\ turno' = turno /\ tab'.peoes[Ativo] = NoPeao /\ tab'.recebidas = tab.recebidas
          /\ tab'.manipulacao = tab.manipulacao /\ tab'.peao = tab.peao
          /\ Mesa(tab') \subseteq Mesa(tab)
          /\ \A q \in Mesa(tab') : tab'.posicionadas[q] = tab.posicionadas[q]
      BY <1>2, <2>2 DEF Abandona, NoPeao, Tipos
    <3>2. QED
      BY <1>1, <1>2, <3>1, EncaixadaParada
  <2>3. CASE Gira
    BY <1>1, <2>3, EncaixadaGira
  <2>4. CASE \E p : PoeInicial(p) \/ PoeRecebida(p)
    BY <1>1, <2>4, EncaixadaPoe
  <2>5. CASE \E r, b : EscolheVaga(r, b)
    BY <1>1, <2>5, EncaixadaVaga
  <2>6. CASE Confirma \/ (\E p : PoePeao(p) \/ Move(p)) \/ \E c : Atravessa(c)
    BY <1>1, <1>2, <2>6, EncaixadaPeao
  <2>7. QED
    BY <2>1, <2>2, <2>3, <2>4, <2>5, <2>6 DEF NaMesmaVez
<1>4. (NoPeao)' = tab'.peoes[Ativo] /\ ((Definida)' <=> Comecando \/ turno'.confirmada)
  BY <1>2 DEF NoPeao, Definida
<1>5. PecaEncaixada'
  BY <1>2, <1>3, <1>4 DEF PecaEncaixada, PecaEncaixadaApos
<1>6. VagasAbertas'
  BY <1>2, <1>3, <1>4 DEF VagasAbertas, VagasAbertasApos
<1>7. QED
  BY <1>5, <1>6 DEF Encaixada

LEMMA EncaixadaPassa ==
  ASSUME Tipos, Tipos', Passa
  PROVE  Encaixada'
<1>1. Nada \notin PecasDaCaixa
  BY TiposDistintos DEF Pecas
<1>2. Pendentes(tab') = {}
  BY ParcialVazia DEF Passa, Pendentes
<1>3. QED
  BY <1>1, <1>2 DEF Passa, Encaixada, PecaEncaixada, VagasAbertas

-----------------------------------------------------------------------------
(* The invariant of the turns.                                             *)

Turnos == Tipos /\ NaVez /\ UmaCasa /\ Encaixada

LEMMA TurnosSegue ==
  ASSUME Turnos, Passo
  PROVE  Turnos'
<1>1. Tipos /\ NaVez /\ UmaCasa /\ Encaixada
  BY DEF Turnos
<1>2. Tipos'
  BY <1>1, TiposSegue
<1>3. NaMesmaVez \/ Passa
  BY <1>1, PassoPorTipo DEF NaVez
<1>4. CASE NaMesmaVez
  BY <1>1, <1>2, <1>4, NaVezFica, UmaCasaFica, EncaixadaFica DEF Turnos
<1>5. CASE Passa
  BY <1>1, <1>2, <1>5, NaVezPassa, UmaCasaPassa, EncaixadaPassa DEF Turnos
<1>6. QED
  BY <1>3, <1>4, <1>5

LEMMA TurnosVaza ==
  ASSUME Turnos, UNCHANGED varsDaPartida
  PROVE  Turnos'
<1>1. Tipos'
  BY TiposVaza DEF Turnos
<1>2. tab' = tab /\ turno' = turno /\ jogadores' = jogadores
  BY DEF varsDaPartida
<1>3. NaVez'
  BY <1>2 DEF Turnos, NaVez, Ativo, Comecando, Definida
<1>4. UmaCasa'
  BY <1>2 DEF Turnos, UmaCasa, Ativo, Comecando, NoPeao, Destino
<1>5. Encaixada'
  BY <1>2 DEF Turnos, Encaixada, PecaEncaixada, VagasAbertas, Ativo, Comecando, NoPeao, Definida
<1>6. QED
  BY <1>1, <1>3, <1>4, <1>5 DEF Turnos

LEMMA TurnosNoInicio ==
  ASSUME Init
  PROVE  Turnos
<1>1. Tipos
  BY TiposNoInicio
<1>2. PICK c \in Caixas : tab = TabuleiroInicial(Jogadores, c)
  BY DEF Init
<1>3. /\ tab.manipulacao = Nada /\ tab.peao = Nada
      /\ Pendentes(tab) = {} /\ Mesa(tab) = {}
  BY <1>2, ParcialVazia DEF TabuleiroInicial, Pendentes, Mesa
<1>4. /\ turno.inicio = Nada /\ turno.travessia = Nada /\ ~turno.atravessou /\ ~turno.confirmada
      /\ \A k \in DOMAIN jogadores : jogadores[k].primeiroTurno
  BY DEF Init
<1>5. turno.ativo \in DOMAIN jogadores /\ Nada \notin Fora(tab)
  BY <1>1, ForaPecas DEF Tipos
<1>6. NaVez /\ UmaCasa /\ Encaixada
  BY <1>3, <1>4, <1>5 DEF NaVez, UmaCasa, Encaixada, PecaEncaixada, VagasAbertas, Ativo, Comecando
<1>7. QED
  BY <1>1, <1>6 DEF Turnos

(***************************************************************************)
(* The invariant behind the two theorems below, for Players only: whose    *)
(* pawn is selected, what a crossing has drawn and where it leads, and     *)
(* what a piece that can be turned is connected to (partida.ts, peoes.ts). *)
(***************************************************************************)
THEOREM TurnosEmOrdem == Spec => []Turnos
<1>1. Init => Turnos
  BY TurnosNoInicio
<1>2. Turnos /\ [Next]_varsDaPartida => Turnos'
  BY NextPasso, TurnosSegue, TurnosVaza DEF Turnos
<1>3. QED
  BY <1>1, <1>2, PTL DEF Spec

(***************************************************************************)
(* The same invariant when some of the Players are bots.                   *)
(***************************************************************************)
THEOREM TurnosEmOrdemComBots == SpecComBots => []Turnos
<1>1. InitComBots => Turnos
  BY TurnosNoInicio DEF InitComBots
<1>2. Turnos /\ [NextComBots]_vars => Turnos'
  BY NextComBotsPasso, TurnosSegue, TurnosVaza DEF Turnos, vars, varsDaPartida
<1>3. QED
  BY <1>1, <1>2, PTL DEF SpecComBots

(***************************************************************************)
(* One house per turn (ADR-0017), on a board of any size and with any      *)
(* Caixa: no sequence of movements, crossings, encaixes and turns of       *)
(* pieces takes the pawn further than a neighbouring cell.                 *)
(***************************************************************************)
THEOREM UmaCasaSempre == (Spec => []UmaCasaPorTurno) /\ (SpecComBots => []UmaCasaPorTurno)
<1>1. Turnos => UmaCasaPorTurno
  BY DEF Turnos, UmaCasa, UmaCasaPorTurno, Comecando, NoPeao, Ativo
<1>2. QED
  BY <1>1, TurnosEmOrdem, TurnosEmOrdemComBots, PTL

(***************************************************************************)
(* A Peça Recebida that can still be turned is connected to the piece it   *)
(* was drawn from (encaixarRecebida, girarPosicionada), also across the    *)
(* edge of the grade.                                                      *)
(***************************************************************************)
THEOREM EncaixeSempre == (Spec => []EncaixeConectado) /\ (SpecComBots => []EncaixeConectado)
<1>1. Turnos => EncaixeConectado
  BY DEF Turnos, Encaixada, PecaEncaixada, EncaixeConectado, Definida, Comecando, NoPeao, Ativo
<1>2. QED
  BY <1>1, TurnosEmOrdem, TurnosEmOrdemComBots, PTL

-----------------------------------------------------------------------------
(* The light of the turn.  The first Players of the order enter the board  *)
(* one after the other, in the first round; whoever has not entered has    *)
(* the Peça Inicial on the table and has been attacked by nobody.          *)

(* The first turns: who still has one, and whose pieces are placed.        *)
PrimeirosTurnos ==
  \A k \in Jogadores : jogadores[k].primeiroTurno <=> turno.rodada = 1 /\ k >= Ativo
PorEntrar ==
  \A k \in Jogadores : jogadores[k].primeiroTurno =>
    /\ tab.peoes[k] = Nada \/ (k = Ativo /\ tab.peoes[k] = <<"inicial", k>>)
    /\ tab.peoes[k] = Nada => ~jogadores[k].baixa /\ ~jogadores[k].amedrontado
    /\ <<"inicial", k>> \in DOMAIN tab.iniciais \/ k = Ativo
Ordem ==
  /\ turno.confirmada => ~Comecando
  /\ (Mesa(tab) \cup Fora(tab)) \cap PecasIniciais \subseteq {"inicial"} \X Jogadores
  /\ PrimeirosTurnos /\ PorEntrar
  /\ Comecando => \A k \in Jogadores : k < Ativo => tab.peoes[k] = <<"inicial", k>>

(* The pawn of a first turn goes to the Peça Inicial of its Player.        *)
LEMMA PeaoNaSuaInicial ==
  ASSUME Tipos, ElencoCompleto, Ordem, NEW p, PoePeao(p)
  PROVE  p = <<"inicial", Ativo>>
<1>1. /\ p \in Mesa(tab) /\ EhInicial(p) /\ Ocupantes(tab, p) = {} /\ Comecando
      /\ Mesa(tab) \cap Fora(tab) = {} /\ Ativo \in Jogadores /\ Mesa(tab) \subseteq Pecas
      /\ DOMAIN tab.peoes = Jogadores /\ Jogadores \subseteq Int
  <2>1. tab \in Tabuleiros /\ Bom(tab)
    BY DEF Tipos, Bom
  <2>2. Mesa(tab) \subseteq Pecas
    BY <2>1, MesaDe
  <2>3. QED
    BY <2>1, <2>2, ForaPecas DEF PoePeao, Tipos, ElencoCompleto, Ativo, Jogadores
<1>2. p \in PecasIniciais
  BY <1>1, TiposDistintos DEF Pecas
<1>3. PICK k \in Jogadores : p = <<"inicial", k>>
  <2>1. p \in {"inicial"} \X Jogadores
    BY <1>1, <1>2 DEF Ordem
  <2>2. QED
    BY <2>1
<1>4. CASE k < Ativo
  <2>1. tab.peoes[k] = p
    BY <1>1, <1>3, <1>4 DEF Ordem
  <2>2. QED
    BY <1>1, <2>1 DEF Ocupantes
<1>5. CASE k > Ativo
  <2>1. turno.rodada = 1
    BY <1>1 DEF Ordem, PrimeirosTurnos, Comecando
  <2>2. jogadores[k].primeiroTurno
    BY <1>1, <1>5, <2>1 DEF Ordem, PrimeirosTurnos
  <2>3. p \in DOMAIN tab.iniciais
    BY <1>1, <1>3, <1>5, <2>2 DEF Ordem, PorEntrar
  <2>4. QED
    BY <1>1, <2>3 DEF Fora
<1>6. QED
  BY <1>1, <1>3, <1>4, <1>5

(* A step of a first turn, before it passes on.                            *)
LEMMA ComecandoFica ==
  ASSUME Tipos, ElencoCompleto, ElencoCompleto', Ordem, Comecando, NaMesmaVez
  PROVE  /\ turno'.confirmada = turno.confirmada
         /\ DOMAIN tab.iniciais \ {<<"inicial", Ativo>>} \subseteq DOMAIN tab'.iniciais
         /\ tab'.peoes[Ativo] \in {NoPeao, <<"inicial", Ativo>>}
         /\ \A k \in Jogadores : tab'.peoes[k] = Nada =>
              /\ jogadores'[k].baixa = jogadores[k].baixa
              /\ jogadores'[k].amedrontado = jogadores[k].amedrontado
<1>1. CASE Seleciona
  BY <1>1 DEF Seleciona, Delegado, MesmasForas, NoPeao
<1>2. CASE Gira
  BY <1>2 DEF Gira, Delegado, MesmasForas, NoPeao
<1>3. CASE \E p : PoeInicial(p)
  BY <1>3 DEF PoeInicial, Delegado, NoPeao
<1>4. CASE \E p : PoeRecebida(p)
  BY <1>4 DEF PoeRecebida, NoPeao, Tipos, Turno
<1>5. CASE \E p : PoePeao(p)
  <2>1. PICK p : PoePeao(p)
    BY <1>5
  <2>2. p = <<"inicial", Ativo>>
    BY <2>1, PeaoNaSuaInicial
  <2>3. /\ DOMAIN tab.peoes = Jogadores /\ DOMAIN jogadores = Jogadores /\ Ativo \in Jogadores
        /\ p # Nada
    <3>1. tab \in Tabuleiros /\ p \in Mesa(tab)
      BY <2>1 DEF Tipos, Bom, PoePeao
    <3>2. p \in Pecas
      BY <3>1, MesaDe
    <3>3. QED
      BY <3>2, TiposDistintos DEF Tipos, ElencoCompleto, Ativo
  <2>4. tab'.peoes[Ativo] = p /\ \A k \in Jogadores \ {Ativo} : tab'.peoes[k] = tab.peoes[k]
    BY <2>1, <2>3 DEF PoePeao
  <2>5. QED
    BY <2>1, <2>2, <2>3, <2>4 DEF PoePeao
<1>6. CASE \E r, b : EscolheVaga(r, b)
  BY <1>6 DEF EscolheVaga, Delegado, MesmasForas, NoPeao
<1>7. CASE Confirma \/ (\E p : Move(p)) \/ \E c : Atravessa(c)
  BY <1>7 DEF Confirma, Move, Atravessa
<1>8. CASE Abandona
  BY <1>8 DEF Abandona, ElencoCompleto
<1>9. QED
  BY <1>1, <1>2, <1>3, <1>4, <1>5, <1>6, <1>7, <1>8 DEF NaMesmaVez

LEMMA OrdemFica ==
  ASSUME Tipos, Tipos', ElencoCompleto, ElencoCompleto', Ordem, NaMesmaVez
  PROVE  Ordem'
<1>1. Segue
  BY MesmaVezSegue
<1>2. /\ (Ativo)' = Ativo /\ turno'.rodada = turno.rodada /\ Ativo \in Jogadores
      /\ \A k \in Jogadores :
           /\ jogadores'[k].primeiroTurno = jogadores[k].primeiroTurno
           /\ k # Ativo => tab'.peoes[k] = tab.peoes[k]
      /\ Mesa(tab') \cup Fora(tab') \subseteq Mesa(tab) \cup Fora(tab)
      /\ ((Comecando)' <=> Comecando)
  BY <1>1 DEF Segue, ElencoCompleto, Ativo, Comecando, Tipos
<1>3. (Mesa(tab') \cup Fora(tab')) \cap PecasIniciais \subseteq {"inicial"} \X Jogadores
  BY <1>2 DEF Ordem
<1>4. PrimeirosTurnos'
  <2>1. \A k \in Jogadores : jogadores[k].primeiroTurno <=> turno.rodada = 1 /\ k >= Ativo
    BY DEF Ordem, PrimeirosTurnos
  <2>2. \A k \in Jogadores : jogadores'[k].primeiroTurno <=> turno'.rodada = 1 /\ k >= (Ativo)'
    BY <1>2, <2>1
  <2>3. QED
    BY <2>2 DEF PrimeirosTurnos
<1>5. CASE ~Comecando
  <2>1. turno.rodada # 1 /\ Ativo >= Ativo
    <3>1. Ativo >= Ativo
      BY <1>2 DEF Jogadores
    <3>2. QED
      BY <1>2, <1>5, <3>1 DEF Ordem, PrimeirosTurnos, Comecando
  <2>2. \A k \in Jogadores : ~jogadores'[k].primeiroTurno
    BY <1>2, <2>1 DEF Ordem, PrimeirosTurnos
  <2>3. PorEntrar'
    BY <2>2 DEF PorEntrar
  <2>4. QED
    BY <1>2, <1>3, <1>4, <1>5, <2>3, Zenon DEF Ordem
<1>6. CASE Comecando
  <2>1. /\ turno'.confirmada = turno.confirmada
        /\ DOMAIN tab.iniciais \ {<<"inicial", Ativo>>} \subseteq DOMAIN tab'.iniciais
        /\ tab'.peoes[Ativo] \in {NoPeao, <<"inicial", Ativo>>}
        /\ \A k \in Jogadores : tab'.peoes[k] = Nada =>
             /\ jogadores'[k].baixa = jogadores[k].baixa
             /\ jogadores'[k].amedrontado = jogadores[k].amedrontado
    BY <1>6, ComecandoFica
  <2>2. ~turno'.confirmada
    BY <1>6, <2>1 DEF Ordem
  <2>3. ASSUME NEW k \in Jogadores, jogadores[k].primeiroTurno
        PROVE  /\ tab'.peoes[k] = Nada \/ (k = Ativo /\ tab'.peoes[k] = <<"inicial", k>>)
               /\ tab'.peoes[k] = Nada => ~jogadores'[k].baixa /\ ~jogadores'[k].amedrontado
               /\ <<"inicial", k>> \in DOMAIN tab'.iniciais \/ k = Ativo
    <3>1. /\ tab.peoes[k] = Nada \/ (k = Ativo /\ tab.peoes[k] = <<"inicial", k>>)
          /\ tab.peoes[k] = Nada => ~jogadores[k].baixa /\ ~jogadores[k].amedrontado
          /\ <<"inicial", k>> \in DOMAIN tab.iniciais \/ k = Ativo
      BY <2>3 DEF Ordem, PorEntrar
    <3>2. CASE k = Ativo
      <4>1. tab'.peoes[k] = Nada => tab.peoes[k] = Nada
        <5>1. /\ tab.peoes[k] # Nada => tab'.peoes[k] # Nada
          BY <1>1 DEF Segue, ElencoCompleto
        <5>2. QED
          BY <5>1
      <4>2. QED
        BY <2>1, <3>1, <3>2, <4>1 DEF NoPeao
    <3>3. CASE k # Ativo
      <4>1. <<"inicial", k>> # <<"inicial", Ativo>>
        BY <3>3
      <4>2. tab'.peoes[k] = tab.peoes[k]
        BY <1>2, <3>3
      <4>3. QED
        BY <2>1, <3>1, <3>3, <4>1, <4>2
    <3>4. QED
      BY <3>2, <3>3
  <2>4. PorEntrar'
    <3>1. \A k \in Jogadores : jogadores'[k].primeiroTurno => jogadores[k].primeiroTurno
      BY <1>2
    <3>2. QED
      BY <1>2, <2>3, <3>1 DEF PorEntrar
  <2>5. \A k \in Jogadores : k < Ativo => tab'.peoes[k] = <<"inicial", k>>
    <3>1. \A k \in Jogadores : k < Ativo => k # Ativo
      BY <1>2 DEF Jogadores
    <3>2. QED
      BY <1>2, <1>6, <3>1, Zenon DEF Ordem
  <2>6. QED
    BY <1>2, <1>3, <1>4, <2>2, <2>4, <2>5, Zenon DEF Ordem
<1>7. QED
  BY <1>5, <1>6

(* After the first turn of the last Player nobody is in the first turn.    *)
LEMMA NinguemComecando ==
  ASSUME Tipos, Ordem, ~Comecando
  PROVE  turno.rodada # 1 /\ \A k \in Jogadores : ~jogadores[k].primeiroTurno
<1>1. Ativo \in Jogadores /\ Ativo >= Ativo
  BY DEF Tipos, Turno, Ativo, Jogadores
<1>2. \A k \in Jogadores : jogadores[k].primeiroTurno <=> turno.rodada = 1 /\ k >= Ativo
  BY DEF Ordem, PrimeirosTurnos
<1>3. QED
  BY <1>1, <1>2 DEF Comecando

(* The first turns pass from one Player of the order to the next.          *)
LEMMA ProximoDaOrdem ==
  ASSUME Tipos, Tipos', ElencoCompleto, ElencoCompleto', Ordem, Comecando, Encerra,
         Acordados(jogadores') # {}, turno'.ativo = Proximo(jogadores', Ativo)
  PROVE  IF Ativo < NumeroDeJogadores THEN turno'.ativo = Ativo + 1 ELSE turno'.ativo <= Ativo
<1>1. /\ NumeroDeJogadores \in Int /\ Ativo \in 1..NumeroDeJogadores
      /\ turno'.ativo \in 1..NumeroDeJogadores
  BY PartidaAssumption DEF Tipos, Turno, Ativo, Jogadores
<1>2. CASE Ativo < NumeroDeJogadores
  <2> DEFINE k == Ativo + 1
             m == turno'.ativo
  <2>1. k \in Jogadores /\ k > Ativo /\ k # Ativo
    BY <1>1, <1>2 DEF Jogadores
  <2>2. jogadores[k].primeiroTurno
    <3>1. turno.rodada = 1
      BY <1>1 DEF Ordem, PrimeirosTurnos, Comecando, Jogadores
    <3>2. k >= Ativo
      BY <1>1
    <3>3. QED
      BY <2>1, <3>1, <3>2 DEF Ordem, PrimeirosTurnos
  <2>3. ~jogadores[k].amedrontado
    BY <2>1, <2>2 DEF Ordem, PorEntrar
  <2>4. k \in Acordados(jogadores')
    BY <2>1, <2>3 DEF Encerra, ElencoCompleto, Acordados
  <2>5. Distancia(Ativo, m) <= Distancia(Ativo, k)
    <3>1. jogadores' \in Elencos /\ DOMAIN jogadores' # {} /\ Ativo \in Jogadores
      BY <1>1 DEF Tipos, Jogadores
    <3>2. QED
      BY <2>4, <3>1, ProximoVivo
  <2>6. m = k
    BY <1>1, <1>2, <2>1, <2>5 DEF Distancia
  <2>7. QED
    BY <1>2, <2>6
<1>3. QED
  BY <1>1, <1>2

LEMMA OrdemPassa ==
  ASSUME Tipos, Tipos', NaVez, ElencoCompleto, ElencoCompleto', resultado' = Nada, Ordem,
         Passa, PassaCompleta
  PROVE  Ordem'
<1>1. /\ tab'.peoes = tab.peoes /\ AvaliarTermino /\ turno'.ativo = Proximo(jogadores', Ativo)
      /\ turno'.rodada = IF Acordados(jogadores') # {} /\ turno'.ativo <= Ativo
                         THEN turno.rodada + 1 ELSE turno.rodada
      /\ Mesa(tab') \subseteq Mesa(tab) /\ Fora(tab') \subseteq Fora(tab)
      /\ Encerra \/ Fica
      /\ DOMAIN jogadores = Jogadores /\ DOMAIN jogadores' = Jogadores
  BY DEF PassaCompleta, ElencoCompleto
<1>2. Acordados(jogadores') # {}
  <2>1. PICK v \in DOMAIN jogadores' : jogadores'[v].sanidade # 0
    BY <1>1, Avaliado DEF Tipos
  <2>2. QED
    BY <2>1 DEF Tipos, Sadio, Acordados
<1>3. /\ Ativo \in Jogadores /\ (Ativo)' = turno'.ativo /\ (Ativo)' \in Jogadores
      /\ turno.rodada \in 1..RodadaMaxima /\ RodadaMaxima \in Int
  BY PartidaAssumption DEF Tipos, Turno, Ativo
<1>4. (Mesa(tab') \cup Fora(tab')) \cap PecasIniciais \subseteq {"inicial"} \X Jogadores
  BY <1>1 DEF Ordem
<1>5. ~turno'.confirmada
  BY DEF Passa
<1>6. CASE ~Comecando \/ Ativo = NumeroDeJogadores
  <2>1. turno'.rodada # 1 /\ \A k \in Jogadores : ~jogadores'[k].primeiroTurno
    <3>1. CASE ~Comecando
      <4>1. turno.rodada # 1 /\ \A k \in Jogadores : ~jogadores[k].primeiroTurno
        BY <3>1, NinguemComecando
      <4>2. \A k \in Jogadores : ~jogadores'[k].primeiroTurno
        BY <1>1, <4>1 DEF Encerra, Fica
      <4>3. QED
        BY <1>1, <1>3, <4>1, <4>2
    <3>2. CASE Comecando /\ Ativo = NumeroDeJogadores
      <4>1. Encerra
        BY <1>1, <3>2 DEF Fica
      <4>2. turno'.ativo <= Ativo
        <5>1. ~(Ativo < NumeroDeJogadores)
          BY <1>3, <3>2 DEF Jogadores
        <5>2. QED
          BY <1>1, <1>2, <3>2, <4>1, <5>1, ProximoDaOrdem
      <4>3. turno'.rodada # 1
        BY <1>1, <1>2, <1>3, <4>2
      <4>4. ASSUME NEW k \in Jogadores, jogadores'[k].primeiroTurno
            PROVE  FALSE
        <5>1. jogadores[k].primeiroTurno /\ k # Ativo
          BY <1>1, <4>1, <4>4 DEF Encerra
        <5>2. k >= Ativo
          BY <5>1 DEF Ordem, PrimeirosTurnos
        <5>3. QED
          BY <1>3, <3>2, <5>1, <5>2, PartidaAssumption DEF Jogadores
      <4>5. QED
        BY <4>3, <4>4
    <3>3. QED
      BY <1>6, <3>1, <3>2
  <2>2. PrimeirosTurnos' /\ PorEntrar'
    BY <2>1 DEF PrimeirosTurnos, PorEntrar
  <2>3. ~(Comecando)'
    BY <1>3, <2>1 DEF Comecando
  <2>4. QED
    BY <1>4, <2>2, <2>3 DEF Ordem
<1>7. CASE Comecando /\ Ativo # NumeroDeJogadores
  <2>1. Encerra /\ NoPeao # Nada
    BY <1>1, <1>7 DEF Fica, Encerra
  <2>2. NumeroDeJogadores \in Int /\ Ativo \in Int /\ Ativo < NumeroDeJogadores
    BY <1>3, <1>7, PartidaAssumption DEF Jogadores
  <2>3. turno'.ativo = Ativo + 1
    BY <1>1, <1>2, <1>7, <2>1, <2>2, ProximoDaOrdem
  <2>4. turno.rodada = 1 /\ turno'.rodada = 1
    <3>1. turno.rodada = 1
      BY <1>3, <1>7 DEF Ordem, PrimeirosTurnos, Comecando
    <3>2. QED
      BY <1>1, <2>2, <2>3, <3>1
  <2>5. \A k \in Jogadores : jogadores'[k].primeiroTurno <=> jogadores[k].primeiroTurno /\ k # Ativo
    BY <1>1, <2>1 DEF Encerra
  <2>6. \A k \in Jogadores : k >= turno'.ativo <=> k >= Ativo /\ k # Ativo
    BY <2>2, <2>3 DEF Jogadores
  <2>7. \A k \in Jogadores : jogadores[k].primeiroTurno <=> k >= Ativo
    BY <2>4 DEF Ordem, PrimeirosTurnos
  <2>8. PrimeirosTurnos'
    BY <1>3, <2>4, <2>5, <2>6, <2>7 DEF PrimeirosTurnos
  <2>9. ASSUME NEW k \in Jogadores, jogadores'[k].primeiroTurno
        PROVE  /\ tab'.peoes[k] = Nada /\ ~jogadores'[k].baixa /\ ~jogadores'[k].amedrontado
               /\ <<"inicial", k>> \in DOMAIN tab'.iniciais
    <3>1. jogadores[k].primeiroTurno /\ k # Ativo
      BY <2>5, <2>9
    <3>2. /\ tab.peoes[k] = Nada /\ ~jogadores[k].baixa /\ ~jogadores[k].amedrontado
          /\ <<"inicial", k>> \in DOMAIN tab.iniciais
      BY <3>1 DEF Ordem, PorEntrar
    <3>3. QED
      BY <1>1, <2>1, <3>2 DEF Encerra
  <2>10. PorEntrar'
    BY <2>9 DEF PorEntrar
  <2>11. ASSUME NEW k \in Jogadores, k < turno'.ativo
         PROVE  tab'.peoes[k] = <<"inicial", k>>
    <3>1. k < Ativo \/ k = Ativo
      BY <2>2, <2>3, <2>11 DEF Jogadores
    <3>2. CASE k < Ativo
      BY <1>1, <1>7, <3>2 DEF Ordem
    <3>3. CASE k = Ativo
      BY <1>1, <1>7, <2>1, <3>3 DEF Ordem, PorEntrar, Comecando, NoPeao
    <3>4. QED
      BY <3>1, <3>2, <3>3
  <2>12. QED
    BY <1>3, <1>4, <1>5, <2>8, <2>10, <2>11 DEF Ordem
<1>8. QED
  BY <1>6, <1>7

(* The board with the pawn of the turn back where the turn began.          *)
NoInicio == [tab EXCEPT !.peoes[Ativo] = turno.inicio]

(* Where the light that was cached is that of the board: after a           *)
(* definitive step of the turn, and before one, with the pawn back.        *)
ClaraDepois ==
  (Comecando /\ NoPeao # Nada) \/ turno.confirmada =>
    /\ Clareada(tab, jogadores, iluminadas)
    /\ Pendentes(tab) # {} => ~jogadores[Ativo].baixa
ClaraAntes ==
  ~Comecando /\ ~turno.confirmada /\ ~turno.atravessou =>
    Clareada(NoInicio, jogadores, iluminadas)

(* The light of the two boards is the same before and after a step that    *)
(* neither adds nor takes a piece.                                         *)
LEMMA VoltaClareada ==
  ASSUME NEW t \in Tabuleiros, NEW n \in Tabuleiros, NEW a, NEW x, NEW js, NEW luz,
         Mesa(n) = Mesa(t), \A p \in Mesa(t) : CelulaDe(n, p) = CelulaDe(t, p),
         [n.peoes EXCEPT ![a] = x] = [t.peoes EXCEPT ![a] = x],
         Clareada([t EXCEPT !.peoes[a] = x], js, luz)
  PROVE  Clareada([n EXCEPT !.peoes[a] = x], js, luz)
<1> DEFINE u == [t EXCEPT !.peoes[a] = x]
           w == [n EXCEPT !.peoes[a] = x]
<1>1. /\ u.peoes = [t.peoes EXCEPT ![a] = x] /\ u.posicionadas = t.posicionadas
      /\ w.peoes = [n.peoes EXCEPT ![a] = x] /\ w.posicionadas = n.posicionadas
  BY DEF Tabuleiros
<1> HIDE DEF u, w
<1>2. w.peoes = u.peoes /\ Mesa(w) = Mesa(u) /\ \A p \in Mesa(u) : CelulaDe(w, p) = CelulaDe(u, p)
  BY <1>1 DEF Mesa, CelulaDe
<1>3. Clareada(u, js, luz)
  BY DEF u
<1>4. Clareada(w, js, luz)
  BY <1>2, <1>3, ClareadaMesma
<1>5. QED
  BY <1>4 DEF w

(* A piece put beside a pawn that is not in Baixa is in its light.         *)
LEMMA ClareadaComPeca ==
  ASSUME NEW t, Bom(t), NEW n, Bom(n), NEW js, NEW luz, Clareada(t, js, luz), NEW p,
         n.peoes = t.peoes, Mesa(n) = Mesa(t) \cup {p},
         \A q \in Mesa(t) : n.posicionadas[q] = t.posicionadas[q],
         NEW a \in DOMAIN t.peoes, t.peoes[a] \in Mesa(t), a \notin EmBaixa(js),
         CelulaDe(n, p) \in Vizinhas(CelulaDe(t, t.peoes[a]))
  PROVE  Clareada(n, js, luz)
<1>1. \A q \in Mesa(t) : CelulaDe(n, q) = CelulaDe(t, q)
  BY DEF CelulaDe
<1>2. ASSUME NEW j \in DOMAIN t.peoes
      PROVE  t.peoes[j] \in Mesa(n) <=> t.peoes[j] \in Mesa(t)
  <2>1. t.peoes[j] = Nada \/ t.peoes[j] \in Mesa(t)
    BY DEF Bom, PeoesSobrePecas
  <2>2. Nada \notin Mesa(n)
    BY MesaDe, TiposDistintos DEF Bom
  <2>3. QED
    BY <2>1, <2>2
<1>3. Luz(n, js) = Luz(t, js)
  BY <1>1, <1>2, LuzMesma
<1>4. \A q : Ocupantes(n, q) = Ocupantes(t, q)
  BY DEF Ocupantes
<1>5. CelulaDe(n, p) \in luz
  <2>1. CelulaDe(n, p) \in IluminadasPor(t, a, EmBaixa(js))
    BY DEF IluminadasPor
  <2>2. luz = UNION {IluminadasPor(t, j, EmBaixa(js)) : j \in DOMAIN t.peoes}
    BY DEF Clareada, Luz, CalcularIluminacao
  <2>3. QED
    BY <2>1, <2>2
<1>6. QED
  BY <1>1, <1>3, <1>4, <1>5 DEF Clareada

(* A step that only selects, turns, moves or draws changes no light.       *)
LEMMA ClaraParada ==
  ASSUME Tipos, Tipos', ClaraDepois, ClaraAntes, Ativo \in DOMAIN tab.peoes,
         UNCHANGED <<jogadores, iluminadas>>, turno'.ativo = turno.ativo,
         turno'.inicio = turno.inicio, turno'.confirmada = turno.confirmada,
         turno.atravessou => turno'.atravessou,
         Mesa(tab') = Mesa(tab), \A p \in Mesa(tab) : CelulaDe(tab', p) = CelulaDe(tab, p),
         \/ tab'.peoes = tab.peoes /\ (Definida => Pendentes(tab') = Pendentes(tab))
         \/ ~Definida /\ \E x : tab'.peoes = [tab.peoes EXCEPT ![Ativo] = x]
  PROVE  ClaraDepois' /\ ClaraAntes'
<1>1. /\ (Ativo)' = Ativo /\ ((Comecando)' <=> Comecando)
      /\ tab \in Tabuleiros /\ tab' \in Tabuleiros
  BY DEF Ativo, Comecando, Tipos, Bom
<1>2. ClaraDepois'
  <2>1. CASE Definida
    <3>1. tab'.peoes = tab.peoes /\ Pendentes(tab') = Pendentes(tab)
      BY <2>1
    <3>2. Clareada(tab, jogadores, iluminadas) => Clareada(tab', jogadores', iluminadas')
      BY <3>1, ClareadaMesma
    <3>3. QED
      BY <1>1, <3>1, <3>2 DEF ClaraDepois, NoPeao
  <2>2. CASE ~Definida
    BY <1>1, <2>2 DEF ClaraDepois, Definida
  <2>3. QED
    BY <2>1, <2>2
<1>3. ClaraAntes'
  <2>1. [tab'.peoes EXCEPT ![Ativo] = turno.inicio] = [tab.peoes EXCEPT ![Ativo] = turno.inicio]
    <3>1. CASE tab'.peoes = tab.peoes
      BY <3>1
    <3>2. CASE \E x : tab'.peoes = [tab.peoes EXCEPT ![Ativo] = x]
      <4>1. tab.peoes \in Parcial(Jogadores, Pecas \cup {Nada})
        BY <1>1 DEF Tabuleiros
      <4>2. tab.peoes = [k \in DOMAIN tab.peoes |-> tab.peoes[k]]
        BY <4>1, ParcialDe
      <4>3. QED
        BY <3>2, <4>2
    <3>3. QED
      BY <3>1, <3>2
  <2>2. ASSUME Clareada(NoInicio, jogadores, iluminadas)
        PROVE  Clareada((NoInicio)', jogadores', iluminadas')
    <3>1. Clareada([tab EXCEPT !.peoes[Ativo] = turno.inicio], jogadores, iluminadas)
      BY <2>2 DEF NoInicio
    <3>2. PICK n \in Tabuleiros : n = tab'
      BY <1>1
    <3>3. PICK t \in Tabuleiros : t = tab
      BY <1>1
    <3>4. Clareada([n EXCEPT !.peoes[Ativo] = turno.inicio], jogadores, iluminadas)
      BY <2>1, <3>1, <3>2, <3>3, VoltaClareada
    <3>5. QED
      BY <1>1, <3>2, <3>4 DEF NoInicio
  <2>3. QED
    BY <1>1, <2>2 DEF ClaraAntes
<1>4. QED
  BY <1>2, <1>3

LEMMA ClaraPoeRecebida ==
  ASSUME Tipos, Tipos', NaVez, VagasAbertas, ClaraDepois, NEW p, PoeRecebida(p)
  PROVE  ClaraDepois' /\ ClaraAntes'
<1>1. /\ Ativo \in DOMAIN tab.peoes /\ Bom(tab) /\ Bom(tab') /\ tab'.peoes = tab.peoes
      /\ Mesa(tab') = Mesa(tab) \cup {p} /\ p \in Pendentes(tab)
      /\ \A q \in Mesa(tab) : tab'.posicionadas[q] = tab.posicionadas[q]
      /\ Pendentes(tab') = Pendentes(tab) \ {p} /\ tab.recebidas[p].vaga # Nada
      /\ CelulaDe(tab', p) = tab.recebidas[p].alvo
      /\ jogadores' = jogadores /\ iluminadas' = iluminadas
  BY DEF PoeRecebida, Tipos, Ativo
<1>2. /\ turno'.ativo = turno.ativo /\ turno'.confirmada = turno.confirmada
      /\ turno'.atravessou = turno.atravessou
  BY DEF PoeRecebida, Tipos, Turno
<1>3. /\ (Ativo)' = Ativo /\ ((Comecando)' <=> Comecando) /\ (NoPeao)' = NoPeao
  BY <1>1, <1>2 DEF Ativo, Comecando, NoPeao
<1>4. Definida \/ turno.atravessou
  BY <1>1 DEF NaVez
<1>5. CASE ~Definida
  BY <1>2, <1>3, <1>4, <1>5 DEF ClaraDepois, ClaraAntes, Definida
<1>6. CASE Definida
  <2>1. NoPeao \in Mesa(tab) /\ CelulaDe(tab', p) = Vizinha(CelulaDe(tab, NoPeao), tab.recebidas[p].vaga)
    BY <1>1 DEF VagasAbertas
  <2>2. NoPeao # Nada
    BY <1>1, <2>1, MesaDe, TiposDistintos DEF Bom
  <2>3. Clareada(tab, jogadores, iluminadas) /\ ~jogadores[Ativo].baixa
    BY <1>1, <1>6, <2>2 DEF ClaraDepois, Definida
  <2>4. tab.recebidas[p].vaga \in Bordas
    <3>1. tab \in Tabuleiros
      BY <1>1 DEF Bom
    <3>2. tab.recebidas[p] \in Recebida
      BY <1>1, <3>1, MesaDe
    <3>3. QED
      BY <1>1, <3>2 DEF Recebida
  <2>5. CelulaDe(tab', p) \in Vizinhas(CelulaDe(tab, tab.peoes[Ativo]))
    BY <2>1, <2>4 DEF Vizinhas, NoPeao
  <2>6. Ativo \notin EmBaixa(jogadores) /\ tab.peoes[Ativo] \in Mesa(tab)
    BY <2>1, <2>3 DEF EmBaixa, NoPeao
  <2>7. PICK n : n = tab'
    OBVIOUS
  <2>8. Clareada(n, jogadores, iluminadas)
    BY <1>1, <2>3, <2>5, <2>6, <2>7, ClareadaComPeca
  <2>9. Clareada(tab', jogadores', iluminadas')
    BY <1>1, <2>7, <2>8
  <2>10. QED
    BY <1>1, <1>2, <1>3, <1>6, <2>3, <2>9 DEF ClaraDepois, ClaraAntes, Definida
<1>7. QED
  BY <1>5, <1>6

LEMMA ClaraFica ==
  ASSUME Tipos, Tipos', ElencoCompleto, ElencoCompleto', NaVez, VagasAbertas, Ordem,
         ClaraDepois, ClaraAntes, NaMesmaVez
  PROVE  ClaraDepois' /\ ClaraAntes'
<1>1. /\ Ativo \in DOMAIN tab.peoes /\ Ativo \in Jogadores /\ Bom(tab) /\ Bom(tab')
      /\ DOMAIN tab.peoes = Jogadores
  BY DEF Tipos, ElencoCompleto, Ativo, Turno
<1>2. CASE Seleciona \/ Gira \/ \E r, b : EscolheVaga(r, b)
  <2>1. /\ UNCHANGED <<jogadores, turno, iluminadas>> /\ tab'.peoes = tab.peoes
        /\ Pendentes(tab') = Pendentes(tab)
    BY <1>2 DEF Seleciona, Gira, EscolheVaga, Delegado, MesmasForas
  <2>2. Mesa(tab') = Mesa(tab) /\ \A p \in Mesa(tab) : CelulaDe(tab', p) = CelulaDe(tab, p)
    BY <1>2 DEF Seleciona, Gira, EscolheVaga, Mesa, CelulaDe
  <2>3. QED
    BY <1>1, <2>1, <2>2, ClaraParada
<1>3. CASE \E p : Move(p)
  <2>1. PICK p : Move(p)
    BY <1>3
  <2>2. /\ UNCHANGED <<jogadores, turno, iluminadas>> /\ ~Definida
        /\ tab'.peoes = [tab.peoes EXCEPT ![Ativo] = p] /\ tab'.posicionadas = tab.posicionadas
    BY <2>1 DEF Move, Definida
  <2>3. Mesa(tab') = Mesa(tab) /\ \A q \in Mesa(tab) : CelulaDe(tab', q) = CelulaDe(tab, q)
    BY <2>2 DEF Mesa, CelulaDe
  <2>4. QED
    BY <1>1, <2>2, <2>3, ClaraParada
<1>4. CASE \E c : Atravessa(c)
  <2>1. PICK c : Atravessa(c)
    BY <1>4
  <2>2. /\ UNCHANGED <<jogadores, iluminadas>> /\ ~Definida /\ ~turno.atravessou
        /\ tab'.peoes = tab.peoes /\ tab'.posicionadas = tab.posicionadas
    BY <2>1 DEF Atravessa, Definida
  <2>3. Mesa(tab') = Mesa(tab) /\ \A q \in Mesa(tab) : CelulaDe(tab', q) = CelulaDe(tab, q)
    BY <2>2 DEF Mesa, CelulaDe
  <2>4. /\ turno'.ativo = turno.ativo /\ turno'.inicio = turno.inicio
        /\ turno'.confirmada = turno.confirmada
    BY <2>1 DEF Atravessa, Tipos, Turno
  <2>5. QED
    BY <1>1, <2>2, <2>3, <2>4, ClaraParada
<1>5. CASE \E p : PoeInicial(p)
  <2>1. PICK p : PoeInicial(p)
    BY <1>5
  <2>2. /\ Comecando /\ p = <<"inicial", Ativo>> /\ p \notin Mesa(tab) /\ tab'.peoes = tab.peoes
        /\ jogadores' = jogadores /\ turno' = turno
    BY <2>1 DEF PoeInicial, Delegado
  <2>3. NoPeao = Nada
    <3>1. NoPeao = Nada \/ NoPeao = p
      BY <1>1, <2>2 DEF Ordem, PorEntrar, Comecando, NoPeao
    <3>2. NoPeao = Nada \/ NoPeao \in Mesa(tab)
      BY <1>1 DEF Bom, PeoesSobrePecas, NoPeao
    <3>3. QED
      BY <2>2, <3>1, <3>2
  <2>4. (Ativo)' = Ativo /\ (Comecando)' /\ (NoPeao)' = Nada /\ ~turno'.confirmada
    BY <2>2, <2>3 DEF Ativo, Comecando, NoPeao, Ordem
  <2>5. QED
    BY <2>4 DEF ClaraDepois, ClaraAntes
<1>6. CASE \E p : PoeRecebida(p)
  BY <1>6, ClaraPoeRecebida
<1>7. CASE \E p : PoePeao(p)
  <2>1. PICK p : PoePeao(p)
    BY <1>7
  <2>2. /\ turno' = turno /\ Comecando /\ NoPeao = Nada
        /\ Clareada(tab', jogadores', iluminadas')
        /\ Pendentes(tab') # {} => jogadores[Ativo].baixa \/ ~jogadores'[Ativo].baixa
        /\ jogadores'[Ativo].primeiroTurno = jogadores[Ativo].primeiroTurno
    BY <1>1, <2>1 DEF PoePeao, ElencoCompleto
  <2>3. ~jogadores[Ativo].baixa /\ ~turno.confirmada
    BY <1>1, <2>2 DEF Ordem, PorEntrar, Comecando, NoPeao
  <2>4. (Ativo)' = Ativo /\ (Comecando)'
    BY <2>2 DEF Ativo, Comecando
  <2>5. QED
    BY <2>2, <2>3, <2>4 DEF ClaraDepois, ClaraAntes
<1>8. CASE Confirma
  <2>1. turno'.confirmada /\ turno'.ativo = turno.ativo
    BY <1>8 DEF Confirma, Tipos, Turno
  <2>2. (Ativo)' = Ativo
    BY <2>1 DEF Ativo
  <2>3. QED
    BY <1>8, <2>1, <2>2 DEF Confirma, ClaraDepois, ClaraAntes
<1>9. CASE Abandona
  BY <1>9 DEF Abandona, ElencoCompleto
<1>10. QED
  BY <1>2, <1>3, <1>4, <1>5, <1>6, <1>7, <1>8, <1>9 DEF NaMesmaVez

LEMMA PeaoNoInicio ==
  ASSUME tab \in Tabuleiros, NoPeao = turno.inicio
  PROVE  NoInicio = tab
<1>1. tab.peoes \in Parcial(Jogadores, Pecas \cup {Nada})
  BY DEF Tabuleiros
<1>2. tab.peoes = [k \in DOMAIN tab.peoes |-> tab.peoes[k]]
  BY <1>1, ParcialDe
<1>3. [tab.peoes EXCEPT ![Ativo] = turno.inicio] = tab.peoes
  BY <1>2 DEF NoPeao
<1>4. tab = [tab EXCEPT !.peoes = tab.peoes]
  BY DEF Tabuleiros
<1>5. NoInicio = [tab EXCEPT !.peoes = [tab.peoes EXCEPT ![Ativo] = turno.inicio]]
  BY DEF NoInicio
<1>6. QED
  BY <1>3, <1>4, <1>5

LEMMA ClaraPassa ==
  ASSUME Tipos, Tipos', NaVez, ElencoCompleto, ElencoCompleto', ClaraDepois, ClaraAntes,
         Passa, PassaCompleta
  PROVE  ClaraDepois' /\ ClaraAntes'
<1>1. /\ tab'.peoes = tab.peoes /\ (Encerra \/ Fica)
      /\ ~turno'.confirmada /\ turno'.inicio = tab'.peoes[turno'.ativo]
      /\ tab'.recebidas = <<>> /\ (Ativo)' = turno'.ativo
      /\ DOMAIN jogadores = Jogadores /\ DOMAIN jogadores' = Jogadores
      /\ tab \in Tabuleiros /\ tab' \in Tabuleiros
  BY DEF PassaCompleta, Passa, ElencoCompleto, Ativo, Tipos, Bom
<1>2. Clareada(tab', jogadores', iluminadas')
  <2>1. CASE Encerra
    <3>1. Clareada(tab, jogadores, iluminadas)
      BY <2>1 DEF Encerra, ClaraDepois
    <3>2. /\ EmBaixa(jogadores') = EmBaixa(jogadores) /\ iluminadas' = iluminadas
          /\ Mesa(tab') = Mesa(tab) /\ \A q \in Mesa(tab) : CelulaDe(tab', q) = CelulaDe(tab, q)
      BY <2>1 DEF Encerra, Mesa, CelulaDe
    <3>3. QED
      BY <1>1, <3>1, <3>2, ClareadaMesma
  <2>2. CASE Fica
    <3>1. ~TravessiaEmMonstro => Clareada(tab, jogadores, iluminadas)
      <4>1. SUFFICES ASSUME ~TravessiaEmMonstro
                     PROVE  Clareada(tab, jogadores, iluminadas)
        OBVIOUS
      <4>2. NoPeao = turno.inicio /\ Clareada(NoInicio, jogadores, iluminadas)
        BY <2>2, <4>1 DEF Fica, ClaraAntes
      <4>3. NoInicio = tab
        BY <1>1, <4>2, PeaoNoInicio
      <4>4. QED
        BY <4>2, <4>3
    <3>2. QED
      BY <2>2, <3>1 DEF Fica
  <2>3. QED
    BY <1>1, <2>1, <2>2
<1>3. Clareada((NoInicio)', jogadores', iluminadas')
  <2>1. PICK n \in Tabuleiros : n = tab'
    BY <1>1
  <2>2. PICK a : a = turno'.ativo
    OBVIOUS
  <2>3. n.peoes = [k \in DOMAIN n.peoes |-> n.peoes[k]]
    <3>1. n.peoes \in Parcial(Jogadores, Pecas \cup {Nada})
      BY DEF Tabuleiros
    <3>2. QED
      BY <3>1, ParcialDe
  <2> DEFINE w == [n EXCEPT !.peoes[a] = n.peoes[a]]
  <2>4. w.peoes = [n.peoes EXCEPT ![a] = n.peoes[a]] /\ w.posicionadas = n.posicionadas
    BY DEF Tabuleiros
  <2> HIDE DEF w
  <2>5. w.peoes = n.peoes
    BY <2>3, <2>4
  <2>6. Mesa(w) = Mesa(n) /\ \A q \in Mesa(n) : CelulaDe(w, q) = CelulaDe(n, q)
    BY <2>4 DEF Mesa, CelulaDe
  <2>7. Clareada(n, jogadores', iluminadas')
    BY <1>2, <2>1
  <2>8. Clareada(w, jogadores', iluminadas')
    BY <2>5, <2>6, <2>7, ClareadaMesma
  <2>9. (NoInicio)' = w
    BY <1>1, <2>1, <2>2 DEF NoInicio, w
  <2>10. QED
    BY <2>8, <2>9
<1>4. Pendentes(tab') = {}
  BY <1>1, ParcialVazia DEF Pendentes
<1>5. QED
  BY <1>2, <1>3, <1>4 DEF ClaraDepois, ClaraAntes

-----------------------------------------------------------------------------
(* The invariant of the light, while the match goes on with everybody.     *)

Luzes == resultado = Nada /\ ElencoCompleto => Ordem /\ ClaraDepois /\ ClaraAntes
TurnosComLuz == Turnos /\ Luzes

(* No command is accepted after the end, and nobody comes back.            *)
LEMMA PassoAberto ==
  ASSUME Tipos, Passo
  PROVE  resultado = Nada
<1>1. PICK j \in Jogadores :
           \/ \E p : SelecionarAPeca(j, p)
           \/ \E p \in PecasEmJogo, passo \in {Horario, AntiHorario} : GirarAPeca(j, p, passo)
           \/ FinalizarManipulacao(j) \/ SelecionarOPeao(j) \/ DesselecionarOPeao(j)
           \/ \E p, c : c \in Celulas /\ PosicionarAInicial(j, p, c)
           \/ \E p, c : c \in Celulas /\ EncaixarInicialDoBot(j, p, c)
           \/ \E p, c : PosicionarARecebida(j, p, c)
           \/ \E p, c : EncaixarRecebidaDoBot(j, p, c)
           \/ \E r, b : EscolherAVaga(j, r, b)
           \/ \E p : p \in Mesa(tab) /\ PosicionarOPeao(j, p)
           \/ \E p : MoverOPeao(j, p)
           \/ \E c : c \in Celulas /\ AtravessarOEscuro(j, c)
           \/ Permanecer(j) \/ ConfirmarPosicao(j) \/ EncerrarTurno(j) \/ Desistir(j)
  BY PassoDosRamos, Zenon
<1>2. DaVez(j) => resultado = Nada
  BY DEF DaVez
<1>3. ASSUME NEW p, NEW c, NEW passo,
             \/ SelecionarAPeca(j, p) \/ GirarAPeca(j, p, passo) \/ FinalizarManipulacao(j)
             \/ SelecionarOPeao(j) \/ DesselecionarOPeao(j) \/ PosicionarAInicial(j, p, c)
             \/ EncaixarInicialDoBot(j, p, c) \/ PosicionarARecebida(j, p, c)
             \/ EncaixarRecebidaDoBot(j, p, c) \/ EscolherAVaga(j, p, c)
      PROVE  DaVez(j)
  BY <1>3, Zenon DEF SelecionarAPeca, PodeSelecionarAPeca, GirarAPeca, PodeGirarAPeca,
       FinalizarManipulacao, SelecionarOPeao, PodeSelecionarOPeao, DesselecionarOPeao,
       PosicionarAInicial, PodePosicionarAInicial, EncaixarInicialDoBot,
       PosicionarARecebida, PodePosicionarARecebida, EncaixarRecebidaDoBot,
       EscolherAVaga, PodeEscolherAVaga
<1>4. ASSUME NEW p, NEW c,
             \/ PosicionarOPeao(j, p) \/ MoverOPeao(j, p) \/ AtravessarOEscuro(j, c)
             \/ Permanecer(j) \/ ConfirmarPosicao(j) \/ EncerrarTurno(j)
      PROVE  DaVez(j)
  BY <1>4, Zenon DEF PosicionarOPeao, PodePosicionarOPeao, MoverOPeao, PodeMoverOPeao,
       AtravessarOEscuro, PodeAtravessar, Permanecer, PodePermanecerNaPeca,
       ConfirmarPosicao, PodeConfirmar, EncerrarTurno, PodeEncerrar, SemPassoDefinitivo
<1>5. Desistir(j) => resultado = Nada
  BY DEF Desistir
<1>6. QED
  BY <1>1, <1>2, <1>3, <1>4, <1>5, Zenon

LEMMA LuzesSegue ==
  ASSUME TurnosComLuz, Passo
  PROVE  TurnosComLuz'
<1>1. /\ Turnos /\ Luzes /\ Tipos /\ NaVez /\ VagasAbertas
      /\ resultado = Nada
  BY PassoAberto DEF TurnosComLuz, Turnos, Encaixada
<1>2. Turnos' /\ Tipos'
  BY <1>1, TurnosSegue DEF Turnos
<1>3. NaMesmaVez \/ (Passa /\ PassaCompleta)
  BY <1>1, PassoPorTipo DEF NaVez
<1>4. ASSUME resultado' = Nada, ElencoCompleto'
      PROVE  Ordem' /\ ClaraDepois' /\ ClaraAntes'
  <2>1. ElencoCompleto
    <3>1. DOMAIN jogadores' \subseteq DOMAIN jogadores
      BY <1>1, <1>2, <1>3, MesmaVezSegue DEF Segue, Passa
    <3>2. DOMAIN jogadores \subseteq Jogadores
      BY <1>1, ElencoDe DEF Tipos
    <3>3. QED
      BY <1>4, <3>1, <3>2 DEF ElencoCompleto
  <2>2. Ordem /\ ClaraDepois /\ ClaraAntes
    BY <1>1, <2>1 DEF Luzes
  <2>3. CASE NaMesmaVez
    BY <1>1, <1>2, <1>4, <2>1, <2>2, <2>3, OrdemFica, ClaraFica
  <2>4. CASE Passa /\ PassaCompleta
    BY <1>1, <1>2, <1>4, <2>1, <2>2, <2>4, OrdemPassa, ClaraPassa
  <2>5. QED
    BY <1>3, <2>3, <2>4
<1>5. Luzes'
  BY <1>4 DEF Luzes
<1>6. QED
  BY <1>2, <1>5 DEF TurnosComLuz

LEMMA LuzesVaza ==
  ASSUME TurnosComLuz, UNCHANGED varsDaPartida
  PROVE  TurnosComLuz'
<1>1. Turnos'
  BY TurnosVaza DEF TurnosComLuz
<1>2. /\ tab' = tab /\ turno' = turno /\ jogadores' = jogadores /\ iluminadas' = iluminadas
      /\ resultado' = resultado
  BY DEF varsDaPartida
<1>3. Luzes'
  <2>1. (Ativo)' = Ativo /\ ((Comecando)' <=> Comecando) /\ (NoPeao)' = NoPeao
        /\ (NoInicio)' = NoInicio
    BY <1>2 DEF Ativo, Comecando, NoPeao, NoInicio
  <2>2. Ordem => Ordem'
    BY <1>2, <2>1 DEF Ordem, PrimeirosTurnos, PorEntrar
  <2>3. (ClaraDepois => ClaraDepois') /\ (ClaraAntes => ClaraAntes')
    BY <1>2, <2>1 DEF ClaraDepois, ClaraAntes
  <2>4. QED
    BY <1>2, <2>2, <2>3 DEF TurnosComLuz, Luzes, ElencoCompleto
<1>4. QED
  BY <1>1, <1>3 DEF TurnosComLuz

LEMMA LuzesNoInicio ==
  ASSUME Init
  PROVE  TurnosComLuz
<1>1. Turnos /\ Tipos
  BY TurnosNoInicio DEF Turnos
<1>2. PICK c \in Caixas : tab = TabuleiroInicial(Jogadores, c)
  BY DEF Init
<1>3. c \in Seq(PecasDaCaixa)
  BY PartidaAssumption
<1>4. /\ Mesa(tab) = {} /\ Pendentes(tab) = {} /\ DOMAIN tab.iniciais = {"inicial"} \X Jogadores
      /\ tab.caixa = c /\ tab.peoes = [j \in Jogadores |-> Nada]
  BY <1>2, ParcialVazia DEF TabuleiroInicial, Pendentes, Mesa
<1>5. /\ turno.ativo = 1 /\ turno.rodada = 1 /\ ~turno.confirmada
      /\ \A k \in Jogadores : /\ jogadores[k].primeiroTurno
                              /\ ~jogadores[k].baixa /\ ~jogadores[k].amedrontado
      /\ Jogadores \subseteq Nat /\ 1 \in Jogadores /\ \A k \in Jogadores : k >= 1
  BY PartidaAssumption DEF Init, Jogadores
<1>6. (Mesa(tab) \cup Fora(tab)) \cap PecasIniciais \subseteq {"inicial"} \X Jogadores
  <2>1. PecasDa(tab.caixa) \subseteq PecasDaCaixa
    <3>1. \A i \in DOMAIN c : c[i] \in PecasDaCaixa
      BY <1>3
    <3>2. QED
      BY <1>4, <3>1 DEF PecasDa
  <2>2. QED
    BY <1>4, <2>1, TiposDistintos DEF Fora
<1>7. Ativo = 1 /\ Comecando /\ NoPeao = Nada
  BY <1>4, <1>5 DEF Ativo, Comecando, NoPeao
<1>8. PrimeirosTurnos
  BY <1>5, <1>7 DEF PrimeirosTurnos
<1>9. PorEntrar
  BY <1>4, <1>5 DEF PorEntrar
<1>10. \A k \in Jogadores : ~(k < Ativo)
  BY <1>5, <1>7
<1>11. QED
  BY <1>1, <1>5, <1>6, <1>7, <1>8, <1>9, <1>10
    DEF TurnosComLuz, Luzes, Ordem, ClaraDepois, ClaraAntes

(***************************************************************************)
(* Before the pawn of a turn moves, the light cached at the last definitive*)
(* point is the light of the board and nothing lies in the dark without a  *)
(* pawn: no command between two definitive points (a turn, an encaixe, a   *)
(* crossing) leaves the cache behind (partida.ts, celulasIluminadas).      *)
(***************************************************************************)
THEOREM LuzSempre == (Spec => []LuzEmDia) /\ (SpecComBots => []LuzEmDia)
<1>1. Init => TurnosComLuz
  BY LuzesNoInicio
<1>2. TurnosComLuz /\ [Next]_varsDaPartida => TurnosComLuz'
  BY NextPasso, LuzesSegue, LuzesVaza DEF TurnosComLuz, Turnos
<1>3. InitComBots => TurnosComLuz
  BY LuzesNoInicio DEF InitComBots
<1>4. TurnosComLuz /\ [NextComBots]_vars => TurnosComLuz'
  BY NextComBotsPasso, LuzesSegue, LuzesVaza DEF TurnosComLuz, Turnos, vars, varsDaPartida
<1>5. TurnosComLuz => LuzEmDia
  <2>1. SUFFICES ASSUME TurnosComLuz, resultado = Nada, ElencoCompleto, ~Comecando,
                        ~turno.confirmada, ~turno.atravessou, NoPeao = turno.inicio
                 PROVE  Clareada(tab, jogadores, iluminadas)
    BY DEF LuzEmDia, Comecando, NoPeao, Ativo, Clareada
  <2>2. Clareada(NoInicio, jogadores, iluminadas) /\ tab \in Tabuleiros
    BY <2>1 DEF TurnosComLuz, Luzes, ClaraAntes, Turnos, Tipos, Bom
  <2>3. NoInicio = tab
    BY <2>1, <2>2, PeaoNoInicio
  <2>4. QED
    BY <2>2, <2>3
<1>6. QED
  BY <1>1, <1>2, <1>3, <1>4, <1>5, PTL DEF Spec, SpecComBots

-----------------------------------------------------------------------------
(* What a turn after the first one still has to do, and how it can.        *)

(* Only a drawn piece can be turned.                                       *)
ViraRecebida == tab.manipulacao \in PecasDaCaixa \cup {Nada}

(* The piece that waits at an edge is selected, and its cell is empty.     *)
Escolhidas ==
  \A r \in Pendentes(tab) : tab.recebidas[r].vaga # Nada =>
    tab.selecionada = r /\ Vazia(tab, tab.recebidas[r].alvo)

(* A crossing has one piece for one free edge, or the piece it put there,  *)
(* to which the pawn can go.                                               *)
TravessiaAberta ==
  turno.atravessou /\ ~turno.confirmada =>
    /\ Unica(Pendentes(tab)) /\ (Pendentes(tab) # {} => turno.travessia = Nada)
    /\ \A r \in Pendentes(tab) : \E b \in Livres(tab, NoPeao) :
         tab.recebidas[r].alvo = Vizinha(CelulaDe(tab, NoPeao), b)
    /\ turno.travessia # Nada =>
         /\ turno.travessia \in Mesa(tab) /\ Ocupantes(tab, turno.travessia) \subseteq {Ativo}
         /\ NoPeao = turno.travessia \/ turno.travessia \in VizinhasConectadas(tab, NoPeao)

(* After the confirmation there is an edge for each piece that is left.    *)
Sobras ==
  turno.confirmada /\ Pendentes(tab) # {} =>
    /\ tab.manipulacao # NoPeao /\ IsFiniteSet(Pendentes(tab))
    /\ Cardinality(Pendentes(tab)) <= Cardinality(Livres(tab, NoPeao))

EmAberto == ViraRecebida /\ Escolhidas /\ TravessiaAberta /\ Sobras

(* The steps of a turn after the first one.                                *)
NoMeio ==
  \/ Seleciona \/ Gira \/ \E p : PoeRecebida(p) \/ Move(p)
  \/ \E r, b : EscolheVaga(r, b)
  \/ \E c : Atravessa(c)
  \/ Confirma

LEMMA DepoisDoPrimeiro ==
  ASSUME Tipos, NaVez, ~Comecando
  PROVE  /\ Ativo \in DOMAIN jogadores /\ Ativo \in DOMAIN tab.peoes
         /\ NoPeao \in Mesa(tab) /\ NoPeao # Nada /\ ~EhMonstro(NoPeao)
<1>1. Ativo \in DOMAIN jogadores /\ Ativo \in DOMAIN tab.peoes
  BY DEF Tipos, Ativo
<1>2. NoPeao # Nada
  BY <1>1 DEF NaVez, Comecando, NoPeao
<1>3. QED
  BY <1>1, <1>2 DEF Tipos, Bom, PeoesSobrePecas, NoPeao

LEMMA PassosDoMeio ==
  ASSUME Tipos, Tipos', ElencoCompleto, ElencoCompleto', ~Comecando, NaMesmaVez
  PROVE  /\ NoMeio /\ (Ativo)' = Ativo /\ (NoPeao)' = tab'.peoes[Ativo]
         /\ (~Comecando)'
<1>1. Segue
  BY MesmaVezSegue
<1>2. (Ativo)' = Ativo /\ (NoPeao)' = tab'.peoes[Ativo] /\ (~Comecando)'
  BY <1>1 DEF Segue, Ativo, NoPeao, Comecando
<1>3. NoMeio
  BY DEF NaMesmaVez, NoMeio, PoeInicial, PoePeao, Abandona, ElencoCompleto
<1>4. QED
  BY <1>2, <1>3

(* The commands that put or take no piece.                                 *)
LEMMA CelulasParadas ==
  ASSUME Seleciona \/ Gira \/ (\E p : Move(p)) \/ (\E r, b : EscolheVaga(r, b)) \/ \E c : Atravessa(c)
  PROVE  /\ Mesa(tab') = Mesa(tab)
         /\ \A q \in Mesa(tab) : CelulaDe(tab', q) = CelulaDe(tab, q)
         /\ \A c : Vazia(tab', c) <=> Vazia(tab, c)
<1>1. Mesa(tab') = Mesa(tab) /\ \A q \in Mesa(tab) : CelulaDe(tab', q) = CelulaDe(tab, q)
  <2>1. CASE Gira
    BY <2>1 DEF Gira
  <2>2. CASE tab'.posicionadas = tab.posicionadas
    BY <2>2 DEF Mesa, CelulaDe
  <2>3. QED
    BY <2>1, <2>2 DEF Seleciona, Move, EscolheVaga, Atravessa
<1>2. QED
  BY <1>1 DEF Vazia

LEMMA LivresParadas ==
  ASSUME NEW t, NEW n, NEW p \in Mesa(t), Aberturas(n, p) = Aberturas(t, p),
         CelulaDe(n, p) = CelulaDe(t, p), \A c : Vazia(n, c) <=> Vazia(t, c)
  PROVE  Livres(n, p) = Livres(t, p)
  BY DEF Livres

LEMMA ViraRecebidaFica ==
  ASSUME ViraRecebida, NoMeio
  PROVE  tab'.manipulacao \in PecasDaCaixa \cup {Nada}
  BY DEF ViraRecebida, NoMeio, Seleciona, Gira, PoeRecebida, Move, EscolheVaga, Atravessa, Confirma

LEMMA EscolhidasFica ==
  ASSUME Tipos, Tipos', NaVez, Escolhidas, NoMeio,
         Comecando /\ Pendentes(tab) # {} => <<"inicial", Ativo>> \notin DOMAIN tab.iniciais
  PROVE  \A r \in Pendentes(tab') : tab'.recebidas[r].vaga # Nada =>
           tab'.selecionada = r /\ Vazia(tab', tab'.recebidas[r].alvo)
<1>1. CASE Seleciona
  <2>1. /\ tab'.recebidas = tab.recebidas
        /\ Pendentes(tab) # {} => tab'.selecionada = tab.selecionada
    BY <1>1 DEF Seleciona, MesmaSelecao
  <2>2. QED
    BY <1>1, <2>1, CelulasParadas DEF Escolhidas, Pendentes
<1>2. CASE Gira
  <2>1. /\ Pendentes(tab') = Pendentes(tab)
        /\ Pendentes(tab) # {} => tab'.selecionada = tab.selecionada
        /\ \A r \in Pendentes(tab) : /\ tab'.recebidas[r].vaga = tab.recebidas[r].vaga
                                     /\ tab'.recebidas[r].alvo = tab.recebidas[r].alvo
    BY <1>2 DEF Gira, MesmaSelecao, MesmasForas
  <2>2. QED
    BY <1>2, <2>1, CelulasParadas DEF Escolhidas
<1>3. ASSUME NEW p, PoeRecebida(p)
      PROVE  \A r \in Pendentes(tab') : tab'.recebidas[r].vaga = Nada
  <2>1. /\ p \in Pendentes(tab) /\ Pendentes(tab') = Pendentes(tab) \ {p} /\ tab.recebidas[p].vaga # Nada
        /\ \A r \in Pendentes(tab') : tab'.recebidas[r].vaga = tab.recebidas[r].vaga
    BY <1>3 DEF PoeRecebida
  <2>2. QED
    BY <2>1 DEF Escolhidas
<1>4. ASSUME NEW p, Move(p)
      PROVE  Pendentes(tab') = {}
  BY <1>4, ParcialVazia DEF Move, Pendentes
<1>5. ASSUME NEW r, NEW b, EscolheVaga(r, b)
      PROVE  \A q \in Pendentes(tab') : tab'.recebidas[q].vaga # Nada =>
               tab'.selecionada = q /\ Vazia(tab', tab'.recebidas[q].alvo)
  <2>1. /\ UnicaEscolhida(r) /\ Pendentes(tab') = Pendentes(tab)
        /\ \A q \in Pendentes(tab) \ {r} : tab'.recebidas[q] = tab.recebidas[q]
    BY <1>5 DEF EscolheVaga, MesmasForas
  <2>2. \A c : Vazia(tab', c) <=> Vazia(tab, c)
    BY <1>5, CelulasParadas
  <2>3. QED
    BY <2>1, <2>2 DEF UnicaEscolhida
<1>6. (\E c : Atravessa(c)) \/ Confirma => \A r \in Pendentes(tab') : tab'.recebidas[r].vaga = Nada
  BY DEF Atravessa, Confirma
<1>7. QED
  BY <1>1, <1>2, <1>3, <1>4, <1>5, <1>6 DEF NoMeio

(* In a crossing no piece that was drawn is under the pawn and being turned*)
(* unless it is the one of the crossing.                                   *)
LEMMA PecaDebaixo ==
  ASSUME Tipos, NaVez, ~Comecando, ~turno.confirmada, PecaEncaixada, ViraRecebida
  PROVE  tab.manipulacao \in Mesa(tab) =>
           turno.atravessou /\ tab.manipulacao = turno.travessia /\ tab.peao = Ativo
<1>1. SUFFICES ASSUME tab.manipulacao \in Mesa(tab)
               PROVE  turno.atravessou /\ tab.manipulacao = turno.travessia /\ tab.peao = Ativo
  OBVIOUS
<1>2. Mesa(tab) \subseteq Pecas /\ Nada \notin Pecas
  BY MesaDe, TiposDistintos DEF Tipos, Bom
<1>3. tab.manipulacao \in Mesa(tab) \cap PecasDaCaixa
  BY <1>1, <1>2 DEF ViraRecebida
<1>4. QED
  BY <1>3 DEF PecaEncaixada, Definida

(* TravessiaAberta after a step, and in terms of the pawn before it.       *)
TravessiaDepois ==
  turno'.atravessou /\ ~turno'.confirmada =>
    LET p == tab'.peoes[Ativo]
    IN  /\ Unica(Pendentes(tab')) /\ (Pendentes(tab') # {} => turno'.travessia = Nada)
        /\ \A r \in Pendentes(tab') : \E b \in Livres(tab', p) :
             tab'.recebidas[r].alvo = Vizinha(CelulaDe(tab', p), b)
        /\ turno'.travessia # Nada =>
             /\ turno'.travessia \in Mesa(tab') /\ Ocupantes(tab', turno'.travessia) \subseteq {Ativo}
             /\ p = turno'.travessia \/ turno'.travessia \in VizinhasConectadas(tab', p)

LEMMA TravessiaSelecionaGira ==
  ASSUME Tipos, Tipos', NaVez, PecaEncaixada, ~Comecando, ViraRecebida, TravessiaAberta, Seleciona \/ Gira
  PROVE  TravessiaDepois
<1>1. SUFFICES ASSUME turno.atravessou, ~turno.confirmada PROVE TravessiaDepois
  BY DEF Seleciona, Gira, Delegado, TravessiaDepois
<1>2. /\ NoPeao \in Mesa(tab) /\ NoPeao # Nada /\ tab'.peoes = tab.peoes /\ tab'.peoes[Ativo] = NoPeao
      /\ turno' = turno /\ Pendentes(tab') = Pendentes(tab)
  BY DepoisDoPrimeiro DEF Seleciona, Gira, Delegado, MesmasForas, NoPeao
<1>3. /\ Mesa(tab') = Mesa(tab) /\ \A q \in Mesa(tab) : CelulaDe(tab', q) = CelulaDe(tab, q)
      /\ \A c : Vazia(tab', c) <=> Vazia(tab, c)
  BY CelulasParadas
<1>4. \A r \in Pendentes(tab) : tab'.recebidas[r].alvo = tab.recebidas[r].alvo
  BY DEF Seleciona, Gira
<1>5. \A q : Ocupantes(tab', q) = Ocupantes(tab, q)
  BY <1>2 DEF Ocupantes
<1>6. \/ tab'.posicionadas = tab.posicionadas
      \/ /\ tab.manipulacao = turno.travessia /\ tab.peao = Ativo /\ turno.travessia \in Mesa(tab)
         /\ \A q \in Mesa(tab) \ {turno.travessia} : tab'.posicionadas[q] = tab.posicionadas[q]
         /\ GiroMantemConexao(tab, turno.travessia, tab'.posicionadas[turno.travessia].orientacao)
  BY <1>1, PecaDebaixo DEF Seleciona, Gira
<1>7. Pendentes(tab) # {} => Livres(tab', NoPeao) = Livres(tab, NoPeao)
  <2>1. SUFFICES ASSUME Pendentes(tab) # {} PROVE Livres(tab', NoPeao) = Livres(tab, NoPeao)
    OBVIOUS
  <2>2. turno.travessia = Nada
    BY <1>1, <2>1 DEF TravessiaAberta
  <2>3. tab'.posicionadas[NoPeao] = tab.posicionadas[NoPeao]
    BY <1>2, <1>6, <2>2
  <2>4. Aberturas(tab', NoPeao) = Aberturas(tab, NoPeao)
    BY <2>3 DEF Aberturas
  <2>5. QED
    BY <1>2, <1>3, <2>4, LivresParadas
<1>8. ASSUME turno.travessia # Nada
      PROVE  NoPeao = turno.travessia \/ turno.travessia \in VizinhasConectadas(tab', NoPeao)
  <2>1. turno.travessia \in Mesa(tab) /\ NoPeao # turno.travessia =>
          turno.travessia \in VizinhasConectadas(tab, NoPeao)
    BY <1>1, <1>8 DEF TravessiaAberta
  <2>2. CASE tab'.posicionadas = tab.posicionadas
    BY <1>1, <1>8, <2>2 DEF TravessiaAberta, VizinhasConectadas, LigadaPela, Mesa, CelulaDe, Aberturas
  <2>3. CASE /\ tab.manipulacao = turno.travessia /\ tab.peao = Ativo /\ turno.travessia \in Mesa(tab)
             /\ \A q \in Mesa(tab) \ {turno.travessia} : tab'.posicionadas[q] = tab.posicionadas[q]
             /\ GiroMantemConexao(tab, turno.travessia, tab'.posicionadas[turno.travessia].orientacao)
             /\ NoPeao # turno.travessia
    <3>1. PecaSob(tab, tab.peao) = NoPeao
      <4>1. Ativo # Nada
        BY PartidaAssumption DEF Tipos, Turno, Ativo, Jogadores
      <4>2. QED
        BY <1>2, <2>3, <4>1, DepoisDoPrimeiro DEF PecaSob, NoPeao
    <3>2. tab \in Tabuleiros /\ tab'.posicionadas[NoPeao] = tab.posicionadas[NoPeao]
      BY <1>2, <2>3 DEF Tipos, Bom
    <3>3. PICK n, q : n = tab' /\ q = turno.travessia
      OBVIOUS
    <3>4. /\ q \in Mesa(tab) /\ NoPeao # q /\ q \in VizinhasConectadas(tab, NoPeao) /\ q \in Mesa(n)
          /\ n.posicionadas[NoPeao] = tab.posicionadas[NoPeao] /\ CelulaDe(n, q) = CelulaDe(tab, q)
          /\ GiroMantemConexao(tab, q, n.posicionadas[q].orientacao)
      BY <1>3, <2>1, <2>3, <3>2, <3>3
    <3>5. q \in VizinhasConectadas(n, NoPeao)
      BY <1>2, <3>1, <3>2, <3>4, GiroConectado
    <3>6. QED
      BY <3>3, <3>5
  <2>4. QED
    BY <1>6, <2>2, <2>3
<1>9. QED
  BY <1>1, <1>2, <1>3, <1>4, <1>5, <1>7, <1>8 DEF TravessiaAberta, TravessiaDepois

LEMMA TravessiaPoe ==
  ASSUME Tipos, Tipos', NaVez, VagasAbertas, ~Comecando, TravessiaAberta, NEW p, PoeRecebida(p)
  PROVE  TravessiaDepois
<1>1. /\ turno'.atravessou = turno.atravessou /\ turno'.confirmada = turno.confirmada
      /\ turno.atravessou => turno'.travessia = p
  BY DEF PoeRecebida, Tipos, Turno
<1>2. SUFFICES ASSUME turno.atravessou, ~turno.confirmada PROVE TravessiaDepois
  BY <1>1 DEF TravessiaDepois
<1>3. /\ NoPeao \in Mesa(tab) /\ tab'.peoes = tab.peoes /\ tab'.peoes[Ativo] = NoPeao
      /\ p \in Pendentes(tab) /\ Pendentes(tab') = Pendentes(tab) \ {p} /\ p \in Mesa(tab')
      /\ p \notin Mesa(tab) /\ Mesa(tab) \subseteq Mesa(tab')
      /\ tab'.posicionadas[NoPeao] = tab.posicionadas[NoPeao]
  BY DepoisDoPrimeiro DEF PoeRecebida, NoPeao
<1>4. Pendentes(tab') = {}
  BY <1>2, <1>3 DEF TravessiaAberta, Unica
<1>5. Ocupantes(tab', p) = {}
  <2>1. \A k \in DOMAIN tab.peoes : tab.peoes[k] # Nada => tab.peoes[k] \in Mesa(tab)
    BY DEF Tipos, Bom, PeoesSobrePecas
  <2>2. p # Nada
    <3>1. Pendentes(tab) \subseteq PecasDaCaixa
      BY MesaDe DEF Tipos, Bom
    <3>2. QED
      BY <1>3, <3>1, TiposDistintos DEF Pecas
  <2>3. QED
    BY <1>3, <2>1, <2>2 DEF Ocupantes
<1>6. p \in VizinhasConectadas(tab', NoPeao)
  <2> DEFINE b == tab.recebidas[p].vaga
  <2>1. b \in Aberturas(tab, NoPeao) /\ CelulaDe(tab', p) = Vizinha(CelulaDe(tab, NoPeao), b)
        /\ Oposta(b) \in Aberturas(tab', p)
    BY <1>3 DEF PoeRecebida, VagasAbertas
  <2>2. Aberturas(tab', NoPeao) = Aberturas(tab, NoPeao) /\ CelulaDe(tab', NoPeao) = CelulaDe(tab, NoPeao)
    BY <1>3 DEF Aberturas, CelulaDe
  <2>3. b \in Bordas
    BY <1>3, <2>1, MesaDe DEF Tipos, Bom
  <2> HIDE DEF b
  <2>4. QED
    BY <1>3, <2>1, <2>2, <2>3 DEF VizinhasConectadas, LigadaPela
<1>7. QED
  BY <1>1, <1>2, <1>3, <1>4, <1>5, <1>6 DEF TravessiaDepois, Unica

LEMMA TravessiaVaga ==
  ASSUME Tipos, Tipos', NaVez, ~Comecando, TravessiaAberta, NEW r, NEW b, EscolheVaga(r, b)
  PROVE  TravessiaDepois
<1>1. turno' = turno /\ tab'.posicionadas = tab.posicionadas /\ tab'.peoes = tab.peoes
      /\ Pendentes(tab') = Pendentes(tab) /\ r \in Pendentes(tab)
  BY DEF EscolheVaga, Delegado, MesmasForas
<1>2. SUFFICES ASSUME turno.atravessou, ~turno.confirmada PROVE TravessiaDepois
  BY <1>1 DEF TravessiaDepois
<1>3. NoPeao \in Mesa(tab) /\ tab'.peoes[Ativo] = NoPeao /\ Ativo \in DOMAIN tab.peoes
  BY <1>1, DepoisDoPrimeiro DEF NoPeao
<1>4. tab'.peao = Ativo
  BY DEF EscolheVaga, NaVez
<1>5. PecaSob(tab, tab'.peao) = NoPeao
  <2>1. Ativo # Nada
    BY PartidaAssumption DEF Tipos, Turno, Ativo, Jogadores
  <2>2. QED
    BY <1>3, <1>4, <2>1 DEF PecaSob, NoPeao
<1>6. /\ b \in Aberturas(tab, NoPeao) /\ tab'.recebidas[r].alvo = Vizinha(CelulaDe(tab, NoPeao), b)
      /\ Vazia(tab, tab'.recebidas[r].alvo)
  BY <1>5 DEF EscolheVaga, UnicaEscolhida
<1>7. \A q \in Pendentes(tab) : q = r
  BY <1>1, <1>2 DEF TravessiaAberta, Unica
<1>8. /\ Aberturas(tab', NoPeao) = Aberturas(tab, NoPeao) /\ CelulaDe(tab', NoPeao) = CelulaDe(tab, NoPeao)
      /\ \A c : Vazia(tab', c) <=> Vazia(tab, c)
  BY <1>1 DEF Aberturas, CelulaDe, Vazia, Mesa
<1>9. b \in Livres(tab', NoPeao)
  BY <1>6, <1>8 DEF Livres
<1>10. turno.travessia = Nada
  BY <1>1, <1>2 DEF TravessiaAberta
<1>11. QED
  BY <1>1, <1>2, <1>3, <1>6, <1>7, <1>8, <1>9, <1>10 DEF TravessiaAberta, TravessiaDepois

LEMMA TravessiaFica ==
  ASSUME Tipos, Tipos', NaVez, UmaCasa, PecaEncaixada, VagasAbertas, ~Comecando, ViraRecebida,
         TravessiaAberta, NoMeio
  PROVE  TravessiaDepois
<1>1. ASSUME NEW p, Move(p)
      PROVE  TravessiaDepois
  <2>1. /\ turno' = turno /\ Pendentes(tab) = {} /\ Pendentes(tab') = {} /\ NaZona(p)
        /\ tab'.peoes = [tab.peoes EXCEPT ![Ativo] = p] /\ tab'.posicionadas = tab.posicionadas
    BY <1>1, ParcialVazia DEF Move, Pendentes
  <2>2. SUFFICES ASSUME turno.atravessou, ~turno.confirmada PROVE TravessiaDepois
    BY <2>1 DEF TravessiaDepois
  <2>3. turno.travessia = p /\ p \in Mesa(tab) /\ Ocupantes(tab, p) \subseteq {Ativo}
    BY <2>1, <2>2 DEF UmaCasa, NaZona, TravessiaAberta
  <2>4. Ativo \in DOMAIN tab.peoes
    BY DepoisDoPrimeiro
  <2>5. tab'.peoes[Ativo] = p /\ Mesa(tab') = Mesa(tab) /\ Ocupantes(tab', p) \subseteq {Ativo}
    BY <2>1, <2>3, <2>4 DEF Ocupantes, Mesa
  <2>6. QED
    BY <2>1, <2>2, <2>3, <2>5 DEF TravessiaDepois, Unica
<1>2. ASSUME NEW c, Atravessa(c)
      PROVE  TravessiaDepois
  <2>1. /\ turno'.travessia = turno.travessia /\ ~turno.atravessou
        /\ tab'.peoes = tab.peoes /\ tab'.posicionadas = tab.posicionadas /\ SorteioUnico(c)
        /\ \A r \in Pendentes(tab') : tab'.recebidas[r].alvo = c
    BY <1>2 DEF Atravessa, Tipos, Turno
  <2>2. turno'.travessia = Nada
    BY <2>1 DEF NaVez
  <2>3. tab'.peoes[Ativo] = NoPeao /\ CelulaDe(tab', NoPeao) = CelulaDe(tab, NoPeao)
        /\ Livres(tab', NoPeao) = Livres(tab, NoPeao)
    BY <2>1 DEF NoPeao, CelulaDe, Livres, Aberturas, Vazia, Mesa
  <2>4. QED
    BY <2>1, <2>2, <2>3 DEF TravessiaDepois, SorteioUnico
<1>3. Confirma => TravessiaDepois
  BY DEF Confirma, TravessiaDepois, Tipos, Turno
<1>4. QED
  BY <1>1, <1>2, <1>3, TravessiaSelecionaGira, TravessiaPoe, TravessiaVaga DEF NoMeio

(* Sobras after a step, and in terms of the pawn before it.                *)
SobrasDepois ==
  turno'.confirmada /\ Pendentes(tab') # {} =>
    /\ tab'.manipulacao # tab'.peoes[Ativo] /\ IsFiniteSet(Pendentes(tab'))
    /\ Cardinality(Pendentes(tab')) <= Cardinality(Livres(tab', tab'.peoes[Ativo]))

LEMMA SobrasParadas ==
  ASSUME Tipos, NaVez, ~Comecando, Sobras, Seleciona \/ Gira \/ \E r, b : EscolheVaga(r, b)
  PROVE  SobrasDepois
<1>1. SUFFICES ASSUME turno.confirmada, Pendentes(tab) # {} PROVE SobrasDepois
  BY DEF Seleciona, Gira, EscolheVaga, Delegado, MesmasForas, SobrasDepois
<1>2. /\ NoPeao \in Mesa(tab) /\ NoPeao # Nada /\ tab'.peoes[Ativo] = NoPeao
      /\ Pendentes(tab') = Pendentes(tab) /\ tab'.manipulacao \in {tab.manipulacao, Nada}
  BY DepoisDoPrimeiro DEF Seleciona, Gira, EscolheVaga, MesmasForas, NoPeao
<1>3. tab'.manipulacao # NoPeao /\ tab'.posicionadas[NoPeao] = tab.posicionadas[NoPeao]
  BY <1>1, <1>2 DEF Sobras, Seleciona, Gira, EscolheVaga
<1>4. Aberturas(tab', NoPeao) = Aberturas(tab, NoPeao) /\ CelulaDe(tab', NoPeao) = CelulaDe(tab, NoPeao)
  BY <1>3 DEF Aberturas, CelulaDe
<1>5. \A c : Vazia(tab', c) <=> Vazia(tab, c)
  BY CelulasParadas
<1>6. Livres(tab', NoPeao) = Livres(tab, NoPeao)
  BY <1>2, <1>4, <1>5, LivresParadas
<1>7. QED
  BY <1>1, <1>2, <1>3, <1>6 DEF Sobras, SobrasDepois

LEMMA SobrasPoe ==
  ASSUME Tipos, Tipos', NaVez, VagasAbertas, ~Comecando, Sobras, NEW p, PoeRecebida(p)
  PROVE  SobrasDepois
<1> DEFINE v == tab.recebidas[p].vaga
           L == Livres(tab, NoPeao)
           P == Pendentes(tab)
<1>1. turno'.confirmada = turno.confirmada
  BY DEF PoeRecebida, Tipos, Turno
<1>2. SUFFICES ASSUME turno.confirmada PROVE SobrasDepois
  BY <1>1 DEF SobrasDepois
<1>3. /\ NoPeao \in Mesa(tab) /\ NoPeao # Nada /\ tab'.peoes[Ativo] = NoPeao
      /\ p \in P /\ Pendentes(tab') = P \ {p} /\ p \notin Mesa(tab)
      /\ Mesa(tab') = Mesa(tab) \cup {p} /\ tab'.manipulacao \in {Nada, p}
      /\ \A q \in Mesa(tab) : tab'.posicionadas[q] = tab.posicionadas[q]
  BY DepoisDoPrimeiro DEF PoeRecebida, NoPeao
<1>4. IsFiniteSet(P) /\ Cardinality(P) <= Cardinality(L)
  BY <1>2, <1>3 DEF Sobras
<1>5. L \ {v} \subseteq Livres(tab', NoPeao)
  <2>1. /\ CelulaDe(tab', p) = Vizinha(CelulaDe(tab, NoPeao), v) /\ v \in Aberturas(tab, NoPeao)
    BY <1>3 DEF PoeRecebida, VagasAbertas
  <2>2. Aberturas(tab, NoPeao) \subseteq Bordas /\ CelulaDe(tab, NoPeao) \in Celulas
    BY <1>3, MesaDe DEF Tipos, Bom
  <2>3. Aberturas(tab', NoPeao) = Aberturas(tab, NoPeao) /\ \A q \in Mesa(tab) : CelulaDe(tab', q) = CelulaDe(tab, q)
    BY <1>3 DEF Aberturas, CelulaDe
  <2> HIDE DEF v
  <2>4. ASSUME NEW b \in L, b # v
        PROVE  b \in Livres(tab', NoPeao)
    <3>1. b \in Aberturas(tab, NoPeao) /\ Vazia(tab, Vizinha(CelulaDe(tab, NoPeao), b))
      BY <2>4 DEF Livres
    <3>2. Vizinha(CelulaDe(tab, NoPeao), b) # Vizinha(CelulaDe(tab, NoPeao), v)
      BY <2>1, <2>2, <2>4, <3>1, BordaDaVizinha
    <3>3. Vazia(tab', Vizinha(CelulaDe(tab, NoPeao), b))
      BY <1>3, <2>1, <2>3, <3>1, <3>2 DEF Vazia
    <3>4. QED
      BY <1>3, <2>3, <3>1, <3>3 DEF Livres
  <2>5. QED
    BY <2>4
<1>6. /\ IsFiniteSet(L) /\ Cardinality(L) \in Nat /\ IsFiniteSet(Livres(tab', NoPeao))
      /\ Cardinality(Livres(tab', NoPeao)) \in Nat
  <2>1. PICK n : n = tab'
    OBVIOUS
  <2>2. Bom(n) /\ NoPeao \in Mesa(n) /\ Bom(tab)
    BY <1>3, <2>1 DEF Tipos
  <2>3. IsFiniteSet(Livres(n, NoPeao)) /\ Cardinality(Livres(n, NoPeao)) \in Nat
    BY <2>2, LivresFinitas
  <2>4. IsFiniteSet(L) /\ Cardinality(L) \in Nat
    BY <1>3, <2>2, LivresFinitas
  <2>5. QED
    BY <2>1, <2>3, <2>4
<1> HIDE DEF v, L, P
<1>7. /\ IsFiniteSet(P \ {p}) /\ Cardinality(P \ {p}) = Cardinality(P) - 1 /\ Cardinality(P) \in Nat
  BY <1>3, <1>4, FS_RemoveElement, FS_CardinalityType
<1>8. Cardinality(L \ {v}) >= Cardinality(L) - 1 /\ Cardinality(L \ {v}) \in Nat
  <2>1. IsFiniteSet(L \ {v}) /\ Cardinality(L \ {v}) = IF v \in L THEN Cardinality(L) - 1 ELSE Cardinality(L)
    BY <1>6, FS_RemoveElement
  <2>2. QED
    BY <1>6, <2>1, FS_CardinalityType
<1>9. Cardinality(L \ {v}) <= Cardinality(Livres(tab', NoPeao))
  BY <1>5, <1>6, FS_Subset
<1>10. Cardinality(P \ {p}) <= Cardinality(Livres(tab', NoPeao))
  BY <1>4, <1>6, <1>7, <1>8, <1>9
<1>11. QED
  BY <1>3, <1>7, <1>10 DEF SobrasDepois

LEMMA SobrasConfirma ==
  ASSUME Tipos, Tipos', NaVez, UmaCasa, PecaEncaixada, ~Comecando, ViraRecebida, Confirma
  PROVE  SobrasDepois
<1>1. SUFFICES ASSUME Pendentes(tab') # {} PROVE SobrasDepois
  BY DEF SobrasDepois
<1>2. /\ NoPeao \in Mesa(tab) /\ tab'.peoes[Ativo] = NoPeao /\ tab'.manipulacao = tab.manipulacao
      /\ ~turno.confirmada /\ Mesa(tab') \subseteq Mesa(tab)
      /\ \A q \in Mesa(tab') : tab'.posicionadas[q] = tab.posicionadas[q]
      /\ ~jogadores[Ativo].baixa /\ IsFiniteSet(Pendentes(tab'))
      /\ Cardinality(Pendentes(tab')) <= Cardinality(Livres(tab, NoPeao))
  BY <1>1, DepoisDoPrimeiro DEF Confirma, NoPeao, SorteioCabe
<1>3. tab.manipulacao # NoPeao
  BY <1>2, PecaDebaixo DEF UmaCasa
<1>4. PICK n : n = tab'
  OBVIOUS
<1>5. NoPeao \in Mesa(n) /\ Bom(n) /\ Bom(tab)
  <2>1. Bom(n) /\ Bom(tab) /\ DOMAIN n.peoes = DOMAIN tab.peoes /\ n.peoes[Ativo] = NoPeao
    BY <1>2, <1>4 DEF Tipos, Confirma
  <2>2. NoPeao # Nada /\ Ativo \in DOMAIN n.peoes
    BY <2>1, DepoisDoPrimeiro
  <2>3. QED
    BY <2>1, <2>2 DEF Bom, PeoesSobrePecas
<1>6. Livres(tab, NoPeao) \subseteq Livres(n, NoPeao)
  BY <1>2, <1>4, <1>5 DEF Livres, Aberturas, CelulaDe, Vazia
<1>7. Cardinality(Livres(tab, NoPeao)) <= Cardinality(Livres(n, NoPeao))
  BY <1>5, <1>6, LivresFinitas, FS_Subset
<1>8. /\ Cardinality(Livres(tab, NoPeao)) \in Nat /\ Cardinality(Livres(n, NoPeao)) \in Nat
  BY <1>2, <1>5, LivresFinitas
<1>9. Cardinality(Pendentes(tab')) \in Nat
  BY <1>2, FS_CardinalityType
<1>10. Cardinality(Pendentes(tab')) <= Cardinality(Livres(n, NoPeao))
  BY <1>2, <1>7, <1>8, <1>9
<1>11. QED
  BY <1>2, <1>3, <1>4, <1>10 DEF SobrasDepois

LEMMA SobrasFica ==
  ASSUME Tipos, Tipos', NaVez, UmaCasa, PecaEncaixada, VagasAbertas, ~Comecando, ViraRecebida,
         Sobras, NoMeio
  PROVE  SobrasDepois
<1>1. (\E p : Move(p)) \/ (\E c : Atravessa(c)) => ~turno'.confirmada
  BY DEF Move, Atravessa, Tipos, Turno
<1>2. QED
  BY <1>1, SobrasParadas, SobrasPoe, SobrasConfirma DEF NoMeio, SobrasDepois

-----------------------------------------------------------------------------
(* The invariant of the turns after the first one.                         *)

Saidas == resultado = Nada /\ ElencoCompleto /\ ~Comecando => EmAberto
TurnosComSaida == TurnosComLuz /\ Saidas

LEMMA EmAbertoFica ==
  ASSUME Turnos, Turnos', ElencoCompleto, ElencoCompleto', ~Comecando, EmAberto, NaMesmaVez
  PROVE  EmAberto'
<1>1. /\ Tipos /\ Tipos' /\ NaVez /\ UmaCasa /\ PecaEncaixada /\ VagasAbertas
      /\ ViraRecebida /\ Escolhidas /\ TravessiaAberta /\ Sobras
  BY DEF Turnos, Encaixada, EmAberto
<1>2. NoMeio /\ (Ativo)' = Ativo /\ (NoPeao)' = tab'.peoes[Ativo]
  BY <1>1, PassosDoMeio
<1>3. ViraRecebida'
  BY <1>1, <1>2, ViraRecebidaFica DEF ViraRecebida
<1>4. Escolhidas'
  BY <1>1, <1>2, EscolhidasFica DEF Escolhidas
<1>5. TravessiaAberta'
  BY <1>1, <1>2, TravessiaFica DEF TravessiaAberta, TravessiaDepois
<1>6. Sobras'
  BY <1>1, <1>2, SobrasFica DEF Sobras, SobrasDepois
<1>7. QED
  BY <1>3, <1>4, <1>5, <1>6 DEF EmAberto

LEMMA EmAbertoPassa ==
  ASSUME Passa
  PROVE  EmAberto'
<1>1. Pendentes(tab') = {} /\ tab'.manipulacao = Nada /\ ~turno'.atravessou /\ ~turno'.confirmada
  BY ParcialVazia DEF Passa, Pendentes
<1>2. QED
  BY <1>1 DEF EmAberto, ViraRecebida, Escolhidas, TravessiaAberta, Sobras

LEMMA SaidasSegue ==
  ASSUME TurnosComSaida, Passo
  PROVE  TurnosComSaida'
<1>1. TurnosComLuz /\ Turnos /\ Tipos /\ NaVez /\ Saidas /\ resultado = Nada
  BY PassoAberto DEF TurnosComSaida, TurnosComLuz, Turnos
<1>2. TurnosComLuz' /\ Turnos' /\ Tipos'
  BY <1>1, LuzesSegue DEF TurnosComLuz, Turnos
<1>3. NaMesmaVez \/ (Passa /\ PassaCompleta)
  BY <1>1, PassoPorTipo DEF NaVez
<1>4. ASSUME resultado' = Nada, ElencoCompleto', (~Comecando)'
      PROVE  EmAberto'
  <2>1. ElencoCompleto
    <3>1. DOMAIN jogadores' \subseteq DOMAIN jogadores
      BY <1>1, <1>2, <1>3, MesmaVezSegue DEF Segue, Passa
    <3>2. DOMAIN jogadores \subseteq Jogadores
      BY <1>1, ElencoDe DEF Tipos
    <3>3. QED
      BY <1>4, <3>1, <3>2 DEF ElencoCompleto
  <2>2. CASE NaMesmaVez
    <3>1. ~Comecando
      <4>1. Segue
        BY <1>1, <1>2, <2>2, MesmaVezSegue
      <4>2. QED
        BY <1>4, <4>1 DEF Segue, Comecando, Ativo
    <3>2. EmAberto
      BY <1>1, <2>1, <3>1 DEF Saidas
    <3>3. QED
      BY <1>1, <1>2, <1>4, <2>1, <2>2, <3>1, <3>2, EmAbertoFica
  <2>3. QED
    BY <1>3, <2>2, EmAbertoPassa
<1>5. QED
  BY <1>2, <1>4 DEF Saidas, TurnosComSaida

LEMMA SaidasVaza ==
  ASSUME TurnosComSaida, UNCHANGED varsDaPartida
  PROVE  TurnosComSaida'
<1>1. TurnosComLuz'
  BY LuzesVaza DEF TurnosComSaida
<1>2. tab' = tab /\ turno' = turno /\ jogadores' = jogadores /\ resultado' = resultado
  BY DEF varsDaPartida
<1>3. (Ativo)' = Ativo /\ ((Comecando)' <=> Comecando) /\ (NoPeao)' = NoPeao
  BY <1>2 DEF Ativo, Comecando, NoPeao
<1>4. EmAberto => EmAberto'
  BY <1>2, <1>3 DEF EmAberto, ViraRecebida, Escolhidas, TravessiaAberta, Sobras
<1>5. QED
  BY <1>1, <1>2, <1>3, <1>4 DEF TurnosComSaida, Saidas, ElencoCompleto

LEMMA SaidasNoInicio ==
  ASSUME Init
  PROVE  TurnosComSaida
<1>1. Comecando
  BY PartidaAssumption DEF Init, Comecando, Ativo, Jogadores
<1>2. QED
  BY <1>1, LuzesNoInicio DEF TurnosComSaida, Saidas

-----------------------------------------------------------------------------
(* The way out.                                                            *)

(* The board of a command that needs the pawn of the turn selected.        *)
LEMMA ComSelecaoDe ==
  ASSUME Tipos, NaVez, ~Comecando
  PROVE  LET t == ComSelecao(tab, Ativo)
         IN  /\ t.peao = Ativo /\ Ativo # Nada /\ PecaSob(t, t.peao) = NoPeao
             /\ t.posicionadas = tab.posicionadas /\ t.peoes = tab.peoes
             /\ t.recebidas = tab.recebidas
<1> DEFINE t == ComSelecao(tab, Ativo)
<1>1. Ativo # Nada
  BY PartidaAssumption DEF Tipos, Turno, Ativo, Jogadores
<1>2. /\ t.peao = Ativo /\ t.posicionadas = tab.posicionadas /\ t.peoes = tab.peoes
      /\ t.recebidas = tab.recebidas
  BY DEF ComSelecao, NaVez, Tipos, Bom, Tabuleiros
<1> HIDE DEF t
<1>3. PecaSob(t, t.peao) = NoPeao
  BY <1>1, <1>2, DepoisDoPrimeiro DEF PecaSob, NoPeao, Mesa
<1>4. QED
  BY <1>1, <1>2, <1>3 DEF t

(* A piece that waits at an edge can be turned, and the cell is empty.     *)
LEMMA EscolhidaGira ==
  ASSUME Tipos, NaVez, resultado = Nada, Escolhidas,
         NEW r \in Pendentes(tab), tab.recebidas[r].vaga # Nada
  PROVE  PendenciaResolvivel(Ativo)
<1>1. tab.selecionada = r /\ Vazia(tab, tab.recebidas[r].alvo)
  BY DEF Escolhidas
<1>2. r # tab.manipulacao
  BY DEF NaVez, Fora
<1>3. PodeGirarAPeca(Ativo, r, Horario)
  BY <1>1, <1>2 DEF PodeGirarAPeca, PodeGirarPeca, PodeGirarRecebida, DaVez, Ativo
<1>4. QED
  BY <1>1, <1>3 DEF PendenciaResolvivel

(* While no piece waits at an edge, one of the pieces that were drawn can  *)
(* take a free one.                                                        *)
LEMMA VagaSempreLivre ==
  ASSUME Tipos, NaVez, ~Comecando, resultado = Nada, ClaraDepois, TravessiaAberta, Sobras,
         Pendentes(tab) # {}, \A q \in Pendentes(tab) : tab.recebidas[q].vaga = Nada
  PROVE  PendenciaResolvivel(Ativo)
<1> DEFINE t == Adotada(tab, Ativo)
<1>1. NoPeao \in Mesa(tab) /\ tab.recebidas # <<>> /\ Bom(tab)
  BY DepoisDoPrimeiro, ParcialVazia DEF Tipos, Pendentes
<1>2. /\ t.peao = Ativo /\ Ativo # Nada /\ PecaSob(t, t.peao) = NoPeao
      /\ t.posicionadas = tab.posicionadas /\ t.recebidas = tab.recebidas
  BY <1>1, ComSelecaoDe DEF Adotada
<1> HIDE DEF t
<1>3. Livres(tab, NoPeao) \subseteq Bordas /\ Nada \notin Bordas /\ CelulaDe(tab, NoPeao) \in Celulas
  <2>1. Nada \notin Bordas
    BY TiposDistintos
  <2>2. QED
    BY <1>1, <2>1, LivresFinitas, MesaDe DEF Bom
<1>4. ASSUME NEW r \in Pendentes(tab), NEW b \in Livres(tab, NoPeao), VagaPermitida(Ativo, r, b)
      PROVE  PendenciaResolvivel(Ativo)
  <2>1. b \in VagasDisponiveis(t, NoPeao)
    BY <1>2, <1>3, <1>4 DEF Livres, VagasDisponiveis, Aberturas, CelulaDe, Vazia, Mesa, Pendentes
  <2>2. PodeEscolherVaga(t, r, b)
    BY <1>1, <1>2, <1>4, <2>1, DepoisDoPrimeiro DEF PodeEscolherVaga, Pendentes
  <2>3. PodeEscolherAVaga(Ativo, r, b) /\ b \in Bordas
    BY <1>3, <1>4, <2>2 DEF PodeEscolherAVaga, DaVez, Ativo, t
  <2>4. QED
    BY <1>4, <2>3 DEF PendenciaResolvivel
<1>5. CASE turno.confirmada
  <2>1. /\ IsFiniteSet(Pendentes(tab)) /\ ~jogadores[Ativo].baixa
        /\ Cardinality(Pendentes(tab)) <= Cardinality(Livres(tab, NoPeao))
    BY <1>5 DEF Sobras, ClaraDepois
  <2>2. Cardinality(Pendentes(tab)) \in Nat /\ Cardinality(Pendentes(tab)) # 0
    BY <2>1, FS_EmptySet, FS_CardinalityType
  <2>3. Livres(tab, NoPeao) # {}
    BY <2>1, <2>2, FS_EmptySet
  <2>4. PICK r \in Pendentes(tab), b \in Livres(tab, NoPeao) : TRUE
    BY <2>3
  <2>5. VagaPermitida(Ativo, r, b)
    BY <2>1 DEF VagaPermitida
  <2>6. QED
    BY <1>4, <2>5
<1>6. CASE ~turno.confirmada
  <2>1. turno.atravessou
    BY <1>6 DEF NaVez, Definida
  <2>2. PICK r \in Pendentes(tab) : TRUE
    OBVIOUS
  <2>3. PICK b \in Livres(tab, NoPeao) : tab.recebidas[r].alvo = Vizinha(CelulaDe(tab, NoPeao), b)
    BY <1>6, <2>1 DEF TravessiaAberta
  <2>4. tab.recebidas[r].alvo # Nada
    BY <1>3, <2>3, VizinhaCelula, TiposDistintos
  <2>5. VagaPermitida(Ativo, r, b)
    BY <2>3, <2>4 DEF VagaPermitida, NaPeca, NoPeao, Ativo
  <2>6. QED
    BY <1>4, <2>5
<1>7. QED
  BY <1>5, <1>6

(* The pawn can go to the piece of its crossing.                           *)
LEMMA TravessiaAlcancavel ==
  ASSUME Tipos, NaVez, ~Comecando, resultado = Nada, ElencoCompleto, TravessiaAberta,
         ~turno.confirmada, tab.recebidas = <<>>, ~TravessiaEmMonstro, ~PousouNaTravessia(Ativo)
  PROVE  MovimentoAberto(Ativo)
<1> DEFINE q == turno.travessia
           t == ComSelecao(tab, Ativo)
<1>1. /\ turno.atravessou /\ q # Nada /\ NoPeao # q /\ q \in Mesa(tab) /\ ~EhMonstro(q)
      /\ Ocupantes(tab, q) \subseteq {Ativo} /\ q \in VizinhasConectadas(tab, NoPeao)
  BY DEF TravessiaAberta, PousouNaTravessia, TravessiaEmMonstro, NaPeca, NoPeao
<1>2. SemPassoDefinitivo(Ativo) /\ NaZona(q)
  BY <1>1 DEF SemPassoDefinitivo, DaVez, Comecando, Ativo, NaZona
<1>3. PodeMoverPeao(t, Ativo, q)
  <2>1. /\ t.peao = Ativo /\ t.posicionadas = tab.posicionadas /\ t.peoes = tab.peoes
        /\ t.recebidas = tab.recebidas
    BY ComSelecaoDe
  <2> HIDE DEF t, q
  <2>2. Mesa(t) = Mesa(tab) /\ VizinhasConectadas(t, NoPeao) = VizinhasConectadas(tab, NoPeao)
    BY <2>1 DEF Mesa, VizinhasConectadas, LigadaPela, Aberturas, CelulaDe
  <2>3. QED
    BY <1>1, <2>1, <2>2, DepoisDoPrimeiro DEF PodeMoverPeao, NoPeao
<1>4. Cardinality(Ocupantes(tab, q)) < TetoOcupacao(tab, jogadores, q)
  <2>1. Ocupantes(tab, q) = {}
    BY <1>1 DEF Ocupantes, NoPeao
  <2>2. Cardinality(DOMAIN jogadores) = NumeroDeJogadores /\ NumeroDeJogadores >= 1
        /\ NumeroDeJogadores \in Nat
    BY PartidaAssumption, FS_Interval DEF ElencoCompleto, Jogadores
  <2>3. Menor(Cardinality(DOMAIN jogadores), 4) \in Nat \ {0}
    BY <2>2 DEF Menor
  <2>4. TetoOcupacao(tab, jogadores, q) \in Nat \ {0}
    BY <2>1, <2>3 DEF TetoOcupacao
  <2>5. QED
    BY <2>1, <2>4, FS_EmptySet
<1>5. QED
  BY <1>1, <1>2, <1>3, <1>4 DEF MovimentoAberto

LEMMA SaidaDoTurno ==
  ASSUME TurnosComSaida, resultado = Nada, ElencoCompleto, ~Comecando
  PROVE  TemSaida(Ativo) \/ PresoNaGraca(Ativo)
<1>1. /\ Tipos /\ NaVez /\ ClaraDepois /\ Escolhidas /\ TravessiaAberta /\ Sobras
  BY DEF TurnosComSaida, TurnosComLuz, Turnos, Luzes, Saidas, EmAberto
<1>2. NoPeao \in Mesa(tab) /\ NoPeao # Nada /\ tab.peao \in {Nada, Ativo}
  BY <1>1, DepoisDoPrimeiro DEF NaVez
<1>3. CASE tab.recebidas # <<>>
  <2>1. Pendentes(tab) # {}
    BY <1>1, <1>3, MesaDe DEF Tipos, Bom
  <2>2. PendenciaResolvivel(Ativo)
    BY <1>1, <2>1, EscolhidaGira, VagaSempreLivre
  <2>3. QED
    BY <1>3, <2>2 DEF TemSaida
<1>4. CASE tab.recebidas = <<>> /\ turno.confirmada
  BY <1>4 DEF TemSaida, PodeEncerrar, DaVez, Ativo, Comecando
<1>5. CASE tab.recebidas = <<>> /\ ~turno.confirmada
  <2>1. SemPassoDefinitivo(Ativo)
    BY <1>5 DEF SemPassoDefinitivo, DaVez, Comecando, Ativo
  <2>2. CASE TravessiaEmMonstro
    <3>1. PodePermanecer(ComSelecao(tab, Ativo), Ativo)
      BY <1>1, <1>2, <1>5, ComSelecaoDe DEF PodePermanecer, NoPeao
    <3>2. QED
      BY <1>5, <2>1, <2>2, <3>1 DEF TemSaida, PodePermanecerNaPeca, PresoNaGraca
  <2>3. CASE ~TravessiaEmMonstro /\ PousouNaTravessia(Ativo)
    BY <1>2, <1>5, <2>1, <2>3 DEF TemSaida, PodeConfirmar, NaPeca, NoPeao
  <2>4. CASE ~TravessiaEmMonstro /\ ~PousouNaTravessia(Ativo)
    BY <1>1, <1>5, <2>4, TravessiaAlcancavel DEF TemSaida
  <2>5. QED
    BY <2>2, <2>3, <2>4
<1>6. QED
  BY <1>3, <1>4, <1>5

(***************************************************************************)
(* A turn after the first one is never stuck while everybody is there: the *)
(* pieces it drew never outnumber the free edges around its pawn, the one  *)
(* that was chosen can still be turned, and the piece of a crossing can be *)
(* reached (partida.ts, tabuleiro.ts).  The exception, PresoNaGraca, is    *)
(* the one partida.ts:1276 causes.                                         *)
(***************************************************************************)
THEOREM SaidaSempre == (Spec => []TurnoTemSaida) /\ (SpecComBots => []TurnoTemSaida)
<1>1. Init => TurnosComSaida
  BY SaidasNoInicio
<1>2. TurnosComSaida /\ [Next]_varsDaPartida => TurnosComSaida'
  BY NextPasso, SaidasSegue, SaidasVaza DEF TurnosComSaida, TurnosComLuz, Turnos
<1>3. InitComBots => TurnosComSaida
  BY SaidasNoInicio DEF InitComBots
<1>4. TurnosComSaida /\ [NextComBots]_vars => TurnosComSaida'
  BY NextComBotsPasso, SaidasSegue, SaidasVaza
    DEF TurnosComSaida, TurnosComLuz, Turnos, vars, varsDaPartida
<1>5. TurnosComSaida => TurnoTemSaida
  BY SaidaDoTurno DEF TurnoTemSaida, Comecando, Ativo
<1>6. QED
  BY <1>1, <1>2, <1>3, <1>4, <1>5, PTL DEF Spec, SpecComBots

-----------------------------------------------------------------------------
(* What the enumeration of a bot takes for granted of its turn.            *)

(* A first turn draws only after its pawn entered, with its Peça Inicial on*)
(* the table or on the board; in a crossing the pawn is where the turn     *)
(* began or on the piece of the crossing.                                  *)
Espelhado ==
  /\ Escolhidas
  /\ Comecando =>
       /\ Pendentes(tab) # {} => NoPeao # Nada
       /\ <<"inicial", Ativo>> \in DOMAIN tab.iniciais \cup Mesa(tab)
  /\ ~Comecando => turno.inicio # Nada
  /\ turno.atravessou /\ ~turno.confirmada => NoPeao \in {turno.inicio, turno.travessia}

Espelhos == resultado = Nada /\ ElencoCompleto => Espelhado
TurnosDosBots == TurnosComSaida /\ Espelhos

(* Once something is drawn in a first turn, the initial piece is in place. *)
LEMMA InicialNoLugar ==
  ASSUME Tipos, ElencoCompleto, Ordem, Espelhado, Comecando, NoPeao # Nada
  PROVE  /\ NoPeao = <<"inicial", Ativo>> /\ NoPeao \in Mesa(tab)
         /\ <<"inicial", Ativo>> \notin DOMAIN tab.iniciais
<1>1. Ativo \in Jogadores /\ Ativo \in DOMAIN tab.peoes /\ Bom(tab)
  BY DEF Tipos, Turno, Ativo
<1>2. NoPeao = <<"inicial", Ativo>>
  BY <1>1 DEF Ordem, PorEntrar, Comecando, NoPeao
<1>3. NoPeao \in Mesa(tab)
  BY <1>1 DEF Bom, PeoesSobrePecas, NoPeao
<1>4. Fora(tab) \cap Mesa(tab) = {}
  BY <1>1, ForaDaMesa
<1>5. QED
  BY <1>2, <1>3, <1>4 DEF Fora

LEMMA EscolhidasNoPrimeiro ==
  ASSUME Tipos, Tipos', NaVez, ElencoCompleto, ElencoCompleto', Ordem, Espelhado, Comecando,
         NaMesmaVez
  PROVE  Escolhidas'
<1>1. Escolhidas /\ (Pendentes(tab) # {} => <<"inicial", Ativo>> \notin DOMAIN tab.iniciais)
  BY InicialNoLugar DEF Espelhado
<1>2. CASE NoMeio
  BY <1>1, <1>2, EscolhidasFica DEF Escolhidas
<1>3. ASSUME NEW p, PoeInicial(p)
      PROVE  Pendentes(tab') = {}
  <2>1. p = <<"inicial", Ativo>> /\ p \in DOMAIN tab.iniciais /\ Pendentes(tab') = Pendentes(tab)
    BY <1>3 DEF PoeInicial, Pendentes
  <2>2. QED
    BY <1>1, <2>1
<1>4. CASE \E p : PoeInicial(p)
  BY <1>3, <1>4 DEF Escolhidas
<1>5. CASE \E p : PoePeao(p)
  BY <1>5 DEF PoePeao, Escolhidas
<1>6. CASE Abandona
  BY <1>6 DEF Abandona, ElencoCompleto
<1>7. QED
  BY <1>2, <1>4, <1>5, <1>6 DEF NaMesmaVez, NoMeio

LEMMA EspelhadoNoPrimeiro ==
  ASSUME Tipos, Tipos', NaVez, ElencoCompleto, ElencoCompleto', Ordem, Espelhado, Comecando,
         NaMesmaVez
  PROVE  Espelhado'
<1>1. /\ (Ativo)' = Ativo /\ (NoPeao)' = tab'.peoes[Ativo] /\ Comecando' /\ ~turno'.atravessou
      /\ turno'.atravessou = turno.atravessou
  <2>1. Segue
    BY MesmaVezSegue
  <2>2. turno'.atravessou = turno.atravessou
    BY DEF NaMesmaVez, Seleciona, Gira, PoeInicial, PoeRecebida, PoePeao, Move, EscolheVaga,
         Atravessa, Confirma, Abandona, Delegado, Tipos, Turno
  <2>3. QED
    BY <2>1, <2>2 DEF Segue, Ativo, NoPeao, Comecando, NaVez
<1>2. Escolhidas'
  BY EscolhidasNoPrimeiro
<1>3. /\ Pendentes(tab') # {} => tab'.peoes[Ativo] # Nada
      /\ <<"inicial", Ativo>> \in DOMAIN tab'.iniciais \cup Mesa(tab')
  <2>1. /\ Pendentes(tab) # {} => NoPeao # Nada
        /\ <<"inicial", Ativo>> \in DOMAIN tab.iniciais \cup Mesa(tab)
    BY DEF Espelhado
  <2>2. CASE Seleciona \/ Gira \/ \E r, b : EscolheVaga(r, b)
    <3>1. /\ Pendentes(tab') = Pendentes(tab) /\ DOMAIN tab'.iniciais = DOMAIN tab.iniciais
          /\ tab'.peoes = tab.peoes
      BY <2>2 DEF Seleciona, Gira, EscolheVaga, MesmasForas
    <3>2. Mesa(tab') = Mesa(tab)
      BY <2>2, CelulasParadas
    <3>3. QED
      BY <2>1, <3>1, <3>2 DEF NoPeao
  <2>3. CASE \E p : PoeInicial(p)
    BY <2>1, <2>3 DEF PoeInicial, NoPeao, Pendentes
  <2>4. CASE \E p : PoeRecebida(p)
    BY <2>1, <2>4 DEF PoeRecebida, NoPeao
  <2>5. CASE \E p : PoePeao(p)
    <3>1. PICK p : PoePeao(p)
      BY <2>5
    <3>2. p = <<"inicial", Ativo>> /\ p \in Mesa(tab)
      BY <3>1, PeaoNaSuaInicial DEF PoePeao
    <3>3. Ativo \in DOMAIN tab.peoes /\ Bom(tab) /\ Bom(tab') /\ DOMAIN tab'.peoes = DOMAIN jogadores'
          /\ DOMAIN jogadores' = DOMAIN jogadores /\ Ativo \in DOMAIN jogadores
      BY <3>1 DEF Tipos, Ativo, PoePeao
    <3>4. p # Nada
      BY <3>2, <3>3, MesaDe, TiposDistintos DEF Bom
    <3>5. tab'.peoes[Ativo] = p
      BY <3>1, <3>3 DEF PoePeao
    <3>6. p \in Mesa(tab')
      BY <3>3, <3>4, <3>5 DEF Bom, PeoesSobrePecas
    <3>7. QED
      BY <3>2, <3>4, <3>5, <3>6
  <2>6. CASE Confirma \/ (\E p : Move(p)) \/ \E c : Atravessa(c)
    BY <2>6 DEF Confirma, Move, Atravessa
  <2>7. CASE Abandona
    BY <2>7 DEF Abandona, ElencoCompleto
  <2>8. QED
    BY <2>2, <2>3, <2>4, <2>5, <2>6, <2>7 DEF NaMesmaVez
<1>4. QED
  BY <1>1, <1>2, <1>3 DEF Espelhado

LEMMA EspelhadoNoMeio ==
  ASSUME Turnos, Turnos', ElencoCompleto, ElencoCompleto', ~Comecando, EmAberto, Espelhado,
         NaMesmaVez
  PROVE  Espelhado'
<1>1. /\ Tipos /\ Tipos' /\ NaVez /\ UmaCasa /\ TravessiaAberta /\ Escolhidas
      /\ turno.inicio # Nada
      /\ turno.atravessou /\ ~turno.confirmada => NoPeao \in {turno.inicio, turno.travessia}
  BY DEF Turnos, EmAberto, Espelhado
<1>2. NoMeio /\ (Ativo)' = Ativo /\ (NoPeao)' = tab'.peoes[Ativo] /\ (~Comecando)'
      /\ turno'.inicio = turno.inicio
  BY <1>1, PassosDoMeio, MesmaVezSegue DEF Segue
<1>3. Escolhidas'
  BY <1>1, <1>2, EscolhidasFica DEF Escolhidas
<1>4. ASSUME turno'.atravessou, ~turno'.confirmada
      PROVE  tab'.peoes[Ativo] \in {turno.inicio, turno'.travessia}
  <2>1. CASE Seleciona \/ Gira \/ \E r, b : EscolheVaga(r, b)
    BY <1>1, <1>4, <2>1 DEF Seleciona, Gira, EscolheVaga, Delegado, NoPeao
  <2>2. ASSUME NEW p, PoeRecebida(p)
        PROVE  tab'.peoes[Ativo] \in {turno.inicio, turno'.travessia}
    <3>1. /\ turno'.atravessou = turno.atravessou /\ turno'.confirmada = turno.confirmada
          /\ tab'.peoes[Ativo] = NoPeao /\ Pendentes(tab) # {}
      BY <2>2 DEF PoeRecebida, Tipos, Turno, NoPeao, Turnos
    <3>2. turno.travessia = Nada
      BY <1>1, <1>4, <3>1 DEF TravessiaAberta
    <3>3. NoPeao # Nada
      BY <1>1, DepoisDoPrimeiro
    <3>4. QED
      BY <1>1, <1>4, <3>1, <3>2, <3>3
  <2>3. ASSUME NEW p, Move(p)
        PROVE  tab'.peoes[Ativo] \in {turno.inicio, turno'.travessia}
    <3>1. /\ turno' = turno /\ NaZona(p) /\ Pendentes(tab) = {} /\ Ativo \in DOMAIN tab.peoes
          /\ tab'.peoes = [tab.peoes EXCEPT ![Ativo] = p]
      BY <1>1, <2>3, DepoisDoPrimeiro, ParcialVazia DEF Move, Pendentes
    <3>2. turno.travessia = p
      BY <1>1, <1>4, <3>1 DEF NaZona, UmaCasa
    <3>3. QED
      BY <3>1, <3>2
  <2>4. CASE \E c : Atravessa(c)
    <3>1. turno.inicio \in {Nada, NoPeao} /\ tab'.peoes[Ativo] = NoPeao
      BY <2>4 DEF Atravessa, NoPeao
    <3>2. QED
      BY <1>1, <3>1
  <2>5. CASE Confirma
    BY <1>1, <1>4, <2>5 DEF Confirma, Tipos, Turno
  <2>6. QED
    BY <1>2, <2>1, <2>2, <2>3, <2>4, <2>5 DEF NoMeio
<1>5. QED
  BY <1>1, <1>2, <1>3, <1>4 DEF Espelhado

LEMMA EspelhadoPassa ==
  ASSUME Tipos, Tipos', NaVez, NaVez', ElencoCompleto, ElencoCompleto', Ordem, Passa, PassaCompleta
  PROVE  Espelhado'
<1>1. /\ Pendentes(tab') = {} /\ ~turno'.atravessou /\ turno'.inicio = tab'.peoes[turno'.ativo]
      /\ turno'.ativo \in DOMAIN jogadores' /\ turno'.ativo \in Jogadores
      /\ Encerra \/ Fica
  BY ParcialVazia DEF Passa, PassaCompleta, Pendentes, Tipos, Turno, ElencoCompleto
<1>2. ~jogadores'[turno'.ativo].primeiroTurno => turno'.inicio # Nada
  BY <1>1 DEF NaVez
<1>3. ASSUME jogadores'[turno'.ativo].primeiroTurno
      PROVE  <<"inicial", turno'.ativo>> \in DOMAIN tab'.iniciais
  <2>1. DOMAIN jogadores = Jogadores
    BY DEF ElencoCompleto
  <2>2. CASE Encerra
    <3>1. /\ jogadores[turno'.ativo].primeiroTurno /\ turno'.ativo # Ativo
          /\ tab'.iniciais = tab.iniciais
      BY <1>1, <1>3, <2>1, <2>2 DEF Encerra
    <3>2. QED
      BY <1>1, <3>1 DEF Ordem, PorEntrar
  <2>3. CASE Fica
    <3>1. ~Comecando /\ jogadores[turno'.ativo].primeiroTurno
      BY <1>1, <1>3, <2>1, <2>3 DEF Fica
    <3>2. QED
      BY <1>1, <3>1, NinguemComecando
  <2>4. QED
    BY <1>1, <2>2, <2>3
<1>4. QED
  BY <1>1, <1>2, <1>3 DEF Espelhado, Escolhidas, Comecando, Ativo

LEMMA EspelhosSegue ==
  ASSUME TurnosDosBots, Passo
  PROVE  TurnosDosBots'
<1>1. /\ TurnosComSaida /\ TurnosComLuz /\ Turnos /\ Tipos /\ NaVez /\ Saidas /\ Luzes /\ Espelhos
      /\ resultado = Nada
  BY PassoAberto DEF TurnosDosBots, TurnosComSaida, TurnosComLuz, Turnos
<1>2. TurnosComSaida' /\ Turnos' /\ Tipos' /\ NaVez'
  BY <1>1, SaidasSegue DEF TurnosComSaida, TurnosComLuz, Turnos
<1>3. NaMesmaVez \/ (Passa /\ PassaCompleta)
  BY <1>1, PassoPorTipo DEF NaVez
<1>4. ASSUME resultado' = Nada, ElencoCompleto'
      PROVE  Espelhado'
  <2>1. ElencoCompleto
    <3>1. DOMAIN jogadores' \subseteq DOMAIN jogadores
      BY <1>1, <1>2, <1>3, MesmaVezSegue DEF Segue, Passa
    <3>2. DOMAIN jogadores \subseteq Jogadores
      BY <1>1, ElencoDe DEF Tipos
    <3>3. QED
      BY <1>4, <3>1, <3>2 DEF ElencoCompleto
  <2>2. Espelhado /\ Ordem /\ (~Comecando => EmAberto)
    BY <1>1, <2>1 DEF Espelhos, Luzes, Saidas
  <2>3. CASE NaMesmaVez
    BY <1>1, <1>2, <1>4, <2>1, <2>2, <2>3, EspelhadoNoPrimeiro, EspelhadoNoMeio
  <2>4. CASE Passa /\ PassaCompleta
    BY <1>1, <1>2, <1>4, <2>1, <2>2, <2>4, EspelhadoPassa
  <2>5. QED
    BY <1>3, <2>3, <2>4
<1>5. QED
  BY <1>2, <1>4 DEF Espelhos, TurnosDosBots

LEMMA EspelhosVaza ==
  ASSUME TurnosDosBots, UNCHANGED varsDaPartida
  PROVE  TurnosDosBots'
<1>1. TurnosComSaida'
  BY SaidasVaza DEF TurnosDosBots
<1>2. tab' = tab /\ turno' = turno /\ jogadores' = jogadores /\ resultado' = resultado
  BY DEF varsDaPartida
<1>3. (Ativo)' = Ativo /\ ((Comecando)' <=> Comecando) /\ (NoPeao)' = NoPeao
  BY <1>2 DEF Ativo, Comecando, NoPeao
<1>4. Espelhado => Espelhado'
  BY <1>2, <1>3 DEF Espelhado, Escolhidas
<1>5. QED
  BY <1>1, <1>2, <1>4 DEF TurnosDosBots, Espelhos, ElencoCompleto

LEMMA EspelhosNoInicio ==
  ASSUME Init
  PROVE  TurnosDosBots
<1>1. Comecando /\ Ativo = 1 /\ 1 \in Jogadores /\ ~turno.atravessou
  BY PartidaAssumption DEF Init, Comecando, Ativo, Jogadores
<1>2. Pendentes(tab) = {} /\ <<"inicial", 1>> \in DOMAIN tab.iniciais
  BY <1>1, ParcialVazia DEF Init, TabuleiroInicial, Pendentes
<1>3. QED
  BY <1>1, <1>2, SaidasNoInicio DEF TurnosDosBots, Espelhos, Espelhado, Escolhidas

-----------------------------------------------------------------------------
(* Each branch of the enumeration.                                         *)

LEMMA AceitaDe ==
  ASSUME NEW j, NEW x, NEW y
  PROVE  /\ EhInicial(x) =>
              (Aceita(j, <<"posicionar_peca", x, y>>) <=> PodePosicionarAInicial(j, x, y))
         /\ ~EhInicial(x) =>
              (Aceita(j, <<"posicionar_peca", x, y>>) <=> PodePosicionarARecebida(j, x, y))
         /\ Aceita(j, <<"girar_peca", x, y>>) <=> PodeGirarAPeca(j, x, y)
         /\ Aceita(j, <<"escolher_vaga_da_peca_recebida", x, y>>) <=> PodeEscolherAVaga(j, x, y)
         /\ Aceita(j, <<"selecionar_peca", x>>) <=> PodeSelecionarAPeca(j, x)
         /\ Aceita(j, <<"selecionar_peao">>) <=> PodeSelecionarOPeao(j)
         /\ Aceita(j, <<"posicionar_peao", x>>) <=> PodePosicionarOPeao(j, x)
         /\ Aceita(j, <<"mover_peao", x>>) <=> PodeMoverOPeao(j, x)
         /\ Aceita(j, <<"atravessar_o_escuro", x>>) <=> PodeAtravessar(j, x)
         /\ Aceita(j, <<"permanecer">>) <=> PodePermanecerNaPeca(j)
         /\ Aceita(j, <<"confirmar_posicao_do_peao">>) <=> PodeConfirmar(j)
         /\ Aceita(j, <<"encerrar_turno">>) <=> PodeEncerrar(j)
<1>1. EhInicial(x) =>
        (Aceita(j, <<"posicionar_peca", x, y>>) <=> PodePosicionarAInicial(j, x, y))
  BY DEF Aceita
<1>2. ~EhInicial(x) =>
        (Aceita(j, <<"posicionar_peca", x, y>>) <=> PodePosicionarARecebida(j, x, y))
  BY DEF Aceita
<1>3. Aceita(j, <<"girar_peca", x, y>>) <=> PodeGirarAPeca(j, x, y)
  BY DEF Aceita
<1>4. Aceita(j, <<"escolher_vaga_da_peca_recebida", x, y>>) <=> PodeEscolherAVaga(j, x, y)
  BY DEF Aceita
<1>5. Aceita(j, <<"selecionar_peca", x>>) <=> PodeSelecionarAPeca(j, x)
  BY DEF Aceita
<1>6. Aceita(j, <<"selecionar_peao">>) <=> PodeSelecionarOPeao(j)
  BY DEF Aceita
<1>7. Aceita(j, <<"posicionar_peao", x>>) <=> PodePosicionarOPeao(j, x)
  BY DEF Aceita
<1>8. Aceita(j, <<"mover_peao", x>>) <=> PodeMoverOPeao(j, x)
  BY DEF Aceita
<1>9. Aceita(j, <<"atravessar_o_escuro", x>>) <=> PodeAtravessar(j, x)
  BY DEF Aceita
<1>10. Aceita(j, <<"permanecer">>) <=> PodePermanecerNaPeca(j)
  BY DEF Aceita
<1>11. Aceita(j, <<"confirmar_posicao_do_peao">>) <=> PodeConfirmar(j)
  BY DEF Aceita
<1>12. Aceita(j, <<"encerrar_turno">>) <=> PodeEncerrar(j)
  BY DEF Aceita
<1>13. QED
  BY <1>1, <1>2, <1>3, <1>4, <1>5, <1>6, <1>7, <1>8, <1>9, <1>10, <1>11, <1>12

(* (b) a piece that waits at an edge                                       *)
LEMMA AceitaFixada ==
  ASSUME Tipos, NaVez, resultado = Nada, VagasAbertas, Escolhidas,
         NEW r \in Fixadas, NEW a \in AcoesDaFixada(r)
  PROVE  Aceita(Ativo, a)
<1>1. /\ r \in Pendentes(tab) /\ tab.recebidas[r].vaga # Nada /\ r \in PecasDaCaixa
      /\ tab.selecionada = r /\ Vazia(tab, tab.recebidas[r].alvo)
      /\ tab.peao = Ativo /\ NoPeao \in Mesa(tab) /\ tab.recebidas # <<>> /\ ~EhInicial(r)
  BY MesaDe, TiposDistintos, ParcialVazia DEF Fixadas, VagasAbertas, Escolhidas, Tipos, Bom, Pendentes
<1>2. CASE Conecta(tab, r)
  <2>1. a = <<"posicionar_peca", r, tab.recebidas[r].alvo>>
    BY <1>2 DEF AcoesDaFixada
  <2>2. Ativo # Nada /\ Ativo \in DOMAIN tab.peoes
    BY PartidaAssumption DEF Tipos, Turno, Ativo, Jogadores
  <2>3. Adotada(tab, Ativo) = tab
    BY <1>1, <2>2 DEF Adotada, ComSelecao
  <2>4. PecaSob(tab, tab.peao) # Nada
    <3>1. NoPeao # Nada
      BY <1>1, MesaDe, TiposDistintos DEF Tipos, Bom
    <3>2. QED
      BY <1>1, <2>2, <3>1 DEF PecaSob, NoPeao
  <2>5. PodePosicionarARecebida(Ativo, r, tab.recebidas[r].alvo)
    BY <1>1, <1>2, <2>2, <2>3, <2>4 DEF PodePosicionarARecebida, PodePosicionarRecebida, DaVez, Ativo, Conecta
  <2>6. QED
    BY <1>1, <2>1, <2>5, AceitaDe
<1>3. CASE ~Conecta(tab, r)
  <2>1. PICK passo \in Giros : a = <<"girar_peca", r, passo>>
    BY <1>1, <1>3 DEF AcoesDaFixada
  <2>2. r # tab.manipulacao
    BY <1>1 DEF NaVez, Fora
  <2>3. PodeGirarAPeca(Ativo, r, passo)
    BY <1>1, <2>2 DEF PodeGirarAPeca, PodeGirarPeca, PodeGirarRecebida, DaVez, Ativo
  <2>4. QED
    BY <2>1, <2>3, AceitaDe
<1>4. QED
  BY <1>2, <1>3

(* (b) pieces that wait without one                                        *)
LEMMA AceitaPendente ==
  ASSUME Tipos, NaVez, resultado = Nada, NoPeao \in Mesa(tab), NoPeao # Nada,
         Fixadas = {}, tab.recebidas # <<>>, NEW a \in AcoesDasPendentes(Ativo)
  PROVE  Aceita(Ativo, a)
<1>1. PICK r \in Pendentes(tab), b \in VagasDisponiveis(tab, NoPeao) :
           a = <<"escolher_vaga_da_peca_recebida", r, b>> /\ VagaElegivel(Ativo, r, b)
  BY DEF AcoesDasPendentes, NaPeca, NoPeao, Ativo
<1>2. VagaPermitida(Ativo, r, b)
  BY <1>1 DEF VagaElegivel, VagaPermitida
<1>3. PICK t : t = Adotada(tab, Ativo)
  OBVIOUS
<1>4. /\ t.peao = Ativo /\ Ativo # Nada /\ Ativo \in DOMAIN tab.peoes
      /\ t.posicionadas = tab.posicionadas /\ t.recebidas = tab.recebidas /\ t.peoes = tab.peoes
  <2>1. Ativo # Nada /\ Ativo \in DOMAIN tab.peoes
    BY PartidaAssumption DEF Tipos, Turno, Ativo, Jogadores
  <2>2. QED
    BY <1>3, <2>1 DEF Adotada, ComSelecao, NaVez, Tipos, Bom, Tabuleiros
<1>5. PecaSob(t, t.peao) = NoPeao
  BY <1>4 DEF PecaSob, NoPeao, Mesa
<1>6. b \in VagasDisponiveis(t, NoPeao)
  BY <1>1, <1>4 DEF VagasDisponiveis, Aberturas, CelulaDe, Vazia, Mesa, Pendentes
<1>7. PodeEscolherVaga(t, r, b)
  BY <1>1, <1>4, <1>5, <1>6 DEF PodeEscolherVaga, Fixadas, Pendentes
<1>8. PodeEscolherAVaga(Ativo, r, b)
  BY <1>2, <1>3, <1>7 DEF PodeEscolherAVaga, DaVez, Ativo
<1>9. QED
  BY <1>1, <1>8, AceitaDe

(* (c) the first turn                                                      *)
LEMMA AceitaPrimeiro ==
  ASSUME Tipos, ElencoCompleto, Ordem, Espelhado, resultado = Nada, Comecando,
         tab.recebidas = <<>>, NEW a \in AcoesDoPrimeiroTurno(Ativo)
  PROVE  Aceita(Ativo, a)
<1> DEFINE i == <<"inicial", Ativo>>
<1>1. /\ Ativo \in Jogadores /\ DOMAIN tab.peoes = Jogadores /\ Bom(tab) /\ Jogadores \subseteq Int
      /\ i \in DOMAIN tab.iniciais \cup Mesa(tab)
  BY DEF Tipos, Turno, Ativo, ElencoCompleto, Jogadores, Espelhado
<1>2. EhInicial(i)
  BY DEF EhInicial, Tipo
<1>3. DaVez(Ativo) /\ InicialDisponivel(Ativo, i) /\ jogadores[Ativo].primeiroTurno
  BY DEF DaVez, Ativo, InicialDisponivel, Comecando
<1>4. CASE i \notin Mesa(tab) /\ tab.selecionada # i
  <2>1. a = <<"selecionar_peca", i>>
    BY <1>4 DEF AcoesDoPrimeiroTurno
  <2>2. PodeSelecionarAPeca(Ativo, i)
    BY <1>1, <1>3, <1>4 DEF PodeSelecionarAPeca, PodeSelecionarPeca
  <2>3. QED
    BY <2>1, <2>2, AceitaDe
<1>5. CASE i \notin Mesa(tab) /\ tab.selecionada = i
  <2>1. PICK c \in CelulasDeInicio : a = <<"posicionar_peca", i, c>> /\ Vazia(tab, c)
    BY <1>5 DEF AcoesDoPrimeiroTurno
  <2>2. PodePosicionarAInicial(Ativo, i, c)
    BY <1>1, <1>3, <1>5, <2>1 DEF PodePosicionarAInicial, PodePosicionarInicial
  <2>3. QED
    BY <1>2, <2>1, <2>2, AceitaDe
<1>6. CASE i \in Mesa(tab) /\ NoPeao = Nada /\ tab.peao # Ativo
  <2>1. a = <<"selecionar_peao">>
    BY <1>6 DEF AcoesDoPrimeiroTurno, NaPeca, NoPeao, Ativo
  <2>2. PodeSelecionarOPeao(Ativo)
    BY <1>3 DEF PodeSelecionarOPeao, PodeSelecionarPeao
  <2>3. QED
    BY <2>1, <2>2, AceitaDe
<1>7. CASE i \in Mesa(tab) /\ NoPeao = Nada /\ tab.peao = Ativo
  <2>1. a = <<"posicionar_peao", i>>
    BY <1>7 DEF AcoesDoPrimeiroTurno, NaPeca, NoPeao, Ativo
  <2>2. Ocupantes(tab, i) = {}
    <3>1. ASSUME NEW k \in Jogadores, tab.peoes[k] = i PROVE FALSE
      <4>1. k # Ativo /\ k \in Int /\ Ativo \in Int
        BY <1>1, <1>7, <3>1, MesaDe, TiposDistintos DEF NoPeao, Bom
      <4>2. CASE k < Ativo
        BY <3>1, <4>1, <4>2 DEF Ordem
      <4>3. CASE k > Ativo
        <5>1. turno.rodada = 1
          BY <1>1 DEF Ordem, PrimeirosTurnos, Comecando
        <5>2. jogadores[k].primeiroTurno
          BY <4>1, <4>3, <5>1 DEF Ordem, PrimeirosTurnos
        <5>3. tab.peoes[k] = Nada
          BY <4>1, <5>2 DEF Ordem, PorEntrar
        <5>4. QED
          BY <1>1, <1>7, <3>1, <5>3, MesaDe, TiposDistintos DEF Bom
      <4>4. QED
        BY <4>1, <4>2, <4>3
    <3>2. QED
      BY <1>1, <3>1 DEF Ocupantes
  <2>3. PodePosicionarOPeao(Ativo, i)
    BY <1>2, <1>3, <1>7, <2>2 DEF PodePosicionarOPeao, PodePosicionarPeao, NoPeao
  <2>4. QED
    BY <2>1, <2>3, AceitaDe
<1>8. CASE i \in Mesa(tab) /\ NoPeao # Nada
  <2>1. a = <<"encerrar_turno">>
    BY <1>8 DEF AcoesDoPrimeiroTurno, NaPeca, NoPeao, Ativo
  <2>2. PodeEncerrar(Ativo)
    BY <1>3, <1>8 DEF PodeEncerrar, NaPeca, NoPeao
  <2>3. QED
    BY <2>1, <2>2, AceitaDe
<1>9. QED
  BY <1>4, <1>5, <1>6, <1>7, <1>8

(* (d) on the piece the turn began on                                      *)
LEMMA AceitaSobreOInicio ==
  ASSUME Tipos, NaVez, resultado = Nada, ~Comecando, ~turno.confirmada, tab.recebidas = <<>>,
         tab.peao = Ativo, NoPeao = turno.inicio, NEW a \in AcoesSobreOInicio(Ativo)
  PROVE  Aceita(Ativo, a)
<1>1. /\ NoPeao \in Mesa(tab) /\ NoPeao # Nada /\ SemPassoDefinitivo(Ativo) /\ NaPeca(Ativo) = NoPeao
      /\ tab.peoes[Ativo] = NoPeao
  BY DepoisDoPrimeiro DEF SemPassoDefinitivo, DaVez, Ativo, Comecando, NaPeca, NoPeao
<1>2. ASSUME NEW p \in Destinos(Ativo), a = <<"mover_peao", p>>
      PROVE  Aceita(Ativo, a)
  <2>1. /\ p \in VizinhasConectadas(tab, NoPeao) /\ p \in Mesa(tab) /\ ~EhMonstro(p)
        /\ turno.atravessou /\ turno.travessia # Nada => p = turno.travessia
        /\ Cardinality(Ocupantes(tab, p)) < TetoOcupacao(tab, jogadores, p)
    BY <1>1, <1>2 DEF Destinos, VizinhasConectadas
  <2>2. NaZona(p)
    BY <2>1 DEF NaZona
  <2>3. PodeMoverOPeao(Ativo, p)
    BY <1>1, <2>1, <2>2 DEF PodeMoverOPeao, PodeMoverPeao
  <2>4. QED
    BY <1>2, <2>3, AceitaDe
<1>3. ASSUME NEW c \in CelulasEscuras(Ativo), a = <<"atravessar_o_escuro", c>>,
             jogadores[Ativo].baixa, ~turno.atravessou
      PROVE  Aceita(Ativo, a)
  <2>1. PodeAtravessar(Ativo, c)
    BY <1>1, <1>3 DEF PodeAtravessar, CelulasEscuras
  <2>2. QED
    BY <1>3, <2>1, AceitaDe
<1>4. ASSUME a = <<"permanecer">>, Permaneceria(Ativo)
      PROVE  Aceita(Ativo, a)
  <2>1. ComSelecao(tab, Ativo) = tab
    BY <1>1, ComSelecaoDe DEF ComSelecao
  <2>2. PodePermanecerNaPeca(Ativo)
    BY <1>1, <1>4, <2>1 DEF PodePermanecerNaPeca, PodePermanecer, Permaneceria
  <2>3. QED
    BY <1>4, <2>2, AceitaDe
<1>5. QED
  BY <1>2, <1>3, <1>4 DEF AcoesSobreOInicio

LEMMA EnumeradaAceita ==
  ASSUME TurnosDosBots, resultado = Nada, ElencoCompleto, NEW a \in AcoesValidasDaSubfase(Ativo)
  PROVE  Aceita(Ativo, a)
<1>1. /\ Tipos /\ NaVez /\ VagasAbertas /\ Ordem /\ Espelhado /\ Escolhidas
  BY DEF TurnosDosBots, TurnosComSaida, TurnosComLuz, Turnos, Encaixada, Luzes, Espelhos, Espelhado
<1>2. CASE Fixadas # {}
  BY <1>1, <1>2, AceitaFixada DEF AcoesValidasDaSubfase, Ativo
<1>3. CASE Fixadas = {} /\ tab.recebidas # <<>>
  <2>1. NoPeao \in Mesa(tab) /\ NoPeao # Nada
    <3>1. CASE Comecando
      <4>1. Pendentes(tab) # {}
        BY <1>1, <1>3, MesaDe DEF Tipos, Bom
      <4>2. QED
        BY <1>1, <3>1, <4>1, InicialNoLugar DEF Espelhado
    <3>2. QED
      BY <1>1, <3>1, DepoisDoPrimeiro
  <2>2. a \in AcoesDasPendentes(Ativo)
    BY <1>3 DEF AcoesValidasDaSubfase, Ativo
  <2>3. QED
    BY <1>1, <1>3, <2>1, <2>2, AceitaPendente
<1>4. CASE Fixadas = {} /\ tab.recebidas = <<>> /\ Comecando
  BY <1>1, <1>4, AceitaPrimeiro DEF AcoesValidasDaSubfase, Ativo, Comecando
<1>5. CASE Fixadas = {} /\ tab.recebidas = <<>> /\ ~Comecando
  <2>1. CASE turno.confirmada
    <3>1. a = <<"encerrar_turno">> /\ PodeEncerrar(Ativo)
      BY <1>5, <2>1 DEF AcoesValidasDaSubfase, Ativo, Comecando, PodeEncerrar, DaVez
    <3>2. QED
      BY <3>1, AceitaDe
  <2>2. CASE ~turno.confirmada /\ tab.peao # Ativo
    <3>1. a = <<"selecionar_peao">> /\ PodeSelecionarOPeao(Ativo)
      BY <1>5, <2>2 DEF AcoesValidasDaSubfase, Ativo, Comecando, PodeSelecionarOPeao, PodeSelecionarPeao, DaVez
    <3>2. QED
      BY <3>1, AceitaDe
  <2>3. CASE ~turno.confirmada /\ tab.peao = Ativo /\ NoPeao # turno.inicio
    <3>1. a = <<"confirmar_posicao_do_peao">>
      BY <1>5, <2>3 DEF AcoesValidasDaSubfase, Ativo, Comecando, NaPeca, NoPeao
    <3>2. NoPeao \in Mesa(tab) /\ ~EhMonstro(NoPeao)
      BY <1>1, <1>5, DepoisDoPrimeiro
    <3>3. turno.atravessou => NoPeao = turno.travessia
      BY <1>1, <2>3 DEF Espelhado
    <3>4. PodeConfirmar(Ativo)
      BY <1>5, <2>3, <3>2, <3>3 DEF PodeConfirmar, SemPassoDefinitivo, DaVez, Ativo, Comecando,
           NaPeca, NoPeao, TravessiaEmMonstro, PousouNaTravessia
    <3>5. QED
      BY <3>1, <3>4, AceitaDe
  <2>4. CASE ~turno.confirmada /\ tab.peao = Ativo /\ NoPeao = turno.inicio
    <3>1. a \in AcoesSobreOInicio(Ativo)
      BY <1>5, <2>4 DEF AcoesValidasDaSubfase, Ativo, Comecando, NaPeca, NoPeao
    <3>2. QED
      BY <1>1, <1>5, <2>4, <3>1, AceitaSobreOInicio
  <2>5. QED
    BY <2>1, <2>2, <2>3, <2>4
<1>6. QED
  BY <1>2, <1>3, <1>4, <1>5

(***************************************************************************)
(* What acoesValidasDaSubfase enumerates for a bot, aplicarComando accepts:*)
(* in no state of a match with everybody there does the copy of the guards *)
(* in bot.ts let through what partida.ts, peoes.ts or tabuleiro.ts refuse. *)
(***************************************************************************)
THEOREM BotSempreExato == SpecComBots => []BotExato
<1>1. InitComBots => TurnosDosBots
  BY EspelhosNoInicio DEF InitComBots
<1>2. TurnosDosBots /\ [NextComBots]_vars => TurnosDosBots'
  BY NextComBotsPasso, EspelhosSegue, EspelhosVaza
    DEF TurnosDosBots, TurnosComSaida, TurnosComLuz, Turnos, vars, varsDaPartida
<1>3. TurnosDosBots => BotExato
  <2>1. SUFFICES ASSUME TurnosDosBots, ElencoCompleto, NEW j, NEW a \in AcoesValidasDaSubfase(j)
                 PROVE  Aceita(j, a)
    BY DEF BotExato
  <2>2. resultado = Nada /\ j = Ativo
    BY <2>1 DEF AcoesValidasDaSubfase, Ativo
  <2>3. QED
    BY <2>1, <2>2, EnumeradaAceita
<1>4. QED
  BY <1>1, <1>2, <1>3, PTL DEF SpecComBots
=============================================================================
