------------------------------ MODULE MesaProofs ------------------------------
(***************************************************************************)
(* Theorems of the table: a match with a person at the page and bots, the  *)
(* specification of JogadorBot.                                            *)
(***************************************************************************)
EXTENDS JogadorBot, PartidaProofs

LOCAL WF == INSTANCE WellFoundedInduction

-----------------------------------------------------------------------------
(* A mirror after a lot, whatever the lot: what follows of a recursive     *)
(* function, by the first place where it would fail.                       *)

LEMMA PrimeiroNatural ==
  ASSUME NEW T \in SUBSET Nat, T # {}
  PROVE  \E x \in T : \A y \in T : x <= y
<1> DEFINE Antes == {ss \in Nat \X Nat : ss[1] < ss[2]}
<1>1. WF!IsWellFoundedOn(Antes, Nat)
  BY WF!NatLessThanWellFounded DEF WF!OpToRel
<1>2. PICK x \in T : \A y \in T : ~ (<<y, x>> \in Antes)
  BY <1>1, WF!WFMin, Zenon
<1>3. \A y \in T : ~ (y < x)
  BY <1>2
<1>4. QED
  BY <1>3

(* f are the mirrors after each of the events.                             *)
Dobras(f, e, lote) ==
  f[0] = e /\ \A i \in 1..Len(lote) : f[i] = ReduzirEvento(f[i - 1], lote[i])

LEMMA DobrasExistem ==
  ASSUME NEW e, NEW lote, Len(lote) \in Nat
  PROVE  \E f : f = [i \in 0..Len(lote) |-> IF i = 0 THEN e ELSE ReduzirEvento(f[i - 1], lote[i])]
<1> DEFINE Ate(n) == \E f : f = [i \in 0..n |-> IF i = 0 THEN e ELSE ReduzirEvento(f[i - 1], lote[i])]
           Falha == {n \in Nat : ~Ate(n)}
<1>1. SUFFICES ASSUME Falha # {} PROVE FALSE
  OBVIOUS
<1>2. PICK n \in Falha : \A m \in Falha : n <= m
  BY <1>1, PrimeiroNatural
<1>3. n # 0
  <2> DEFINE f == [i \in 0..0 |-> e]
  <2>1. f = [i \in 0..0 |-> IF i = 0 THEN e ELSE ReduzirEvento(f[i - 1], lote[i])]
    OBVIOUS
  <2>2. Ate(0)
    BY <2>1, Zenon
  <2>3. QED
    BY <2>2
<1>4. n \in Nat /\ n - 1 \in Nat /\ ~(n <= n - 1)
  BY <1>3
<1>5. Ate(n - 1)
  BY <1>2, <1>4
<1>6. PICK f : f = [i \in 0..n - 1 |-> IF i = 0 THEN e ELSE ReduzirEvento(f[i - 1], lote[i])]
  BY <1>5
<1> DEFINE g == [i \in 0..n |-> IF i = n THEN ReduzirEvento(f[n - 1], lote[n]) ELSE f[i]]
<1>7. \A i \in 0..n - 1 : f[i] = IF i = 0 THEN e ELSE ReduzirEvento(f[i - 1], lote[i])
  BY <1>6
<1>8. \A i \in 0..n : g[i] = IF i = 0 THEN e ELSE ReduzirEvento(g[i - 1], lote[i])
  BY <1>3, <1>4, <1>7
<1>9. g = [i \in 0..n |-> IF i = 0 THEN e ELSE ReduzirEvento(g[i - 1], lote[i])]
  BY <1>8
<1>10. Ate(n)
  BY <1>9, Zenon
<1>11. QED
  BY <1>10

(* The mirror after a lot is the last one of any such sequence.            *)
LEMMA DobraUnica ==
  ASSUME NEW e, NEW lote, Len(lote) \in Nat, NEW g, Dobras(g, e, lote)
  PROVE  ReduzirEventos(e, lote) = g[Len(lote)]
<1> DEFINE n == Len(lote)
           f == CHOOSE f : f = [i \in 0..n |-> IF i = 0 THEN e ELSE ReduzirEvento(f[i - 1], lote[i])]
<1>1. f = [i \in 0..n |-> IF i = 0 THEN e ELSE ReduzirEvento(f[i - 1], lote[i])]
  BY DobrasExistem
<1>2. ReduzirEventos(e, lote) = f[n]
  BY DEF ReduzirEventos
<1> HIDE DEF f
<1> DEFINE Falha == {i \in 0..n : f[i] # g[i]}
<1>3. SUFFICES ASSUME Falha # {} PROVE FALSE
  BY <1>2
<1>4. PICK i \in Falha : \A k \in Falha : i <= k
  <2>1. Falha \in SUBSET Nat
    OBVIOUS
  <2>2. QED
    BY <1>3, <2>1, PrimeiroNatural, Zenon
<1>5. i # 0
  BY <1>1 DEF Dobras
<1>6. i - 1 \in 0..n /\ i - 1 \notin Falha
  BY <1>4, <1>5
<1>7. f[i] = ReduzirEvento(f[i - 1], lote[i]) /\ g[i] = ReduzirEvento(g[i - 1], lote[i])
  BY <1>1, <1>5 DEF Dobras
<1>8. QED
  BY <1>6, <1>7

LEMMA TemDobras ==
  ASSUME NEW e, NEW lote, Len(lote) \in Nat
  PROVE  \E f : Dobras(f, e, lote)
<1> DEFINE f == CHOOSE f : f = [i \in 0..Len(lote) |->
                                IF i = 0 THEN e ELSE ReduzirEvento(f[i - 1], lote[i])]
<1>1. f = [i \in 0..Len(lote) |-> IF i = 0 THEN e ELSE ReduzirEvento(f[i - 1], lote[i])]
  BY DobrasExistem
<1> HIDE DEF f
<1>2. QED
  BY <1>1 DEF Dobras

(* A lot, whatever its events.                                             *)
EhLote(s) == \E S : s \in Seq(S)

LEMMA DobraVazia ==
  ASSUME NEW e
  PROVE  ReduzirEventos(e, << >>) = e /\ EhLote(<< >>)
<1>1. << >> \in Seq({}) /\ Len(<< >>) = 0
  OBVIOUS
<1>2. Dobras([i \in {0} |-> e], e, << >>)
  BY <1>1 DEF Dobras
<1>3. QED
  BY <1>1, <1>2, DobraUnica DEF EhLote

LEMMA DobraUm ==
  ASSUME NEW e, NEW ev
  PROVE  ReduzirEventos(e, << ev >>) = ReduzirEvento(e, ev) /\ EhLote(<< ev >>)
<1>1. << ev >> \in Seq({ev}) /\ Len(<< ev >>) = 1 /\ << ev >>[1] = ev
  OBVIOUS
<1> DEFINE f == [i \in 0..1 |-> IF i = 0 THEN e ELSE ReduzirEvento(e, ev)]
<1>2. Dobras(f, e, << ev >>) /\ f[1] = ReduzirEvento(e, ev)
  BY <1>1 DEF Dobras
<1>3. QED
  BY <1>1, <1>2, DobraUnica DEF EhLote

(* One lot after another.                                                  *)
LEMMA DobraJunta ==
  ASSUME NEW e, NEW s, NEW t, EhLote(s), EhLote(t)
  PROVE  /\ EhLote(s \o t)
         /\ ReduzirEventos(e, s \o t) = ReduzirEventos(ReduzirEventos(e, s), t)
<1>1. PICK S : s \in Seq(S) /\ t \in Seq(S)
  <2>1. PICK A, B : s \in Seq(A) /\ t \in Seq(B)
    BY DEF EhLote
  <2>2. s \in Seq(A \cup B) /\ t \in Seq(A \cup B)
    BY <2>1
  <2>3. QED
    BY <2>2
<1> DEFINE m == Len(s)
           n == Len(t)
<1>2. /\ m \in Nat /\ n \in Nat /\ s \o t \in Seq(S) /\ Len(s \o t) = m + n
      /\ \A i \in 1..m : (s \o t)[i] = s[i]
      /\ \A i \in 1..n : (s \o t)[m + i] = t[i]
  BY <1>1
<1>3. PICK f : Dobras(f, e, s)
  BY <1>2, TemDobras
<1>4. PICK g : Dobras(g, f[m], t)
  BY <1>2, TemDobras
<1> DEFINE h == [i \in 0..(m + n) |-> IF i <= m THEN f[i] ELSE g[i - m]]
           st == s \o t
<1>5. st = s \o t
  OBVIOUS
<1> HIDE DEF m, n, st
<1>6. /\ f[0] = e /\ \A i \in 1..m : f[i] = ReduzirEvento(f[i - 1], s[i])
      /\ g[0] = f[m] /\ \A i \in 1..n : g[i] = ReduzirEvento(g[i - 1], t[i])
  BY <1>3, <1>4 DEF Dobras, m, n
<1>7. \A i \in 1..(m + n) : h[i] = ReduzirEvento(h[i - 1], st[i])
  <2> SUFFICES ASSUME NEW i \in 1..(m + n) PROVE h[i] = ReduzirEvento(h[i - 1], st[i])
    OBVIOUS
  <2>1. CASE i <= m
    BY <1>2, <1>5, <1>6, <2>1
  <2>2. CASE i > m
    <3>1. i - m \in 1..n /\ st[m + (i - m)] = t[i - m] /\ m + (i - m) = i
      BY <1>2, <1>5, <2>2
    <3>2. h[i] = g[i - m]
      BY <1>2, <2>2
    <3>3. h[i - 1] = g[(i - m) - 1]
      <4>1. CASE i - 1 = m
        <5>1. (i - m) - 1 = 0 /\ h[i - 1] = f[m]
          BY <1>2, <4>1
        <5>2. QED
          BY <1>6, <5>1
      <4>2. CASE i - 1 # m
        <5>1. ~(i - 1 <= m) /\ i - 1 \in 0..(m + n) /\ (i - 1) - m = (i - m) - 1
          BY <1>2, <2>2, <4>2
        <5>2. QED
          BY <5>1
      <4>3. QED
        BY <4>1, <4>2
    <3>4. QED
      BY <1>6, <3>1, <3>2, <3>3
  <2>3. m \in Nat /\ n \in Nat
    BY <1>2
  <2>4. QED
    BY <2>1, <2>2, <2>3
<1>8. h[0] = e /\ h[m + n] = g[n]
  BY <1>2, <1>6
<1>9. Len(st) = m + n
  BY <1>2, <1>5
<1> HIDE DEF h
<1>10. Dobras(h, e, st)
  <2>1. \A i \in 1..Len(st) : h[i] = ReduzirEvento(h[i - 1], st[i])
    BY <1>7, <1>9, Zenon
  <2>2. QED
    BY <1>8, <2>1, Zenon DEF Dobras
<1>11. ReduzirEventos(e, st) = g[n]
  BY <1>2, <1>8, <1>9, <1>10, DobraUnica
<1>12. ReduzirEventos(e, s) = f[m]
  BY <1>2, <1>3, DobraUnica DEF m
<1>13. ReduzirEventos(f[m], t) = g[n]
  BY <1>2, <1>4, DobraUnica DEF n
<1>14. QED
  BY <1>1, <1>2, <1>5, <1>11, <1>12, <1>13 DEF EhLote

-----------------------------------------------------------------------------
(* The shape of the mirror of the page and of what reaches it.             *)

Campos ==
  {"iniciais", "posicionadas", "selecionada", "manipulacao", "peoes", "peao", "recebidas",
   "conhecidas", "iluminadas", "ativo", "rodada", "movimentou", "confirmada", "atravessou",
   "travessia", "inicio", "dono", "jogadores", "restam", "geradores", "cartao"}

Molde(e) == e = [c \in Campos |-> e[c]]

EspelhoTipado(e) ==
  Molde(e) /\ DOMAIN e.posicionadas \subseteq Pecas /\ DOMAIN e.recebidas \subseteq PecasDaCaixa

TiposDeEvento ==
  {"PECA_SELECIONADA", "PECA_DESELECIONADA", "PECA_GIRADA", "PECA_POSICIONADA",
   "MANIPULACAO_FINALIZADA", "PEAO_SELECIONADO", "PEAO_DESELECIONADO", "RECEBIMENTO_GERADO",
   "PECA_SORTEADA", "VAGA_DA_PECA_RECEBIDA_ESCOLHIDO", "PEAO_POSICIONADO", "PEAO_MOVIDO",
   "PEAO_PERMANECEU", "TURNO_INICIADO", "TURNO_ENCERRADO", "POSICAO_CONFIRMADA",
   "CELULAS_ILUMINADAS", "LIMPEZA_APLICADA", "ATAQUE_RESOLVIDO", "RESGATE_REALIZADO",
   "ATRAVESSOU_O_ESCURO", "DESISTENCIA_REGISTRADA"}

EventoTipado(ev) ==
  /\ ev.tipo \in TiposDeEvento
  /\ ev.tipo = "PECA_POSICIONADA" => ev.peca \in Pecas
  /\ ev.tipo = "RECEBIMENTO_GERADO" => DOMAIN ev.recebidas \subseteq PecasDaCaixa

LEMMA SemPecasTipado ==
  ASSUME NEW e, EspelhoTipado(e), NEW X
  PROVE  EspelhoTipado(SemPecas(e, X))
<1> DEFINE r == SemPecas(e, X)
<1>1. Molde(e) /\ DOMAIN e.posicionadas \subseteq Pecas /\ DOMAIN e.recebidas \subseteq PecasDaCaixa
  BY DEF EspelhoTipado
<1>2. DOMAIN e = Campos
  BY <1>1 DEF Molde
<1>3. /\ Molde(r) /\ r.recebidas = e.recebidas
      /\ r.posicionadas = Restringir(e.posicionadas, DOMAIN e.posicionadas \ X)
  BY <1>1, <1>2 DEF SemPecas, Campos, Molde
<1>4. DOMAIN Restringir(e.posicionadas, DOMAIN e.posicionadas \ X) = DOMAIN e.posicionadas \ X
  BY DEF Restringir
<1>5. QED
  BY <1>1, <1>3, <1>4 DEF EspelhoTipado

LEMMA ReduzirTipado ==
  ASSUME NEW e, EspelhoTipado(e), NEW ev, EventoTipado(ev)
  PROVE  EspelhoTipado(ReduzirEvento(e, ev))
<1> DEFINE r == ReduzirEvento(e, ev)
<1>1. Molde(e) /\ DOMAIN e.posicionadas \subseteq Pecas /\ DOMAIN e.recebidas \subseteq PecasDaCaixa
  BY DEF EspelhoTipado
<1>2. DOMAIN e = Campos
  BY <1>1 DEF Molde
<1>3. DOMAIN << >> = {}
  BY ParcialVazia
<1>4. CASE ev.tipo = "PECA_SELECIONADA"
  <2>1. r = [e EXCEPT !.selecionada = ev.peca]
    BY <1>4 DEF ReduzirEvento
  <2>2. QED
    BY <1>1, <1>2, <2>1 DEF Campos, Molde, EspelhoTipado
<1>5. CASE ev.tipo = "PECA_DESELECIONADA"
  <2>1. r = [e EXCEPT !.selecionada = IF @ = ev.peca THEN Nada ELSE @]
    BY <1>5 DEF ReduzirEvento
  <2>2. QED
    BY <1>1, <1>2, <2>1 DEF Campos, Molde, EspelhoTipado
<1>6. CASE ev.tipo = "PECA_GIRADA"
  <2>1. r = PecaGirada(e, ev)
    BY <1>6 DEF ReduzirEvento
  <2>2. QED
    BY <1>1, <1>2, <2>1 DEF PecaGirada, Campos, Molde, EspelhoTipado
<1>7. CASE ev.tipo = "PECA_POSICIONADA"
  <2>1. r = PecaPosicionada(e, ev)
    BY <1>7 DEF ReduzirEvento
  <2> DEFINE onde == [celula |-> ev.celula, orientacao |-> ev.orientacao]
             resta == {q \in DOMAIN e.recebidas : e.recebidas[q].alvo # ev.celula}
  <2>2. CASE r = e
    BY <2>2, Zenon
  <2>3. CASE r # e
    <3>1. /\ Molde(r) /\ r.posicionadas = Estender(e.posicionadas, ev.peca, onde)
          /\ r.recebidas = Restringir(e.recebidas, resta)
      BY <1>1, <1>2, <2>1, <2>3 DEF PecaPosicionada, Campos, Molde
    <3>2. DOMAIN r.posicionadas = DOMAIN e.posicionadas \cup {ev.peca} /\ DOMAIN r.recebidas = resta
      BY <3>1 DEF Restringir, Estender
    <3>3. QED
      BY <1>1, <1>7, <3>1, <3>2 DEF EspelhoTipado, EventoTipado
  <2>4. QED
    BY <2>2, <2>3
<1>8. CASE ev.tipo = "MANIPULACAO_FINALIZADA"
  <2>1. r = [e EXCEPT !.manipulacao = IF @ = ev.peca THEN Nada ELSE @]
    BY <1>8 DEF ReduzirEvento
  <2>2. QED
    BY <1>1, <1>2, <1>3, <1>8, <2>1
      DEF Campos, Molde, EspelhoTipado, EventoTipado
<1>9. CASE ev.tipo = "PEAO_SELECIONADO"
  <2>1. r = [e EXCEPT !.peao = ev.peao]
    BY <1>9 DEF ReduzirEvento
  <2>2. QED
    BY <1>1, <1>2, <1>3, <1>9, <2>1
      DEF Campos, Molde, EspelhoTipado, EventoTipado
<1>10. CASE ev.tipo = "PEAO_DESELECIONADO"
  <2>1. r = [e EXCEPT !.peao = IF @ = ev.peao THEN Nada ELSE @]
    BY <1>10 DEF ReduzirEvento
  <2>2. QED
    BY <1>1, <1>2, <1>3, <1>10, <2>1
      DEF Campos, Molde, EspelhoTipado, EventoTipado
<1>11. CASE ev.tipo = "RECEBIMENTO_GERADO"
  <2>1. r = [e EXCEPT !.recebidas = ev.recebidas, !.conhecidas = @ \cup DOMAIN ev.recebidas]
    BY <1>11 DEF ReduzirEvento
  <2>2. QED
    BY <1>1, <1>2, <1>3, <1>11, <2>1
      DEF Campos, Molde, EspelhoTipado, EventoTipado
<1>12. CASE ev.tipo = "PECA_SORTEADA"
  <2>1. r = PecasSorteadas(e, ev)
    BY <1>12 DEF ReduzirEvento
  <2>2. QED
    BY <1>1, <1>2, <1>3, <1>12, <2>1
      DEF PecasSorteadas, Campos, Molde, EspelhoTipado, EventoTipado
<1>13. CASE ev.tipo = "VAGA_DA_PECA_RECEBIDA_ESCOLHIDO"
  <2>1. r = VagaEscolhida(e, ev)
    BY <1>13 DEF ReduzirEvento
  <2>2. QED
    BY <1>1, <1>2, <1>3, <1>13, <2>1
      DEF VagaEscolhida, Campos, Molde, EspelhoTipado, EventoTipado
<1>14. CASE ev.tipo = "PEAO_POSICIONADO"
  <2>1. r = PeaoPosicionado(e, ev)
    BY <1>14 DEF ReduzirEvento
  <2>2. QED
    BY <1>1, <1>2, <1>3, <1>14, <2>1
      DEF PeaoPosicionado, Aprendido, PeaoNaCelula, Campos, Molde, EspelhoTipado, EventoTipado
<1>15. CASE ev.tipo = "PEAO_MOVIDO"
  <2>1. r = PeaoMovido(e, ev)
    BY <1>15 DEF ReduzirEvento
  <2>2. QED
    BY <1>1, <1>2, <1>3, <1>15, <2>1
      DEF PeaoMovido, Aprendido, PeaoNaCelula, Campos, Molde, EspelhoTipado, EventoTipado
<1>16. CASE ev.tipo = "PEAO_PERMANECEU"
  <2>1. r = [Aprendido(e, ev.peao) EXCEPT !.peao = Nada]
    BY <1>16 DEF ReduzirEvento
  <2>2. QED
    BY <1>1, <1>2, <1>3, <1>16, <2>1
      DEF Aprendido, Campos, Molde, EspelhoTipado, EventoTipado
<1>17. CASE ev.tipo = "TURNO_INICIADO"
  <2>1. r = TurnoIniciado(e, ev)
    BY <1>17 DEF ReduzirEvento
  <2>2. QED
    BY <1>1, <1>2, <1>3, <1>17, <2>1
      DEF TurnoIniciado, SemFase, Campos, Molde, EspelhoTipado, EventoTipado
<1>18. CASE ev.tipo = "TURNO_ENCERRADO"
  <2>1. r = [SemFase(e) EXCEPT !.ativo = Nada, !.inicio = Nada]
    BY <1>18 DEF ReduzirEvento
  <2>2. QED
    BY <1>1, <1>2, <1>3, <1>18, <2>1
      DEF SemFase, Campos, Molde, EspelhoTipado, EventoTipado
<1>19. CASE ev.tipo = "POSICAO_CONFIRMADA"
  <2>1. r = PosicaoConfirmada(e, ev)
    BY <1>19 DEF ReduzirEvento
  <2>2. QED
    BY <1>1, <1>2, <1>3, <1>19, <2>1
      DEF PosicaoConfirmada, Campos, Molde, EspelhoTipado, EventoTipado
<1>20. CASE ev.tipo = "CELULAS_ILUMINADAS"
  <2>1. r = [e EXCEPT !.iluminadas = ev.celulas]
    BY <1>20 DEF ReduzirEvento
  <2>2. QED
    BY <1>1, <1>2, <1>3, <1>20, <2>1
      DEF Campos, Molde, EspelhoTipado, EventoTipado
<1>21. CASE ev.tipo = "LIMPEZA_APLICADA"
  <2>1. r = SemPecas(e, ev.pecas)
    BY <1>21 DEF ReduzirEvento
  <2>2. QED
    BY <2>1, SemPecasTipado
<1>22. CASE ev.tipo = "ATAQUE_RESOLVIDO"
  <2>1. r = AtaqueResolvido(e, ev)
    BY <1>22 DEF ReduzirEvento
  <2>2. QED
    BY <1>1, <1>2, <1>3, <1>22, <2>1
      DEF AtaqueResolvido, Campos, Molde, EspelhoTipado, EventoTipado
<1>23. CASE ev.tipo = "RESGATE_REALIZADO"
  <2>1. r = ResgateRealizado(e, ev)
    BY <1>23 DEF ReduzirEvento
  <2>2. QED
    BY <1>1, <1>2, <1>3, <1>23, <2>1
      DEF ResgateRealizado, Campos, Molde, EspelhoTipado, EventoTipado
<1>24. CASE ev.tipo = "ATRAVESSOU_O_ESCURO"
  <2>1. r = [e EXCEPT !.atravessou = TRUE]
    BY <1>24 DEF ReduzirEvento
  <2>2. QED
    BY <1>1, <1>2, <1>3, <1>24, <2>1
      DEF Campos, Molde, EspelhoTipado, EventoTipado
<1>25. CASE ev.tipo = "DESISTENCIA_REGISTRADA"
  <2>1. r = DesistenciaRegistrada(e, ev)
    BY <1>25 DEF ReduzirEvento
  <2> DEFINE s == SemPecas(e, {SobOPeao(e, ev.peao)} \ {Nada})
  <2>2. EspelhoTipado(s)
    BY SemPecasTipado
  <2> HIDE DEF s
  <2>3. DOMAIN s = Campos
    BY <2>2 DEF EspelhoTipado, Molde
  <2>4. CASE r = e
    BY <2>4, Zenon
  <2>5. CASE r # e
    <3>1. Molde(r) /\ r.posicionadas = s.posicionadas /\ r.recebidas = s.recebidas
      BY <2>1, <2>2, <2>3, <2>5 DEF DesistenciaRegistrada, Campos, Molde, EspelhoTipado, s
    <3>2. QED
      BY <2>2, <3>1 DEF EspelhoTipado
  <2>6. QED
    BY <2>4, <2>5
<1>26. QED
  BY <1>4, <1>5, <1>6, <1>7, <1>8, <1>9, <1>10, <1>11, <1>12, <1>13, <1>14, <1>15, <1>16, <1>17, <1>18, <1>19, <1>20, <1>21, <1>22, <1>23, <1>24, <1>25 DEF EventoTipado, TiposDeEvento

LoteTipado(s) == EhLote(s) /\ \A i \in DOMAIN s : EventoTipado(s[i])

LEMMA LoteVazio == LoteTipado(<< >>)
<1>1. << >> \in Seq({}) /\ DOMAIN << >> = {}
  BY ParcialVazia
<1>2. QED
  BY <1>1 DEF LoteTipado, EhLote

LEMMA LoteUm ==
  ASSUME NEW ev, EventoTipado(ev)
  PROVE  LoteTipado(<< ev >>)
<1>1. << ev >> \in Seq({ev}) /\ DOMAIN << ev >> = {1} /\ << ev >>[1] = ev
  OBVIOUS
<1>2. QED
  BY <1>1 DEF LoteTipado, EhLote

LEMMA LoteSe ==
  ASSUME NEW c, NEW ev, c => EventoTipado(ev)
  PROVE  LoteTipado(Se(c, ev))
<1>1. CASE c
  BY <1>1, LoteUm DEF Se
<1>2. CASE ~c
  BY <1>2, LoteVazio DEF Se
<1>3. QED
  BY <1>1, <1>2

LEMMA LoteJunta ==
  ASSUME NEW s, NEW t, LoteTipado(s), LoteTipado(t)
  PROVE  LoteTipado(s \o t)
<1>1. PICK S : s \in Seq(S) /\ t \in Seq(S)
  <2>1. PICK A, B : s \in Seq(A) /\ t \in Seq(B)
    BY DEF LoteTipado, EhLote
  <2>2. s \in Seq(A \cup B) /\ t \in Seq(A \cup B)
    BY <2>1
  <2>3. QED
    BY <2>2
<1> DEFINE m == Len(s)
           n == Len(t)
           st == s \o t
<1>2. /\ m \in Nat /\ n \in Nat /\ st \in Seq(S) /\ DOMAIN st = 1..(m + n)
      /\ DOMAIN s = 1..m /\ DOMAIN t = 1..n
      /\ \A i \in 1..(m + n) : st[i] = IF i <= m THEN s[i] ELSE t[i - m]
  BY <1>1
<1> HIDE DEF m, n, st
<1>3. \A i \in 1..(m + n) : IF i <= m THEN i \in 1..m ELSE i - m \in 1..n
  BY <1>2
<1>4. \A i \in DOMAIN st : EventoTipado(st[i])
  BY <1>2, <1>3 DEF LoteTipado
<1>5. QED
  BY <1>2, <1>4 DEF LoteTipado, EhLote, st

LEMMA EmSequencia ==
  ASSUME NEW S, IsFiniteSet(S)
  PROVE  /\ EmOrdem(S) \in [1..Cardinality(S) -> S] /\ EmOrdem(S) \in Seq(S)
         /\ Cardinality(S) \in Nat /\ Len(EmOrdem(S)) = Cardinality(S)
         /\ \A i, k \in 1..Cardinality(S) : EmOrdem(S)[i] = EmOrdem(S)[k] => i = k
         /\ \A x \in S : \E i \in 1..Cardinality(S) : EmOrdem(S)[i] = x
<1> DEFINE n == Cardinality(S)
           q == EmOrdem(S)
<1>1. n \in Nat
  BY FS_CardinalityType
<1>2. PICK f : f \in Bijection(1..n, S)
  BY FS_NatBijection, FS_CountingElements DEF ExistsBijection
<1>3. f \in [1..n -> S] /\ \A i, k \in 1..n : f[i] = f[k] => i = k
  BY <1>2 DEF Bijection, Injection, Surjection, IsInjective
<1>4. q \in [1..n -> S] /\ \A i, k \in 1..n : q[i] = q[k] => i = k
  <2>1. \E g \in [1..n -> S] : \A i, k \in DOMAIN g : g[i] = g[k] => i = k
    <3>1. DOMAIN f = 1..n
      BY <1>3
    <3>2. QED
      BY <1>3, <3>1
  <2> DEFINE g == CHOOSE g \in [1..n -> S] : \A i, k \in DOMAIN g : g[i] = g[k] => i = k
  <2>2. g \in [1..n -> S] /\ \A i, k \in DOMAIN g : g[i] = g[k] => i = k
    BY <2>1, Zenon
  <2>3. q = g
    BY DEF EmOrdem
  <2> HIDE DEF g
  <2>4. DOMAIN g = 1..n
    BY <2>2
  <2>5. QED
    BY <2>2, <2>3, <2>4
<1> HIDE DEF q
<1>5. q \in Seq(S) /\ Len(q) = n
  BY <1>1, <1>4
<1>6. \A x \in S : \E i \in 1..n : q[i] = x
  <2>1. IsFiniteSet(1..n) /\ Cardinality(1..n) = n
    BY <1>1, FS_Interval
  <2>2. q \in Injection(1..n, S)
    BY <1>4 DEF Injection, IsInjective
  <2>3. q \in Surjection(1..n, S)
    BY <2>1, <2>2, FS_Injection
  <2>4. QED
    BY <2>3 DEF Surjection
<1>7. QED
  BY <1>1, <1>4, <1>5, <1>6 DEF q


LEMMA ReduzirLoteTipado ==
  ASSUME NEW e, EspelhoTipado(e), NEW s, LoteTipado(s)
  PROVE  EspelhoTipado(ReduzirEventos(e, s))
<1> DEFINE n == Len(s)
<1>1. n \in Nat /\ DOMAIN s = 1..n
  BY DEF LoteTipado, EhLote
<1>2. PICK f : Dobras(f, e, s)
  BY <1>1, TemDobras
<1> DEFINE Falha == {i \in 0..n : ~EspelhoTipado(f[i])}
<1>3. SUFFICES ASSUME Falha # {} PROVE FALSE
  <2>1. ReduzirEventos(e, s) = f[n]
    BY <1>1, <1>2, DobraUnica
  <2>2. QED
    BY <1>1, <2>1
<1>4. PICK i \in Falha : \A k \in Falha : i <= k
  <2>1. Falha \in SUBSET Nat
    OBVIOUS
  <2>2. QED
    BY <1>3, <2>1, PrimeiroNatural, Zenon
<1>5. i # 0
  BY <1>2, <1>4 DEF Dobras
<1>6. i \in 1..n /\ i - 1 \in 0..n /\ i - 1 \notin Falha
  BY <1>1, <1>4, <1>5
<1>7. f[i] = ReduzirEvento(f[i - 1], s[i]) /\ EventoTipado(s[i]) /\ EspelhoTipado(f[i - 1])
  BY <1>1, <1>2, <1>6 DEF Dobras, LoteTipado
<1>8. EspelhoTipado(f[i])
  BY <1>7, ReduzirTipado, Zenon
<1>9. QED
  BY <1>4, <1>8

-----------------------------------------------------------------------------
(* The same for the mirror of a bot.                                       *)

CamposDoTabuleiro ==
  {"caixa", "iniciais", "posicionadas", "selecionada", "manipulacao", "peoes", "peao", "recebidas"}
CamposDoBot ==
  {"tab", "jogadores", "turno", "iluminadas", "graca", "geradores", "cartao", "resultado", "escudo"}

VistoTipado(e) ==
  /\ e = [c \in CamposDoBot |-> e[c]]
  /\ e.tab = [c \in CamposDoTabuleiro |-> e.tab[c]]
  /\ DOMAIN e.tab.recebidas \subseteq PecasDaCaixa

Feito(f, C) == f = [c \in C |-> f[c]]

LEMMA MoldeSegue ==
  ASSUME NEW C, NEW f, Feito(f, C), NEW x, NEW v
  PROVE  Feito([f EXCEPT ![x] = v], C)
<1>1. DOMAIN f = C
  BY DEF Feito
<1>2. QED
  BY <1>1 DEF Feito

LEMMA NaPecaTipado ==
  ASSUME NEW e, VistoTipado(e), NEW j, NEW p
  PROVE  VistoTipado(PeaoNaPeca(e, j, p))
<1> DEFINE r  == PeaoNaPeca(e, j, p)
           os == IF j \in DOMAIN e.tab.peoes THEN [e.tab.peoes EXCEPT ![j] = p] ELSE e.tab.peoes
           t1 == [e.tab EXCEPT !.peoes = os]
           t2 == [t1 EXCEPT !.peao = j]
           e1 == [e EXCEPT !.tab = t1]
           e2 == [e1 EXCEPT !.tab = t2]
<1>1. /\ e = [c \in CamposDoBot |-> e[c]] /\ e.tab = [c \in CamposDoTabuleiro |-> e.tab[c]]
      /\ DOMAIN e.tab.recebidas \subseteq PecasDaCaixa
  BY DEF VistoTipado
<1>2. DOMAIN e = CamposDoBot /\ DOMAIN e.tab = CamposDoTabuleiro
  BY <1>1
<1>3. e1.tab = t1 /\ e2.tab = t2
  BY <1>2 DEF CamposDoBot
<1>4. r = e2
  BY <1>3, Zenon DEF PeaoNaPeca
<1>5. DOMAIN e2 = CamposDoBot /\ e2 = [c \in CamposDoBot |-> e2[c]]
  BY <1>1, <1>2
<1>6. DOMAIN t2 = CamposDoTabuleiro /\ t2 = [c \in CamposDoTabuleiro |-> t2[c]]
  BY <1>1, <1>2
<1>7. t2.recebidas = e.tab.recebidas
  BY <1>1, <1>2 DEF CamposDoTabuleiro
<1> HIDE DEF os, t1, t2, e1, e2
<1>8. QED
  BY <1>1, <1>3, <1>4, <1>5, <1>6, <1>7 DEF VistoTipado

LEMMA DobrarTipado ==
  ASSUME NEW e, VistoTipado(e), NEW ev,
         ev.tipo = "RECEBIMENTO_GERADO" => DOMAIN ev.recebidas \subseteq PecasDaCaixa
  PROVE  VistoTipado(Dobrar(e, ev))
<1> DEFINE r == Dobrar(e, ev)
<1>1. /\ e = [c \in CamposDoBot |-> e[c]] /\ e.tab = [c \in CamposDoTabuleiro |-> e.tab[c]]
      /\ DOMAIN e.tab.recebidas \subseteq PecasDaCaixa
  BY DEF VistoTipado
<1>2. DOMAIN e = CamposDoBot /\ DOMAIN e.tab = CamposDoTabuleiro
  BY <1>1
<1>3. DOMAIN << >> = {}
  BY ParcialVazia
<1>4. CASE ev.tipo = "PECA_SELECIONADA"
  <2>1. r = [e EXCEPT !.tab.selecionada = ev.peca]
    BY <1>4 DEF Dobrar
  <2>2. QED
    BY <1>1, <1>2, <2>1 DEF CamposDoBot, CamposDoTabuleiro, VistoTipado
<1>5. CASE ev.tipo = "PECA_DESELECIONADA"
  <2>1. r = [e EXCEPT !.tab.selecionada = IF @ = ev.peca THEN Nada ELSE @]
    BY <1>5 DEF Dobrar
  <2>2. QED
    BY <1>1, <1>2, <2>1 DEF CamposDoBot, CamposDoTabuleiro, VistoTipado
<1>6. CASE ev.tipo = "PECA_GIRADA"
  <2>1. r = PecaGiradaNoBot(e, ev)
    BY <1>6 DEF Dobrar
  <2>2. QED
    BY <1>1, <1>2, <2>1 DEF PecaGiradaNoBot, Mesa, Pendentes, CamposDoBot, CamposDoTabuleiro, VistoTipado
<1>7. CASE ev.tipo = "PECA_POSICIONADA"
  <2>1. r = PecaPosicionadaNoBot(e, ev)
    BY <1>7 DEF Dobrar
  <2>2. CASE r = e
    BY <2>2, Zenon
  <2>3. CASE r # e
    <3> DEFINE virada == IF EhEspecial(ev.peca) \/ EhMonstro(ev.peca) THEN Nada ELSE ev.peca
               t1 == [e.tab EXCEPT !.iniciais = Restringir(@, DOMAIN @ \ {ev.peca})]
               t2 == [t1 EXCEPT !.recebidas = Restringir(e.tab.recebidas, DOMAIN e.tab.recebidas \ {ev.peca})]
               t3 == [t2 EXCEPT !.posicionadas =
                        Estender(e.tab.posicionadas, ev.peca,
                                 [celula |-> ev.celula, orientacao |-> ev.orientacao])]
               t4 == [t3 EXCEPT !.selecionada = Nada]
               t5 == [t4 EXCEPT !.manipulacao = virada]
               e1 == [e EXCEPT !.tab = t1]
               e2 == [e1 EXCEPT !.tab = t2]
               e3 == [e2 EXCEPT !.tab = t3]
               e4 == [e3 EXCEPT !.tab = t4]
               e5 == [e4 EXCEPT !.tab = t5]
    <3>a. e1.tab = t1 /\ e2.tab = t2 /\ e3.tab = t3 /\ e4.tab = t4 /\ e5.tab = t5
      BY <1>2 DEF CamposDoBot
    <3>b. r = e5
      BY <2>1, <2>3, <3>a, Zenon DEF PecaPosicionadaNoBot
    <3>f. Feito(e, CamposDoBot) /\ Feito(e.tab, CamposDoTabuleiro)
      BY <1>1, Zenon DEF Feito
    <3>g. Feito(e1, CamposDoBot) /\ Feito(t1, CamposDoTabuleiro)
      BY <3>f, MoldeSegue, Zenon
    <3>h. Feito(e2, CamposDoBot) /\ Feito(t2, CamposDoTabuleiro)
      BY <3>g, MoldeSegue, Zenon
    <3>i. Feito(e3, CamposDoBot) /\ Feito(t3, CamposDoTabuleiro)
      BY <3>h, MoldeSegue, Zenon
    <3>j. Feito(e4, CamposDoBot) /\ Feito(t4, CamposDoTabuleiro)
      BY <3>i, MoldeSegue, Zenon
    <3>c. Feito(e5, CamposDoBot) /\ Feito(t5, CamposDoTabuleiro)
      BY <3>j, MoldeSegue, Zenon
    <3>e. t5.recebidas = Restringir(e.tab.recebidas, DOMAIN e.tab.recebidas \ {ev.peca})
      BY <1>1, <1>2 DEF CamposDoTabuleiro
    <3> HIDE DEF t1, t2, t3, t4, t5, e1, e2, e3, e4, e5
    <3>1. /\ r = [c \in CamposDoBot |-> r[c]] /\ r.tab = [c \in CamposDoTabuleiro |-> r.tab[c]]
          /\ r.tab.recebidas = Restringir(e.tab.recebidas, DOMAIN e.tab.recebidas \ {ev.peca})
      BY <3>a, <3>b, <3>c, <3>e DEF Feito
    <3>2. DOMAIN r.tab.recebidas = DOMAIN e.tab.recebidas \ {ev.peca}
      BY <3>1 DEF Restringir
    <3>3. QED
      BY <1>1, <3>1, <3>2 DEF VistoTipado
  <2>4. QED
    BY <2>2, <2>3
<1>8. CASE ev.tipo = "MANIPULACAO_FINALIZADA"
  <2>1. r = [e EXCEPT !.tab.manipulacao = Nada]
    BY <1>8 DEF Dobrar
  <2>2. QED
    BY <1>1, <1>2, <2>1 DEF CamposDoBot, CamposDoTabuleiro, VistoTipado
<1>9. CASE ev.tipo = "PEAO_SELECIONADO"
  <2>1. r = [e EXCEPT !.tab.peao = ev.peao]
    BY <1>9 DEF Dobrar
  <2>2. QED
    BY <1>1, <1>2, <2>1 DEF CamposDoBot, CamposDoTabuleiro, VistoTipado
<1>10. CASE ev.tipo = "PEAO_DESELECIONADO"
  <2>1. r = [e EXCEPT !.tab.peao = IF @ = ev.peao THEN Nada ELSE @]
    BY <1>10 DEF Dobrar
  <2>2. QED
    BY <1>1, <1>2, <2>1 DEF CamposDoBot, CamposDoTabuleiro, VistoTipado
<1>11. CASE ev.tipo = "PECA_SORTEADA"
  <2>1. r = [e EXCEPT !.tab.caixa = IF @ < Cardinality(ev.pecas) THEN 0
                                    ELSE @ - Cardinality(ev.pecas)]
    BY <1>11 DEF Dobrar
  <2>2. QED
    BY <1>1, <1>2, <2>1 DEF CamposDoBot, CamposDoTabuleiro, VistoTipado
<1>12. CASE ev.tipo = "RECEBIMENTO_GERADO"
  <2>1. r = [e EXCEPT !.tab.recebidas = ev.recebidas]
    BY <1>12 DEF Dobrar
  <2>2. QED
    BY <1>1, <1>2, <1>12, <2>1 DEF CamposDoBot, CamposDoTabuleiro, VistoTipado
<1>13. CASE ev.tipo = "PEAO_POSICIONADO"
  <2>1. r = PeaoNaPeca(e, ev.peao, ev.peca)
    BY <1>13 DEF Dobrar
  <2>2. QED
    BY <1>1, <1>2, <2>1, NaPecaTipado
<1>14. CASE ev.tipo = "VAGA_DA_PECA_RECEBIDA_ESCOLHIDO"
  <2>1. r = VagaEscolhidaNoBot(e, ev)
    BY <1>14 DEF Dobrar
  <2>2. CASE r = e
    BY <2>2, Zenon
  <2>3. CASE r # e
    <3> DEFINE p == ev.peca
               m1 == [e.tab.recebidas EXCEPT ![p].vaga = ev.vaga]
               m2 == [m1 EXCEPT ![p].alvo = ev.alvo]
               t1 == [e.tab EXCEPT !.recebidas = m1]
               t2 == [t1 EXCEPT !.recebidas = m2]
               t3 == [t2 EXCEPT !.selecionada = p]
               e1 == [e EXCEPT !.tab = t1]
               e2 == [e1 EXCEPT !.tab = t2]
               e3 == [e2 EXCEPT !.tab = t3]
    <3>a. e1.tab = t1 /\ e2.tab = t2 /\ e3.tab = t3 /\ t1.recebidas = m1 /\ t2.recebidas = m2
      BY <1>2 DEF CamposDoBot, CamposDoTabuleiro
    <3>b. r = e3
      BY <2>1, <2>3, <3>a, Zenon DEF VagaEscolhidaNoBot
    <3>f. Feito(e, CamposDoBot) /\ Feito(e.tab, CamposDoTabuleiro)
      BY <1>1, Zenon DEF Feito
    <3>g. Feito(e1, CamposDoBot) /\ Feito(t1, CamposDoTabuleiro)
      BY <3>f, MoldeSegue, Zenon
    <3>h. Feito(e2, CamposDoBot) /\ Feito(t2, CamposDoTabuleiro)
      BY <3>g, MoldeSegue, Zenon
    <3>c. Feito(e3, CamposDoBot) /\ Feito(t3, CamposDoTabuleiro)
      BY <3>h, MoldeSegue, Zenon
    <3>e. t3.recebidas = m2 /\ DOMAIN m2 = DOMAIN e.tab.recebidas
      BY <1>1, <1>2 DEF CamposDoTabuleiro
    <3> HIDE DEF m1, m2, t1, t2, t3, e1, e2, e3
    <3>1. QED
      BY <1>1, <3>a, <3>b, <3>c, <3>e DEF VistoTipado, Feito
  <2>4. QED
    BY <2>2, <2>3
<1>15. CASE ev.tipo = "PEAO_MOVIDO"
  <2>1. r = PeaoMovidoNoBot(e, ev)
    BY <1>15 DEF Dobrar
  <2> DEFINE f == PeaoNaPeca(e, ev.peao, ev.para)
             g == (f.graca \ ({ev.de} \ {ev.para})) \cap Mesa(e.tab)
  <2>2. VistoTipado(f)
    BY NaPecaTipado
  <2>3. r = [f EXCEPT !.graca = g]
    BY <2>1 DEF PeaoMovidoNoBot
  <2> HIDE DEF f, g
  <2>4. QED
    BY <2>2, <2>3 DEF CamposDoBot, VistoTipado
<1>16. CASE ev.tipo = "PEAO_PERMANECEU"
  <2>1. r = [e EXCEPT !.tab.peao = Nada]
    BY <1>16 DEF Dobrar
  <2>2. QED
    BY <1>1, <1>2, <2>1 DEF CamposDoBot, CamposDoTabuleiro, VistoTipado
<1>17. CASE ev.tipo = "ATRAVESSOU_O_ESCURO"
  <2>1. r = [e EXCEPT !.turno.atravessou = TRUE]
    BY <1>17 DEF Dobrar
  <2>2. QED
    BY <1>1, <1>2, <2>1 DEF CamposDoBot, CamposDoTabuleiro, VistoTipado
<1>18. CASE ev.tipo = "POSICAO_CONFIRMADA"
  <2>1. r = PosicaoConfirmadaNoBot(e, ev)
    BY <1>18 DEF Dobrar
  <2>2. QED
    BY <1>1, <1>2, <2>1 DEF PosicaoConfirmadaNoBot, CamposDoBot, CamposDoTabuleiro, VistoTipado
<1>19. CASE ev.tipo = "CELULAS_ILUMINADAS"
  <2>1. r = [e EXCEPT !.iluminadas = ev.celulas]
    BY <1>19 DEF Dobrar
  <2>2. QED
    BY <1>1, <1>2, <2>1 DEF CamposDoBot, CamposDoTabuleiro, VistoTipado
<1>20. CASE ev.tipo = "LIMPEZA_APLICADA"
  <2>1. r = LimpezaNoBot(e, ev)
    BY <1>20 DEF Dobrar
  <2>2. QED
    BY <1>1, <1>2, <2>1 DEF LimpezaNoBot, CamposDoBot, CamposDoTabuleiro, VistoTipado
<1>21. CASE ev.tipo = "ATAQUE_RESOLVIDO"
  <2>1. r = AtaqueNoBot(e, ev)
    BY <1>21 DEF Dobrar
  <2>2. QED
    BY <1>1, <1>2, <2>1 DEF AtaqueNoBot, CamposDoBot, CamposDoTabuleiro, VistoTipado
<1>22. CASE ev.tipo = "RESGATE_REALIZADO"
  <2>1. r = ResgateNoBot(e, ev)
    BY <1>22 DEF Dobrar
  <2>2. QED
    BY <1>1, <1>2, <2>1 DEF ResgateNoBot, CamposDoBot, CamposDoTabuleiro, VistoTipado
<1>23. CASE ev.tipo = "TURNO_ENCERRADO"
  <2>1. r = TurnoEncerradoNoBot(e, ev)
    BY <1>23 DEF Dobrar
  <2>2. QED
    BY <1>1, <1>2, <2>1 DEF TurnoEncerradoNoBot, CamposDoBot, CamposDoTabuleiro, VistoTipado
<1>24. CASE ev.tipo = "TURNO_INICIADO"
  <2>1. r = TurnoIniciadoNoBot(e, ev)
    BY <1>24 DEF Dobrar
  <2>2. QED
    BY <1>1, <1>2, <1>3, <2>1 DEF TurnoIniciadoNoBot, SemSequencia, CamposDoBot, CamposDoTabuleiro, VistoTipado
<1>25. CASE ev.tipo = "PARTIDA_TERMINADA"
  <2>1. r = [e EXCEPT !.resultado = ev.desfecho]
    BY <1>25 DEF Dobrar
  <2>2. QED
    BY <1>1, <1>2, <2>1 DEF CamposDoBot, CamposDoTabuleiro, VistoTipado
<1>26. CASE ev.tipo \notin (TiposDeEvento \cup {"PARTIDA_TERMINADA"}) \ {"DESISTENCIA_REGISTRADA"}
  <2>1. r = e
    BY <1>26 DEF Dobrar, TiposDeEvento
  <2>2. QED
    BY <2>1
<1>27. QED
  BY <1>4, <1>5, <1>6, <1>7, <1>8, <1>9, <1>10, <1>11, <1>12, <1>13, <1>14, <1>15, <1>16, <1>17,
     <1>18, <1>19, <1>20, <1>21, <1>22, <1>23, <1>24, <1>25, <1>26 DEF TiposDeEvento

LEMMA DobrarLoteTipado ==
  ASSUME NEW e, VistoTipado(e), NEW s, EhLote(s),
         \A i \in DOMAIN s : s[i].tipo = "RECEBIMENTO_GERADO" => DOMAIN s[i].recebidas \subseteq PecasDaCaixa
  PROVE  VistoTipado(DobrarLote(e, s))
<1> DEFINE n == Len(s)
<1>1. n \in Nat /\ DOMAIN s = 1..n
  BY DEF EhLote
<1> DEFINE Ate(k) == \E f : f = [i \in 0..k |-> IF i = 0 THEN e ELSE Dobrar(f[i - 1], s[i])]
           Sem == {k \in Nat : ~Ate(k)}
<1>2. \A k \in Nat : Ate(k)
  <2> SUFFICES ASSUME Sem # {} PROVE FALSE
    OBVIOUS
  <2>1. PICK k \in Sem : \A m \in Sem : k <= m
    BY PrimeiroNatural
  <2>2. k # 0
    <3> DEFINE f == [i \in 0..0 |-> e]
    <3>1. f = [i \in 0..0 |-> IF i = 0 THEN e ELSE Dobrar(f[i - 1], s[i])]
      OBVIOUS
    <3>2. Ate(0)
      BY <3>1, Zenon
    <3>3. QED
      BY <3>2
  <2>3. k \in Nat /\ k - 1 \in Nat /\ ~(k <= k - 1)
    BY <2>2
  <2>4. Ate(k - 1)
    BY <2>1, <2>3
  <2>5. PICK f : f = [i \in 0..k - 1 |-> IF i = 0 THEN e ELSE Dobrar(f[i - 1], s[i])]
    BY <2>4
  <2> DEFINE g == [i \in 0..k |-> IF i = k THEN Dobrar(f[k - 1], s[k]) ELSE f[i]]
  <2>6. \A i \in 0..k - 1 : f[i] = IF i = 0 THEN e ELSE Dobrar(f[i - 1], s[i])
    BY <2>5
  <2>7. \A i \in 0..k : g[i] = IF i = 0 THEN e ELSE Dobrar(g[i - 1], s[i])
    BY <2>2, <2>3, <2>6
  <2>8. g = [i \in 0..k |-> IF i = 0 THEN e ELSE Dobrar(g[i - 1], s[i])]
    BY <2>7
  <2>9. Ate(k)
    BY <2>8, Zenon
  <2>10. QED
    BY <2>9
<1> DEFINE f == CHOOSE f : f = [i \in 0..n |-> IF i = 0 THEN e ELSE Dobrar(f[i - 1], s[i])]
<1>3. f = [i \in 0..n |-> IF i = 0 THEN e ELSE Dobrar(f[i - 1], s[i])]
  BY <1>1, <1>2
<1>4. DobrarLote(e, s) = f[n]
  BY DEF DobrarLote
<1> HIDE DEF f, Ate
<1> DEFINE Falha == {i \in 0..n : ~VistoTipado(f[i])}
<1>5. SUFFICES ASSUME Falha # {} PROVE FALSE
  BY <1>1, <1>4
<1>6. PICK i \in Falha : \A k \in Falha : i <= k
  <2>1. Falha \in SUBSET Nat
    OBVIOUS
  <2>2. QED
    BY <1>5, <2>1, PrimeiroNatural, Zenon
<1>7. i # 0
  BY <1>3, <1>6
<1>8. i \in 1..n /\ i - 1 \in 0..n /\ i - 1 \notin Falha
  BY <1>1, <1>6, <1>7
<1>9. f[i] = Dobrar(f[i - 1], s[i])
  BY <1>3, <1>8
<1>10. VistoTipado(f[i])
  BY <1>1, <1>8, <1>9, DobrarTipado
<1>11. QED
  BY <1>6, <1>10

-----------------------------------------------------------------------------
(* The commands that reach the server, and what is sent for them.          *)

Comandos ==
  {"selecionar_peca", "girar_peca", "finalizar_manipulacao", "posicionar_peca",
   "selecionar_peao", "desselecionar_peao", "escolher_vaga_da_peca_recebida",
   "posicionar_peao", "mover_peao", "atravessar_o_escuro", "permanecer",
   "confirmar_posicao_do_peao", "encerrar_turno"}

ComandoTipado(a) ==
  /\ a[1] \in Comandos
  /\ a[1] = "selecionar_peca" => a[2] # Nada
  /\ a[1] = "girar_peca" => a[3] \in Giros
  /\ a[1] = "posicionar_peca" => a[2] \in PecasDaCaixa \/ a[3] \in CelulasDeInicio

(* A command that is taken is one the match knows.                         *)
LEMMA ComandoJogada ==
  ASSUME Tipos, NEW j, NEW a, ComandoTipado(a), ExecutaComando(j, a)
  PROVE  j \in Jogadores /\ Jogada(j)
<1>1. j = turno.ativo /\ j \in Jogadores
  <2>1. turno.ativo \in Jogadores
    BY DEF Tipos, Turno
  <2>2. a[1] # "posicionar_peca" \/ PosicionarAInicial(j, a[2], a[3]) \/ PosicionarARecebida(j, a[2], a[3])
    BY DEF ExecutaComando
  <2>3. DaVez(j)
    BY <2>2 DEF ExecutaComando, Executa, PosicionarAInicial, PodePosicionarAInicial,
       PosicionarARecebida, PodePosicionarARecebida, DesselecionarOPeao, FinalizarManipulacao,
       GirarAPeca, PodeGirarAPeca, EscolherAVaga, PodeEscolherAVaga, SelecionarAPeca,
       PodeSelecionarAPeca, SelecionarOPeao, PodeSelecionarOPeao, PosicionarOPeao,
       PodePosicionarOPeao, MoverOPeao, PodeMoverOPeao, AtravessarOEscuro, PodeAtravessar,
       Permanecer, PodePermanecerNaPeca, ConfirmarPosicao, PodeConfirmar, EncerrarTurno,
       PodeEncerrar, SemPassoDefinitivo
  <2>4. QED
    BY <2>1, <2>3 DEF DaVez
<1>2. CASE PosicionarAInicial(j, a[2], a[3]) /\ a[1] = "posicionar_peca"
  <2>1. a[2] \in DOMAIN tab.iniciais
    BY <1>2 DEF PosicionarAInicial, PodePosicionarAInicial, PodePosicionarInicial
  <2>2. a[2] \notin PecasDaCaixa
    BY <2>1, MesaDe, TiposDistintos DEF Tipos, Bom, PecasIniciais, PecasDaCaixa
  <2>3. a[3] \in CelulasDeInicio
    BY <1>2, <2>2 DEF ComandoTipado
  <2>4. QED
    BY <1>1, <1>2, <2>1, <2>3 DEF Jogada
<1>3. CASE PosicionarARecebida(j, a[2], a[3])
  <2>1. PodePosicionarRecebida(Adotada(tab, j), a[2], a[3]) /\ Bom(Adotada(tab, j))
        /\ Adotada(tab, j).recebidas = tab.recebidas
    BY <1>1, <1>3, AdotadaBom DEF PosicionarARecebida, PodePosicionarARecebida, Tipos
  <2>2. a[3] \in Celulas /\ a[2] \in Pendentes(Adotada(tab, j))
    BY <2>1, PosicionarRecebidaBom
  <2>3. a[2] \in Pendentes(tab)
    BY <2>1, <2>2 DEF Pendentes
  <2>4. QED
    BY <1>1, <1>3, <2>2, <2>3 DEF Jogada
<1>4. CASE a[1] = "girar_peca" /\ GirarAPeca(j, a[2], a[3])
  <2>1. a[3] \in Giros
    BY <1>4 DEF ComandoTipado
  <2>2. a[2] \in PecasEmJogo
    BY <1>4 DEF GirarAPeca, PodeGirarAPeca, PodeGirarPeca, PodeGirarPosicionada,
                PodeGirarRecebida, PodeGirarDaMesa, PecasEmJogo
  <2>3. QED
    BY <1>1, <1>4, <2>1, <2>2 DEF Jogada
<1>5. CASE EscolherAVaga(j, a[2], a[3])
  <2>1. /\ Bom(Adotada(tab, j)) /\ PodeEscolherVaga(Adotada(tab, j), a[2], a[3])
        /\ Adotada(tab, j).recebidas = tab.recebidas
    BY <1>1, <1>5, AdotadaBom DEF EscolherAVaga, PodeEscolherAVaga, Tipos
  <2>2. a[2] \in Pendentes(tab) /\ a[3] \in Bordas
    BY <2>1, EscolherVagaBom DEF PodeEscolherVaga, Pendentes
  <2>3. QED
    BY <1>1, <1>5, <2>2 DEF Jogada
<1>6. CASE a[1] = "selecionar_peca" /\ SelecionarAPeca(j, a[2])
  <2>1. a[2] # Nada
    BY <1>6 DEF ComandoTipado
  <2>2. CASE a[2] = tab.manipulacao
    <3>1. SelecionarPeca(tab, a[2]) = [tab EXCEPT !.manipulacao = Nada]
      BY <2>2 DEF SelecionarPeca
    <3>2. FinalizarManipulacao(j)
      BY <1>6, <2>1, <2>2, <3>1 DEF SelecionarAPeca, PodeSelecionarAPeca, FinalizarManipulacao
    <3>3. QED
      BY <1>1, <3>2 DEF Jogada
  <2>3. CASE a[2] # tab.manipulacao
    <3>1. a[2] \in PecasEmJogo
      BY <1>6, <2>3 DEF SelecionarAPeca, PodeSelecionarAPeca, PodeSelecionarPeca, PecasEmJogo
    <3>2. QED
      BY <1>1, <1>6, <3>1 DEF Jogada
  <2>4. QED
    BY <2>2, <2>3
<1>7. CASE SelecionarOPeao(j) \/ DesselecionarOPeao(j) \/ FinalizarManipulacao(j)
  BY <1>1, <1>7 DEF Jogada
<1>8. CASE PosicionarOPeao(j, a[2])
  <2>1. a[2] \in Mesa(tab)
    BY <1>8 DEF PosicionarOPeao, PodePosicionarOPeao, PodePosicionarPeao
  <2>2. QED
    BY <1>1, <1>8, <2>1 DEF Jogada
<1>9. CASE MoverOPeao(j, a[2])
  <2>1. a[2] \in Mesa(tab)
    BY <1>9 DEF MoverOPeao, PodeMoverOPeao, PodeMoverPeao
  <2>2. QED
    BY <1>1, <1>9, <2>1 DEF Jogada
<1>10. CASE AtravessarOEscuro(j, a[2])
  <2>1. a[2] \in Celulas
    BY <1>10, VagaBorda DEF AtravessarOEscuro, PodeAtravessar, Tipos
  <2>2. QED
    BY <1>1, <1>10, <2>1 DEF Jogada
<1>11. CASE Permanecer(j) \/ ConfirmarPosicao(j) \/ EncerrarTurno(j)
  BY <1>1, <1>11 DEF Jogada
<1>12. QED
  <2>1. \/ a[1] = "posicionar_peca" /\ PosicionarAInicial(j, a[2], a[3])
        \/ PosicionarARecebida(j, a[2], a[3])
        \/ DesselecionarOPeao(j) \/ FinalizarManipulacao(j)
        \/ a[1] # "posicionar_peca" /\ Executa(j, a)
    BY DEF ExecutaComando
  <2>2. CASE a[1] # "posicionar_peca" /\ Executa(j, a)
    BY <1>4, <1>5, <1>6, <1>7, <1>8, <1>9, <1>10, <1>11, <2>2 DEF Executa
  <2>3. QED
    BY <1>1, <1>2, <1>3, <1>7, <2>1, <2>2

LEMMA ComandoSegue ==
  ASSUME Tipos, NEW j, NEW a, ComandoTipado(a), ExecutaComando(j, a)
  PROVE  Passo /\ Tipos'
<1>1. Passo
  BY ComandoJogada DEF Passo
<1>2. QED
  BY <1>1, TiposSegue

LEMMA LoteDois ==
  ASSUME NEW ev, NEW fv, EventoTipado(ev), EventoTipado(fv)
  PROVE  LoteTipado(<< ev, fv >>)
<1>1. /\ << ev, fv >> \in Seq({ev, fv}) /\ DOMAIN << ev, fv >> = {1, 2}
      /\ << ev, fv >>[1] = ev /\ << ev, fv >>[2] = fv
  OBVIOUS
<1>2. QED
  BY <1>1 DEF LoteTipado, EhLote

LEMMA SorteioTipado ==
  ASSUME Tipos'
  PROVE  LoteTipado(Sorteio)
<1> DEFINE ev == [tipo |-> "PECA_SORTEADA", pecas |-> Pendentes(tab') \ Pendentes(tab)]
           fv == [tipo |-> "RECEBIMENTO_GERADO", recebidas |-> tab'.recebidas]
<1>1. EventoTipado(ev)
  BY DEF EventoTipado, TiposDeEvento
<1>2. Pendentes(tab') \subseteq PecasDaCaixa
  BY MesaDe DEF Tipos, Bom
<1>3. EventoTipado(fv)
  BY <1>2 DEF EventoTipado, TiposDeEvento, Pendentes
<1>4. QED
  BY <1>1, <1>3, LoteDois, LoteVazio DEF Sorteio

LEMMA LuzTipada == LoteTipado(LuzELimpeza)
<1> DEFINE ev == [tipo |-> "CELULAS_ILUMINADAS", celulas |-> iluminadas']
           fv == [tipo |-> "LIMPEZA_APLICADA", pecas |-> Mesa(tab) \ Mesa(tab')]
<1>1. EventoTipado(ev) /\ EventoTipado(fv)
  BY DEF EventoTipado, TiposDeEvento
<1>2. QED
  BY <1>1, LoteSe, LoteJunta DEF LuzELimpeza

LEMMA FinalizadaTipada == LoteTipado(Finalizada)
<1> DEFINE ev == [tipo |-> "MANIPULACAO_FINALIZADA", peca |-> tab.manipulacao]
<1>1. EventoTipado(ev)
  BY DEF EventoTipado, TiposDeEvento
<1>2. QED
  BY <1>1, LoteSe DEF Finalizada

LEMMA PassagemTipada ==
  ASSUME NEW j
  PROVE  LoteTipado(Passagem(j))
<1> DEFINE ev == [tipo |-> "TURNO_ENCERRADO", jogador |-> j]
           fv == [tipo |-> "TURNO_INICIADO", jogador |-> turno'.ativo, rodada |-> turno'.rodada]
<1>1. EventoTipado(ev) /\ EventoTipado(fv)
  BY DEF EventoTipado, TiposDeEvento
<1>2. LoteTipado(<< ev >>) /\ LoteTipado(Se(Acordados(jogadores') # {}, fv))
  BY <1>1, LoteUm, LoteSe
<1> HIDE DEF ev, fv
<1>3. LoteTipado((<< ev >> \o Finalizada) \o Se(Acordados(jogadores') # {}, fv))
  BY <1>2, FinalizadaTipada, LoteJunta
<1>4. QED
  BY <1>3 DEF Passagem, ev, fv

LEMMA AtaqueTipado ==
  ASSUME NEW t, NEW js, NEW inicio, NEW decidida
  PROVE  LoteTipado(Ataque(t, js, inicio, decidida))
<1> DEFINE feridos == Atacados(t, js, inicio, decidida)
           slots == {[tipo |-> Tipo(m),
                      alcance |-> {j \in DOMAIN js : t.peoes[j] \in CalcularAlcance(t, m)}] :
                       m \in Atacantes(t, inicio, decidida)}
           noAlcance == UNION {s.alcance : s \in slots}
           mudados == {j \in noAlcance :
                         ~js[j].protegido /\ PercepcaoDe(feridos[j]) # PercepcaoDe(js[j])}
           ev == [tipo |-> "ATAQUE_RESOLVIDO", atacantes |-> slots,
                  atingidos  |-> {j \in noAlcance : ~js[j].protegido},
                  protegidos |-> {j \in noAlcance : js[j].protegido},
                  estados    |-> [j \in mudados |-> PercepcaoDe(feridos[j])]]
<1>1. Ataque(t, js, inicio, decidida) = Se(slots # {}, ev)
  BY DEF Ataque
<1>2. ev.tipo = "ATAQUE_RESOLVIDO"
  OBVIOUS
<1> HIDE DEF feridos, slots, noAlcance, mudados, ev
<1>3. EventoTipado(ev)
  BY <1>2 DEF EventoTipado, TiposDeEvento
<1>4. QED
  BY <1>1, <1>3, LoteSe

LEMMA EmOrdemTipado ==
  ASSUME NEW S, IsFiniteSet(S), \A x \in S : EventoTipado(x)
  PROVE  LoteTipado(EmOrdem(S))
<1>1. EmOrdem(S) \in Seq(S) /\ DOMAIN EmOrdem(S) = 1..Cardinality(S)
      /\ EmOrdem(S) \in [1..Cardinality(S) -> S]
  BY EmSequencia
<1>2. QED
  BY <1>1 DEF LoteTipado, EhLote

(* The rescues that are told, one for each Player in js.                   *)
LEMMA ResgatesTipados ==
  ASSUME NEW js \in Elencos, NEW T \in SUBSET DOMAIN js, NEW f, DOMAIN f = T,
         \A k \in T : f[k].tipo = "RESGATE_REALIZADO"
  PROVE  LET S == {f[k] : k \in T} IN IsFiniteSet(S) /\ LoteTipado(EmOrdem(S))
<1> DEFINE S == {f[k] : k \in T}
<1>1. IsFiniteSet(T)
  BY ElencoDe, FS_Subset
<1>2. IsFiniteSet(S)
  <2>1. [k \in T |-> f[k]] \in Surjection(T, S)
    BY DEF Surjection
  <2>2. QED
    BY <1>1, <2>1, FS_Surjection
<1>3. \A x \in S : EventoTipado(x)
  BY DEF EventoTipado, TiposDeEvento
<1>4. QED
  BY <1>2, <1>3, EmOrdemTipado

LEMMA LoteDoComando ==
  ASSUME Tipos, NEW j, NEW a, ComandoTipado(a), ExecutaComando(j, a)
  PROVE  LoteTipado(Lote(j, a))
<1>1. Tipos' /\ jogadores \in Elencos
  BY ComandoSegue DEF Tipos
<1>2. CASE a[1] = "selecionar_peca"
  <2> DEFINE ev == [tipo |-> "PECA_DESELECIONADA", peca |-> a[2]]
             fv == [tipo |-> "PECA_SELECIONADA", peca |-> a[2]]
  <2>1. LoteTipado(<< ev >>) /\ LoteTipado(Finalizada \o << fv >>)
    BY FinalizadaTipada, LoteUm, LoteJunta DEF EventoTipado, TiposDeEvento
  <2>2. Lote(j, a) = LoteDaSelecao(a[2])
    BY <1>2 DEF Lote
  <2>3. QED
    BY <2>1, <2>2, FinalizadaTipada DEF LoteDaSelecao
<1>3. CASE a[1] = "girar_peca"
  <2> DEFINE ev == [tipo |-> "PECA_GIRADA", peca |-> a[2], orientacao |-> OrientacaoDe(tab', a[2])]
  <2>1. Lote(j, a) = << ev >>
    BY <1>3 DEF Lote
  <2>2. EventoTipado(ev)
    BY DEF EventoTipado, TiposDeEvento
  <2>3. QED
    BY <2>1, <2>2, LoteUm
<1>4. CASE a[1] = "finalizar_manipulacao"
  BY <1>4, FinalizadaTipada DEF Lote
<1>5. CASE a[1] = "posicionar_peca"
  <2> DEFINE p  == a[2]
             nova == tab'.posicionadas[p]
             antes == IF EhInicial(p) THEN tab.iniciais[p] ELSE tab.recebidas[p].orientacao
             ev == [tipo |-> "PECA_GIRADA", peca |-> p, orientacao |-> nova.orientacao]
             fv == [tipo |-> "PECA_POSICIONADA", peca |-> p, celula |-> nova.celula,
                    orientacao |-> nova.orientacao]
  <2>1. Lote(j, a) = Se(nova.orientacao # antes, ev) \o << fv >>
    BY <1>5 DEF Lote, LoteDoEncaixe
  <2>2. p \in Pecas
    <3>1. PosicionarAInicial(j, p, a[3]) \/ PosicionarARecebida(j, p, a[3])
      BY <1>5 DEF ExecutaComando
    <3>2. CASE PosicionarAInicial(j, p, a[3])
      BY <3>2, MesaDe DEF PosicionarAInicial, PodePosicionarAInicial, PodePosicionarInicial,
                          Tipos, Bom, Pecas
    <3>3. CASE PosicionarARecebida(j, p, a[3])
      <4>1. Bom(Adotada(tab, j)) /\ PodePosicionarRecebida(Adotada(tab, j), p, a[3])
        BY <3>3, PosicionarARecebidaTipos
      <4>2. QED
        BY <4>1, PosicionarRecebidaBom DEF Pecas
    <3>4. QED
      BY <3>1, <3>2, <3>3
  <2>3. EventoTipado(ev) /\ EventoTipado(fv)
    BY <2>2 DEF EventoTipado, TiposDeEvento
  <2> HIDE DEF ev, fv, nova, antes
  <2>4. QED
    BY <2>1, <2>3, LoteSe, LoteUm, LoteJunta
<1>6. CASE a[1] = "selecionar_peao"
  <2> DEFINE ev == [tipo |-> "PEAO_SELECIONADO", peao |-> j]
  <2>1. Lote(j, a) = IF tab.peao = j THEN << >> ELSE Finalizada \o << ev >>
    BY <1>6 DEF Lote
  <2>2. LoteTipado(Finalizada \o << ev >>)
    BY FinalizadaTipada, LoteUm, LoteJunta DEF EventoTipado, TiposDeEvento
  <2>3. QED
    BY <2>1, <2>2, LoteVazio
<1>7. CASE a[1] = "desselecionar_peao"
  <2> DEFINE ev == [tipo |-> "PEAO_DESELECIONADO", peao |-> j]
  <2>1. Lote(j, a) = (IF tab.peao = j THEN Finalizada ELSE << >>) \o << ev >>
    BY <1>7 DEF Lote
  <2>2. LoteTipado(IF tab.peao = j THEN Finalizada ELSE << >>) /\ LoteTipado(<< ev >>)
    BY FinalizadaTipada, LoteVazio, LoteUm DEF EventoTipado, TiposDeEvento
  <2>3. QED
    BY <2>1, <2>2, LoteJunta
<1>8. CASE a[1] = "escolher_vaga_da_peca_recebida"
  <2> DEFINE r == a[2]
             ev == [tipo |-> "VAGA_DA_PECA_RECEBIDA_ESCOLHIDO", peca |-> r,
                    vaga |-> tab'.recebidas[r].vaga, alvo |-> tab'.recebidas[r].alvo]
  <2>1. Lote(j, a) = Finalizada \o << ev >>
    BY <1>8 DEF Lote, LoteDaVaga
  <2>2. LoteTipado(<< ev >>)
    BY LoteUm DEF EventoTipado, TiposDeEvento
  <2>3. QED
    BY <2>1, <2>2, FinalizadaTipada, LoteJunta
<1>9. CASE a[1] = "posicionar_peao"
  <2> DEFINE p == a[2]
             noLugar == PosicionarPeao(tab, j, p)
             limpo == AplicarLimpeza(noLugar, Luz(noLugar, jogadores))
             ev == [tipo |-> "PEAO_POSICIONADO", peao |-> j, peca |-> p, celula |-> CelulaDe(tab, p)]
             ataque == Ataque(limpo, jogadores, Nada, p)
  <2>1. Lote(j, a) = ((<< ev >> \o Sorteio) \o ataque) \o LuzELimpeza
    BY <1>9 DEF Lote, LoteDoPeaoPosicionado
  <2>2. LoteTipado(<< ev >>)
    BY LoteUm DEF EventoTipado, TiposDeEvento
  <2>3. LoteTipado(ataque)
    BY AtaqueTipado
  <2> HIDE DEF ev, ataque
  <2>4. LoteTipado(<< ev >> \o Sorteio)
    BY <1>1, <2>2, SorteioTipado, LoteJunta
  <2>5. LoteTipado((<< ev >> \o Sorteio) \o ataque)
    BY <2>3, <2>4, LoteJunta
  <2>6. QED
    BY <2>1, <2>5, LuzTipada, LoteJunta
<1>10. CASE a[1] = "mover_peao"
  <2> DEFINE ev == [tipo |-> "PEAO_MOVIDO", peao |-> j, de |-> NaPeca(j), para |-> a[2],
                    celula |-> CelulaDe(tab, a[2])]
  <2>1. Lote(j, a) = << ev >>
    BY <1>10 DEF Lote
  <2>2. EventoTipado(ev)
    BY DEF EventoTipado, TiposDeEvento
  <2>3. QED
    BY <2>1, <2>2, LoteUm
<1>11. CASE a[1] = "atravessar_o_escuro"
  <2> DEFINE ev == [tipo |-> "ATRAVESSOU_O_ESCURO", peao |-> j]
  <2>1. Lote(j, a) = IF turno'.atravessou THEN << ev >> \o Sorteio ELSE << >>
    BY <1>11 DEF Lote
  <2>2. LoteTipado(<< ev >> \o Sorteio)
    BY <1>1, SorteioTipado, LoteUm, LoteJunta DEF EventoTipado, TiposDeEvento
  <2>3. QED
    BY <2>1, <2>2, LoteVazio
<1>12. CASE a[1] = "permanecer"
  <2> DEFINE ev == [tipo |-> "PEAO_PERMANECEU", peao |-> j]
             ataque == Ataque(tab, jogadores, NaPeca(j), NaPeca(j))
  <2>1. Lote(j, a) = ((<< ev >> \o ataque) \o LuzELimpeza) \o Passagem(j)
    BY <1>12 DEF Lote, LoteDaPermanencia
  <2>2. LoteTipado(<< ev >>) /\ LoteTipado(ataque)
    BY LoteUm, AtaqueTipado DEF EventoTipado, TiposDeEvento
  <2> HIDE DEF ev, ataque
  <2>3. LoteTipado((<< ev >> \o ataque) \o LuzELimpeza)
    BY <2>2, LuzTipada, LoteJunta
  <2>4. QED
    BY <2>1, <2>3, PassagemTipada, LoteJunta
<1>13. CASE a[1] = "confirmar_posicao_do_peao"
  <2> DEFINE p == NaPeca(j)
             curados == Resgatados(tab, jogadores, p, j)
             T == {x \in DOMAIN jogadores : curados[x] # jogadores[x]}
             R(k) == [tipo |-> "RESGATE_REALIZADO", jogador |-> k, peca |-> p,
                      sanidade |-> curados[k].sanidade, baixa |-> curados[k].baixa]
             resgates == {R(k) : k \in T}
             f == [k \in T |-> R(k)]
             ev == [tipo |-> "POSICAO_CONFIRMADA", jogador |-> j, peca |-> p,
                    protegido |-> jogadores'[j].protegido]
             ataque == Ataque(tab, curados, turno.inicio, p)
  <2>1. Lote(j, a) = (((<< ev >> \o Sorteio) \o EmOrdem(resgates)) \o ataque) \o LuzELimpeza
    BY <1>13 DEF Lote, LoteDaConfirmacao
  <2>2. LoteTipado(<< ev >>) /\ LoteTipado(ataque)
    BY LoteUm, AtaqueTipado DEF EventoTipado, TiposDeEvento
  <2>3. resgates = {f[k] : k \in T} /\ DOMAIN f = T /\ T \in SUBSET DOMAIN jogadores
        /\ \A k \in T : f[k].tipo = "RESGATE_REALIZADO"
    OBVIOUS
  <2> HIDE DEF ev, ataque, resgates, f, T
  <2>4. LoteTipado(EmOrdem(resgates))
    BY <1>1, <2>3, ResgatesTipados
  <2>5. LoteTipado(<< ev >> \o Sorteio)
    BY <1>1, <2>2, SorteioTipado, LoteJunta
  <2>6. LoteTipado((<< ev >> \o Sorteio) \o EmOrdem(resgates))
    BY <2>4, <2>5, LoteJunta
  <2>7. LoteTipado(((<< ev >> \o Sorteio) \o EmOrdem(resgates)) \o ataque)
    BY <2>2, <2>6, LoteJunta
  <2>8. QED
    BY <2>1, <2>7, LuzTipada, LoteJunta
<1>14. CASE a[1] = "encerrar_turno"
  BY <1>14, PassagemTipada DEF Lote
<1>15. QED
  BY <1>2, <1>3, <1>4, <1>5, <1>6, <1>7, <1>8, <1>9, <1>10, <1>11, <1>12, <1>13, <1>14
     DEF ComandoTipado, Comandos

LEMMA LoteDaDesistenciaTipado ==
  ASSUME NEW j
  PROVE  LoteTipado(LoteDaDesistencia(j))
<1> DEFINE ev == [tipo |-> "DESISTENCIA_REGISTRADA", jogador |-> j, peao |-> j]
           fim == IF j = turno.ativo THEN Passagem(j) ELSE << >>
<1>1. LoteDaDesistencia(j) = (<< ev >> \o LuzELimpeza) \o fim
  BY DEF LoteDaDesistencia
<1>2. LoteTipado(<< ev >>) /\ LoteTipado(fim)
  BY LoteUm, LoteVazio, PassagemTipada DEF EventoTipado, TiposDeEvento
<1> HIDE DEF ev, fim
<1>3. QED
  BY <1>1, <1>2, LuzTipada, LoteJunta

-----------------------------------------------------------------------------
(* What the page and the driver of a bot send.                             *)

FilaDe(s, S)  == s \in Seq(S) /\ \A a \in S : ComandoTipado(a)
FilaTipada(s) == \E S : FilaDe(s, S)

LEMMA FilaVazia == FilaTipada(<< >>)
<1>1. FilaDe(<< >>, {})
  BY DEF FilaDe
<1>2. QED
  BY <1>1, Zenon DEF FilaTipada

LEMMA FilaUma ==
  ASSUME NEW a, ComandoTipado(a)
  PROVE  FilaTipada(<< a >>)
<1>1. FilaDe(<< a >>, {a})
  BY DEF FilaDe
<1>2. QED
  BY <1>1, Zenon DEF FilaTipada

LEMMA FilaDuas ==
  ASSUME NEW a, ComandoTipado(a), NEW b, ComandoTipado(b)
  PROVE  FilaTipada(<< a, b >>)
<1>1. FilaDe(<< a, b >>, {a, b})
  BY DEF FilaDe
<1>2. QED
  BY <1>1, Zenon DEF FilaTipada

LEMMA FilaJunta ==
  ASSUME NEW s, FilaTipada(s), NEW t, FilaTipada(t)
  PROVE  FilaTipada(s \o t)
<1>1. PICK S, T : s \in Seq(S) /\ t \in Seq(T) /\ \A a \in S \cup T : ComandoTipado(a)
  BY DEF FilaTipada, FilaDe
<1>2. s \o t \in Seq(S \cup T)
  BY <1>1
<1>3. FilaDe(s \o t, S \cup T)
  BY <1>1, <1>2 DEF FilaDe
<1>4. QED
  BY <1>3, Zenon DEF FilaTipada

LEMMA FilaAnda ==
  ASSUME NEW s, FilaTipada(s), s # << >>
  PROVE  /\ ComandoTipado(Head(s)) /\ FilaTipada(Tail(s))
         /\ Len(s) \in Nat /\ ComandoTipado(s[Len(s)])
<1>1. PICK S : s \in Seq(S) /\ \A a \in S : ComandoTipado(a)
  BY DEF FilaTipada, FilaDe
<1>2. Head(s) \in S /\ Tail(s) \in Seq(S) /\ Len(s) \in Nat /\ s[Len(s)] \in S
  BY <1>1
<1>3. FilaDe(Tail(s), S)
  BY <1>1, <1>2 DEF FilaDe
<1>4. QED
  BY <1>1, <1>2, <1>3 DEF FilaTipada

(* A command that needs nothing to be one of the match's.                  *)
LEMMA ComandoSimples ==
  ASSUME NEW a, a[1] \in Comandos \ {"selecionar_peca", "girar_peca", "posicionar_peca"}
  PROVE  ComandoTipado(a)
BY DEF ComandoTipado

LEMMA ComandosDoTurno ==
  /\ ComandoTipado(<< "encerrar_turno" >>) /\ ComandoTipado(<< "permanecer" >>)
  /\ ComandoTipado(<< "selecionar_peao" >>) /\ ComandoTipado(<< "desselecionar_peao" >>)
  /\ ComandoTipado(<< "confirmar_posicao_do_peao" >>)
  /\ ComandoTipado(<< "finalizar_manipulacao" >>)
  /\ \A p : ComandoTipado(<< "mover_peao", p >>) /\ ComandoTipado(<< "posicionar_peao", p >>)
            /\ ComandoTipado(<< "atravessar_o_escuro", p >>)
  /\ \A r, b : ComandoTipado(<< "escolher_vaga_da_peca_recebida", r, b >>)
BY DEF ComandoTipado, Comandos

(* The strategy over the mirror of b.                                      *)
LEMMA CandidataTipada ==
  ASSUME NEW b \in Bots, VistoTipado(visto[b]), NEW a \in Candidatas(b)
  PROVE  ComandoTipado(a)
<1>1. a \in NoEspelho(b)!AcoesValidasDaSubfase(b)
  BY DEF Candidatas
<1>2. NoEspelho(b)!Fixadas \subseteq PecasDaCaixa
  BY DEF NoEspelho!Fixadas, NoEspelho!Pendentes, VistoTipado, CamposDoTabuleiro
<1>3. ASSUME NEW r \in PecasDaCaixa, a \in NoEspelho(b)!AcoesDaFixada(r)
      PROVE  ComandoTipado(a)
  BY <1>3 DEF NoEspelho!AcoesDaFixada, ComandoTipado, Comandos
<1>4. ASSUME a \in NoEspelho(b)!AcoesDasPendentes(b)
      PROVE  ComandoTipado(a)
  BY <1>4 DEF NoEspelho!AcoesDasPendentes, ComandoTipado, Comandos
<1>5. ASSUME a \in NoEspelho(b)!AcoesDoPrimeiroTurno(b)
      PROVE  ComandoTipado(a)
  <2> DEFINE inicial == <<"inicial", b>>
  <2>1. inicial # Nada
    BY NadaAssumption, BotsAssumption, PartidaAssumption DEF Pecas, PecasIniciais
  <2>2. ComandoTipado(<<"selecionar_peca", inicial>>)
    BY <2>1 DEF ComandoTipado, Comandos
  <2>3. \A c \in CelulasDeInicio : ComandoTipado(<<"posicionar_peca", inicial, c>>)
    BY DEF ComandoTipado, Comandos
  <2>4. \/ a \in {<<"selecionar_peca", inicial>>, <<"selecionar_peao">>, <<"encerrar_turno">>,
                  <<"posicionar_peao", inicial>>}
        \/ \E c \in CelulasDeInicio : a = <<"posicionar_peca", inicial, c>>
    BY <1>5 DEF NoEspelho!AcoesDoPrimeiroTurno
  <2>5. QED
    BY <2>2, <2>3, <2>4, ComandosDoTurno
<1>6. ASSUME a \in NoEspelho(b)!AcoesSobreOInicio(b)
      PROVE  ComandoTipado(a)
  BY <1>6 DEF NoEspelho!AcoesSobreOInicio, ComandoTipado, Comandos
<1>7. \/ \E r \in NoEspelho(b)!Fixadas : a \in NoEspelho(b)!AcoesDaFixada(r)
      \/ a \in NoEspelho(b)!AcoesDasPendentes(b) \/ a \in NoEspelho(b)!AcoesDoPrimeiroTurno(b)
      \/ a \in {<<"encerrar_turno">>, <<"selecionar_peao">>, <<"confirmar_posicao_do_peao">>}
      \/ a \in NoEspelho(b)!AcoesSobreOInicio(b)
  BY <1>1 DEF NoEspelho!AcoesValidasDaSubfase
<1>8. QED
  BY <1>2, <1>3, <1>4, <1>5, <1>6, <1>7, ComandosDoTurno

LEMMA ExpansaoTipada ==
  ASSUME NEW e, NEW a, ComandoTipado(a), NEW s \in Expansoes(e, a)
  PROVE  FilaTipada(s) /\ s # << >>
<1> DEFINE Girando(g, n) == [i \in 1..n |-> <<"girar_peca", a[2], g>>] \o <<a>>
<1>1. s = <<a>> \/ \E g \in Giros, n \in 0..2 : s = Girando(g, n)
  BY DEF Expansoes
<1>2. CASE s = <<a>>
  BY <1>2, FilaUma
<1>3. ASSUME NEW g \in Giros, NEW n \in 0..2, s = Girando(g, n)
      PROVE  FilaTipada(s) /\ s # << >>
  <2> DEFINE giro == <<"girar_peca", a[2], g>>
             giros == [i \in 1..n |-> giro]
  <2>1. ComandoTipado(giro)
    BY DEF ComandoTipado, Comandos
  <2> HIDE DEF giro
  <2>2. n \in Nat /\ giros \in Seq({giro})
    OBVIOUS
  <2>3. FilaTipada(giros) /\ FilaTipada(<<a>>)
    <3>1. FilaDe(giros, {giro})
      BY <2>1, <2>2 DEF FilaDe
    <3>2. FilaTipada(giros)
      BY <3>1, Zenon DEF FilaTipada
    <3>3. QED
      BY <3>2, FilaUma
  <2>4. s = giros \o <<a>>
    BY <1>3 DEF giro
  <2>5. s # << >>
    <3>1. giros \in Seq({giro, a}) /\ <<a>> \in Seq({giro, a})
      BY <2>2
    <3>2. Len(s) = Len(giros) + 1
      BY <2>4, <3>1
    <3>3. QED
      BY <2>2, <3>2
  <2>6. QED
    BY <2>3, <2>4, <2>5, FilaJunta
<1>4. QED
  BY <1>1, <1>2, <1>3

LEMMA OfertaTipada ==
  ASSUME EspelhoTipado(espelho), NEW s \in Ofertas
  PROVE  FilaTipada(s)
<1>1. Nada \notin Pecas /\ <<"inicial", Eu>> \in Pecas
  BY NadaAssumption, ClienteAssumption, PartidaAssumption DEF Pecas, PecasIniciais
<1>2. DOMAIN espelho.posicionadas \subseteq Pecas /\ DOMAIN espelho.recebidas \subseteq PecasDaCaixa
  BY DEF EspelhoTipado
<1>3. ASSUME NEW r \in PecasDaCaixa, NEW c
      PROVE  ComandoTipado(<<"posicionar_peca", r, c>>)
  BY DEF ComandoTipado, Comandos
<1>4. s \in CliquesEmVaga => FilaTipada(s)
  BY ComandosDoTurno, FilaUma DEF CliquesEmVaga
<1>5. s \in CliquesDeEncaixe => FilaTipada(s)
  BY <1>2, <1>3, FilaUma DEF CliquesDeEncaixe
<1>6. s \in CliquesDeMovimento \cup CliquesNaInicial => FilaTipada(s)
  BY ComandosDoTurno, FilaUma DEF CliquesDeMovimento, CliquesNaInicial
<1>7. s \in CliquesDeTravessia => FilaTipada(s)
  BY ComandosDoTurno, FilaUma DEF CliquesDeTravessia
<1>8. s \in CliquesDaMesa => FilaTipada(s)
  <2>1. ASSUME NEW p \in DOMAIN espelho.posicionadas
        PROVE  ComandoTipado(<<"selecionar_peca", p>>)
    BY <1>1, <1>2 DEF ComandoTipado, Comandos
  <2>2. ASSUME NEW p, NEW c \in CelulasDeInicio
        PROVE  ComandoTipado(<<"posicionar_peca", p, c>>)
    BY DEF ComandoTipado, Comandos
  <2>3. QED
    BY <2>1, <2>2, FilaUma DEF CliquesDaMesa
<1>9. s \in CliquesNoPeao => FilaTipada(s)
  BY ComandosDoTurno, FilaUma DEF CliquesNoPeao
<1>10. s \in CliquesNaPecaDaMesa => FilaTipada(s)
  <2>1. ComandoTipado(<<"selecionar_peca", <<"inicial", Eu>>>>)
    BY <1>1 DEF ComandoTipado, Comandos
  <2>2. QED
    BY <2>1, FilaUma DEF CliquesNaPecaDaMesa
<1>11. s \in Teclas => FilaTipada(s)
  <2>1. ASSUME NEW p, NEW passo \in Giros
        PROVE  ComandoTipado(<<"girar_peca", p, passo>>)
    BY DEF ComandoTipado, Comandos
  <2>2. QED
    BY <1>5, <2>1, ComandosDoTurno, FilaUma DEF Teclas
<1>12. s \in BotaoDoTurno => FilaTipada(s)
  BY ComandosDoTurno, FilaUma, FilaDuas DEF BotaoDoTurno, ComSelecaoAntes
<1>13. QED
  BY <1>4, <1>5, <1>6, <1>7, <1>8, <1>9, <1>10, <1>11, <1>12 DEF Ofertas, CliquesEmCelula

LEMMA ReacaoTipada ==
  ASSUME NEW antes, NEW e, NEW c, NEW a
  PROVE  FilaTipada(Reacao(antes, e, c, a).envia)
<1>1. FilaTipada(Selecionando(e)) /\ FilaTipada(<< <<"finalizar_manipulacao">> >>)
      /\ FilaTipada(<< <<"permanecer">> >>) /\ \A p : FilaTipada(<< <<"mover_peao", p>> >>)
      /\ FilaTipada(<< <<"confirmar_posicao_do_peao">> >>) /\ FilaTipada(<< <<"encerrar_turno">> >>)
  BY ComandosDoTurno, FilaUma, FilaVazia DEF Selecionando
<1>2. FilaTipada(AposEncaixe(antes, e, c, a[2]).envia)
  <2> DEFINE p == a[2]
             um == (<< <<"finalizar_manipulacao">> >> \o Selecionando(e)) \o << <<"mover_peao", p>> >>
             outro == (<< <<"finalizar_manipulacao">> >> \o Selecionando(e)) \o << <<"permanecer">> >>
  <2>1. FilaTipada(um) /\ FilaTipada(outro)
    BY <1>1, FilaJunta
  <2>2. AposEncaixe(antes, e, c, p).envia \in
          {um, outro, << <<"finalizar_manipulacao">> >>, << >>}
    BY DEF AposEncaixe
  <2>3. QED
    BY <1>1, <2>1, <2>2, FilaVazia
<1>3. FilaTipada(AposMovimento(e, c, a[2]).envia) /\ FilaTipada(AposConfirmacao(e, c).envia)
  BY <1>1, FilaVazia DEF AposMovimento, AposConfirmacao
<1>4. QED
  BY <1>2, <1>3, FilaVazia DEF Reacao

LEMMA EscolhaTipada ==
  ASSUME NEW reacao, FilaTipada(reacao.envia), NEW e, NEW fila, FilaTipada(fila),
         ComEscolha(reacao, e, fila)
  PROVE  FilaTipada(pedidos')
<1>1. PICK x : pedidos' \in {fila \o reacao.envia,
                 (fila \o reacao.envia) \o << <<"escolher_vaga_da_peca_recebida", x[1], x[2]>> >>}
  BY DEF ComEscolha
<1>2. FilaTipada(<< <<"escolher_vaga_da_peca_recebida", x[1], x[2]>> >>)
  BY ComandosDoTurno, FilaUma
<1>3. FilaTipada(fila \o reacao.envia)
  BY FilaJunta
<1>4. QED
  BY <1>1, <1>2, <1>3, FilaJunta

LEMMA ReceberTipado ==
  ASSUME NEW lote, LoteTipado(lote), NEW a, NEW fila, FilaTipada(fila), Receber(lote, a, fila),
         conectado => EspelhoTipado(espelho)
  PROVE  FilaTipada(pedidos') /\ conectado' = conectado /\ (conectado' => EspelhoTipado(espelho'))
<1>1. conectado' = conectado
  BY DEF Receber
<1>2. CASE conectado
  <2>1. espelho' = ReduzirEventos(espelho, lote)
        /\ ComEscolha(Reacao(espelho, espelho', cadeia, a), espelho', fila)
    BY <1>2 DEF Receber
  <2>2. EspelhoTipado(espelho')
    BY <1>2, <2>1, ReduzirLoteTipado
  <2>3. FilaTipada(Reacao(espelho, espelho', cadeia, a).envia)
    BY ReacaoTipada
  <2>4. FilaTipada(pedidos')
    BY <2>1, <2>3, EscolhaTipada
  <2>5. QED
    BY <1>1, <2>2, <2>4
<1>3. CASE ~conectado
  BY <1>1, <1>3 DEF Receber
<1>4. QED
  BY <1>2, <1>3

-----------------------------------------------------------------------------
(* The pieces that are pending are finitely many: an admission sends one   *)
(* command for each edge a locked one may take.                            *)

LEMMA CaixaFinita ==
  ASSUME Bom(tab)
  PROVE  IsFiniteSet(PecasDa(tab.caixa))
<1> DEFINE c == tab.caixa
           n == Len(c)
<1>1. c \in Seq(PecasDaCaixa)
  BY DEF Bom, Tabuleiros
<1>2. n \in Nat /\ DOMAIN c = 1..n
  BY <1>1
<1>3. c \in Surjection(1..n, PecasDa(c))
  <2>1. c \in [1..n -> PecasDa(c)]
    BY <1>1, <1>2 DEF PecasDa
  <2>2. \A x \in PecasDa(c) : \E i \in 1..n : c[i] = x
    BY <1>2 DEF PecasDa
  <2>3. QED
    BY <2>1, <2>2 DEF Surjection
<1>4. IsFiniteSet(1..n)
  BY <1>2, FS_Interval
<1>5. QED
  BY <1>3, <1>4, FS_Surjection

LEMMA PendentesFinitas ==
  ASSUME Turnos, Passo, IsFiniteSet(Pendentes(tab))
  PROVE  IsFiniteSet(Pendentes(tab)')
<1>1. Tipos /\ tab.peao \in {Nada, Ativo}
  BY DEF Turnos, NaVez
<1>2. Tipos'
  BY <1>1, TiposSegue
<1>3. CASE NaMesmaVez
  <2>1. Fora(tab') \subseteq Fora(tab)
    BY <1>1, <1>2, <1>3, MesmaVezSegue DEF Segue
  <2>2. Pendentes(tab') \subseteq PecasDaCaixa /\ DOMAIN tab.iniciais \subseteq PecasIniciais
    BY <1>1, <1>2, MesaDe DEF Tipos, Bom
  <2>3. Pendentes(tab') \subseteq Pendentes(tab) \cup PecasDa(tab.caixa)
    BY <2>1, <2>2, TiposDistintos DEF Fora
  <2>4. IsFiniteSet(Pendentes(tab) \cup PecasDa(tab.caixa))
    BY <1>1, CaixaFinita, FS_Union DEF Tipos
  <2>5. IsFiniteSet(Pendentes(tab'))
    BY <2>3, <2>4, FS_Subset
  <2>6. QED
    BY <2>5 DEF Pendentes
<1>4. CASE Passa
  <2>1. Pendentes(tab') = {}
    BY <1>4, ParcialVazia DEF Passa, Pendentes
  <2>2. QED
    BY <2>1, FS_EmptySet DEF Pendentes
<1>5. QED
  BY <1>1, <1>3, <1>4, PassoPorTipo

-----------------------------------------------------------------------------
(* An admission.                                                           *)

LEMMA RetomadaTipada ==
  ASSUME NEW c
  PROVE  FilaTipada(Retomada(c))
<1>1. /\ FilaTipada(<< <<"selecionar_peao">> >>) /\ FilaTipada(<< >>)
      /\ FilaTipada(<< <<"permanecer">> >>) /\ FilaTipada(<< <<"encerrar_turno">> >>)
      /\ FilaTipada(<< <<"confirmar_posicao_do_peao">> >>)
      /\ \A p : FilaTipada(<< <<"mover_peao", p>> >>)
  BY ComandosDoTurno, FilaUma, FilaVazia
<1> DEFINE antes == IF tab.peao = Eu THEN << >> ELSE << <<"selecionar_peao">> >>
           p == turno.travessia
<1>2. FilaTipada(antes)
  BY <1>1
<1>3. FilaTipada(antes \o << <<"permanecer">> >>) /\ FilaTipada(antes \o << <<"mover_peao", p>> >>)
  BY <1>1, <1>2, FilaJunta
<1>4. Retomada(c) \in {<< >>, antes \o << <<"permanecer">> >>, antes \o << <<"mover_peao", p>> >>,
                       << <<"encerrar_turno">> >>, << <<"confirmar_posicao_do_peao">> >>}
  BY DEF Retomada
<1> HIDE DEF antes
<1>5. QED
  BY <1>1, <1>3, <1>4

LEMMA FotoTipada ==
  ASSUME Tipos, NEW e
  PROVE  /\ EspelhoTipado(AplicarSnapshot(e))
         /\ AplicarSnapshot(e).recebidas = tab.recebidas
         /\ AplicarSnapshot(e).ativo = turno.ativo /\ AplicarSnapshot(e).rodada = turno.rodada
<1> DEFINE f == AplicarSnapshot(e)
<1>1. DOMAIN tab.posicionadas \subseteq Pecas /\ DOMAIN tab.recebidas \subseteq PecasDaCaixa
  BY MesaDe DEF Tipos, Bom, Mesa, Pendentes
<1>2. Molde(f)
  BY DEF Molde, Campos, AplicarSnapshot
<1>3. /\ f.posicionadas = tab.posicionadas /\ f.recebidas = tab.recebidas
      /\ f.ativo = turno.ativo /\ f.rodada = turno.rodada
  BY DEF AplicarSnapshot
<1> HIDE DEF f
<1>4. QED
  BY <1>1, <1>2, <1>3 DEF EspelhoTipado, f

LEMMA HidratarTipado ==
  ASSUME Tipos, IsFiniteSet(Pendentes(tab)), NEW e, NEW c, NEW fila, FilaTipada(fila),
         Hidratar(e, c, fila)
  PROVE  /\ conectado' /\ EspelhoTipado(espelho') /\ FilaTipada(pedidos') /\ UNCHANGED vars
<1>1. /\ conectado' = TRUE /\ UNCHANGED vars
      /\ espelho' = TurnoIniciado(AplicarSnapshot(e), [jogador |-> turno.ativo, rodada |-> turno.rodada])
  BY DEF Hidratar
<1>2. espelho' = AplicarSnapshot(e)
  BY <1>1, FotoTipada DEF TurnoIniciado
<1>3. EspelhoTipado(espelho') /\ espelho'.recebidas = tab.recebidas
  BY <1>2, FotoTipada
<1>4. PICK vista \in {c, SemCadeia} :
        pedidos' = fila \o Retomada(c) \o
          EmOrdem({<<"escolher_vaga_da_peca_recebida", y[1], y[2]>> : y \in EscolhaAutomatica(espelho', vista)})
  BY DEF Hidratar
<1> DEFINE escolhas == EscolhaAutomatica(espelho', vista)
           Manda(y) == <<"escolher_vaga_da_peca_recebida", y[1], y[2]>>
           escolhe == {Manda(y) : y \in escolhas}
<1>5. escolhas \subseteq Pendentes(tab) \X Bordas
  BY <1>3 DEF EscolhaAutomatica, Pendentes
<1>6. IsFiniteSet(escolhas)
  <2>1. IsFiniteSet(Bordas)
    <3>1. 0 \in Int /\ 3 \in Int
      OBVIOUS
    <3>2. QED
      BY <3>1, FS_Interval, Zenon DEF Bordas
  <2>2. QED
    BY <1>5, <2>1, FS_Product, FS_Subset
<1> HIDE DEF escolhas
<1>7. IsFiniteSet(escolhe)
  <2>1. [y \in escolhas |-> Manda(y)] \in Surjection(escolhas, escolhe)
    BY DEF Surjection
  <2>2. QED
    BY <1>6, <2>1, FS_Surjection
<1>8. FilaTipada(EmOrdem(escolhe))
  <2>1. EmOrdem(escolhe) \in Seq(escolhe)
    BY <1>7, EmSequencia
  <2>2. FilaDe(EmOrdem(escolhe), escolhe)
    BY <2>1, ComandosDoTurno DEF FilaDe
  <2>3. QED
    BY <2>2, Zenon DEF FilaTipada
<1>9. pedidos' = (fila \o Retomada(c)) \o EmOrdem(escolhe)
  BY <1>4 DEF escolhas
<1> HIDE DEF escolhe
<1>10. FilaTipada(fila \o Retomada(c))
  BY RetomadaTipada, FilaJunta
<1>11. QED
  BY <1>1, <1>3, <1>8, <1>9, <1>10, FilaJunta

-----------------------------------------------------------------------------
(* The table: the person, the bots and the match between them.             *)

LacoTipado(l) == "fila" \in DOMAIN l /\ FilaTipada(l.fila)

(***************************************************************************)
(* The invariant behind the theorems below: the match is in a state its    *)
(* own invariants allow, the mirrors have the shape of what they mirror,   *)
(* and whatever waits to be handled, of the page or of a bot, is a command *)
(* the match knows.                                                        *)
(***************************************************************************)
Mesas ==
  /\ TurnosDosBots /\ IsFiniteSet(Pendentes(tab))
  /\ conectado => EspelhoTipado(espelho)
  /\ FilaTipada(pedidos)
  /\ DOMAIN visto = Bots /\ DOMAIN laco = Bots
  /\ \A b \in Bots : VistoTipado(visto[b]) /\ LacoTipado(laco[b])

LEMMA MesasTipos ==
  ASSUME Mesas
  PROVE  Tipos /\ Turnos /\ TurnosDosBots /\ IsFiniteSet(Pendentes(tab))
BY DEF Mesas, TurnosDosBots, TurnosComSaida, TurnosComLuz, Turnos

(* What a step of the match does to the part of the match.                 *)
LEMMA PartidaSegue ==
  ASSUME Mesas, Passo
  PROVE  TurnosDosBots' /\ IsFiniteSet(Pendentes(tab)')
BY MesasTipos, PendentesFinitas, EspelhosSegue

LEMMA PartidaVaza ==
  ASSUME Mesas, UNCHANGED varsDaPartida
  PROVE  TurnosDosBots' /\ IsFiniteSet(Pendentes(tab)')
<1>1. TurnosDosBots'
  BY MesasTipos, EspelhosVaza
<1>2. tab' = tab
  BY DEF varsDaPartida
<1>3. QED
  BY <1>1, <1>2, MesasTipos DEF Pendentes

(* What a lot does to the bots that hear it.                               *)
LEMMA OuvirTipado ==
  ASSUME \A b \in Bots : VistoTipado(visto[b]), NEW lote, LoteTipado(lote),
         NEW l, \A b \in Bots : LacoTipado(l[b]), Ouvir(lote, l)
  PROVE  /\ DOMAIN visto' = Bots /\ DOMAIN laco' = Bots
         /\ \A b \in Bots : VistoTipado(visto'[b]) /\ LacoTipado(laco'[b])
<1> DEFINE s == lote \o Fim
           fim == [tipo |-> "PARTIDA_TERMINADA", desfecho |-> resultado']
<1>1. EhLote(s) /\ \A i \in DOMAIN s : s[i].tipo = "RECEBIMENTO_GERADO" => DOMAIN s[i].recebidas \subseteq PecasDaCaixa
  <2> DEFINE A == {lote[i] : i \in DOMAIN lote} \cup {fim}
  <2>1. \A x \in A : x.tipo = "RECEBIMENTO_GERADO" => DOMAIN x.recebidas \subseteq PecasDaCaixa
    BY DEF LoteTipado, EventoTipado
  <2>2. lote \in Seq({lote[i] : i \in DOMAIN lote})
    BY DEF LoteTipado, EhLote
  <2> HIDE DEF fim
  <2>3. Fim \in Seq({fim})
    <3>1. Fim = << fim >> \/ Fim = << >>
      BY DEF Fim, Se, fim
    <3>2. << fim >> \in Seq({fim}) /\ << >> \in Seq({fim})
      OBVIOUS
    <3>3. QED
      BY <3>1, <3>2
  <2>4. lote \in Seq(A) /\ Fim \in Seq(A)
    BY <2>2, <2>3
  <2> HIDE DEF A
  <2>5. s \in Seq(A)
    BY <2>4
  <2>6. \A i \in DOMAIN s : s[i] \in A
    BY <2>5
  <2>7. QED
    BY <2>1, <2>5, <2>6 DEF EhLote
<1> HIDE DEF s
<1>2. visto' = [b \in Bots |-> DobrarLote(visto[b], s)]
      /\ laco' = [b \in Bots |-> LacoApos(l[b], b, visto'[b], lote)]
  BY DEF Ouvir, s
<1>3. ASSUME NEW b \in Bots
      PROVE  VistoTipado(visto'[b]) /\ LacoTipado(laco'[b])
  <2>1. VistoTipado(visto'[b])
    BY <1>1, <1>2, DobrarLoteTipado
  <2>2. laco'[b] \in {l[b], Aberto, Ocioso}
    BY <1>2 DEF LacoApos
  <2>3. LacoTipado(Aberto) /\ LacoTipado(Ocioso)
    BY FilaVazia DEF LacoTipado, Aberto, Ocioso
  <2>4. QED
    BY <2>1, <2>2, <2>3
<1>4. QED
  BY <1>2, <1>3

(* A command that the match takes, of whoever it is.                       *)
LEMMA ComandoTomado ==
  ASSUME Mesas, NEW j, NEW a, ComandoTipado(a), ExecutaComando(j, a)
  PROVE  /\ TurnosDosBots' /\ IsFiniteSet(Pendentes(tab)') /\ LoteTipado(Lote(j, a))
         /\ \E k \in Jogadores : Jogada(k)
<1>1. Tipos
  BY MesasTipos
<1>2. Passo
  BY <1>1, ComandoSegue
<1>3. QED
  BY <1>1, <1>2, PartidaSegue, LoteDoComando, ComandoJogada

(* A step of the table is a move, a desistência, or nothing to the match.  *)
PassoDaMesa ==
  \/ \E k \in Jogadores : Jogada(k)
  \/ \E k \in Desistentes : Desistir(k)
  \/ UNCHANGED varsDaPartida

LEMMA PessoaSegue ==
  ASSUME Mesas, Pessoa
  PROVE  Mesas' /\ PassoDaMesa
<1>1. /\ Tipos /\ (conectado => EspelhoTipado(espelho)) /\ FilaTipada(pedidos)
      /\ DOMAIN visto = Bots /\ DOMAIN laco = Bots
      /\ \A b \in Bots : VistoTipado(visto[b]) /\ LacoTipado(laco[b])
      /\ IsFiniteSet(Pendentes(tab))
  BY MesasTipos DEF Mesas
<1> DEFINE a == Head(pedidos)
<1>2. CASE Clicar /\ SemNovidade
  <2>1. UNCHANGED varsDaPartida /\ conectado /\ conectado' = conectado /\ espelho' = espelho
        /\ visto' = visto /\ laco' = laco
    BY <1>2 DEF Clicar, SemNovidade, varsDosBots, vars
  <2>2. PICK oferta \in Ofertas : pedidos' = oferta
    BY <1>2 DEF Clicar
  <2>3. FilaTipada(pedidos')
    BY <1>1, <2>1, <2>2, OfertaTipada
  <2>4. QED
    BY <1>1, <2>1, <2>3, PartidaVaza DEF Mesas, PassoDaMesa
<1>3. CASE (Religar \/ Recarregar) /\ SemNovidade
  <2>1. conectado' /\ EspelhoTipado(espelho') /\ FilaTipada(pedidos') /\ UNCHANGED vars
    BY <1>1, <1>3, HidratarTipado, FilaVazia DEF Religar, Recarregar
  <2>2. UNCHANGED varsDaPartida /\ visto' = visto /\ laco' = laco
    BY <1>3, <2>1 DEF SemNovidade, varsDosBots, vars
  <2>3. QED
    BY <1>1, <2>1, <2>2, PartidaVaza DEF Mesas, PassoDaMesa
<1>4. CASE Atender /\ ~AceitaDoCliente(a) /\ SemNovidade
  <2>1. UNCHANGED varsDaPartida /\ conectado' = conectado /\ espelho' = espelho
        /\ visto' = visto /\ laco' = laco /\ pedidos' = Tail(pedidos) /\ pedidos # << >>
    BY <1>4 DEF Atender, SemNovidade, varsDosBots, vars
  <2>2. FilaTipada(pedidos')
    BY <1>1, <2>1, FilaAnda
  <2>3. QED
    BY <1>1, <2>1, <2>2, PartidaVaza DEF Mesas, PassoDaMesa
<1>5. CASE Atender /\ AceitaDoCliente(a) /\ BotsOuvem(Lote(Eu, a))
  <2>1. /\ ExecutaComando(Eu, a) /\ Receber(Lote(Eu, a), a, Tail(pedidos)) /\ pedidos # << >>
        /\ Ouvir(Lote(Eu, a), laco)
    BY <1>5 DEF Atender, ExecutaDoCliente, BotsOuvem
  <2>2. ComandoTipado(a) /\ FilaTipada(Tail(pedidos))
    BY <1>1, <2>1, FilaAnda
  <2>3. /\ TurnosDosBots' /\ IsFiniteSet(Pendentes(tab)') /\ LoteTipado(Lote(Eu, a))
        /\ \E k \in Jogadores : Jogada(k)
    BY <2>1, <2>2, ComandoTomado
  <2>4. FilaTipada(pedidos') /\ (conectado' => EspelhoTipado(espelho'))
    BY <1>1, <2>1, <2>2, <2>3, ReceberTipado
  <2>5. /\ DOMAIN visto' = Bots /\ DOMAIN laco' = Bots
        /\ \A b \in Bots : VistoTipado(visto'[b]) /\ LacoTipado(laco'[b])
    BY <1>1, <2>1, <2>3, OuvirTipado
  <2>6. QED
    BY <2>3, <2>4, <2>5 DEF Mesas, PassoDaMesa
<1>6. CASE Cair /\ (IF vars' = vars THEN SemNovidade ELSE BotsOuvem(Lote(Eu, a)))
  <2>1. conectado' = FALSE /\ conectado
    BY <1>6 DEF Cair
  <2>2. FilaTipada(pedidos')
    <3>1. CASE pedidos' = << >>
      BY <3>1, FilaVazia
    <3>2. CASE pedidos' \in Ofertas
      BY <1>1, <2>1, <3>2, OfertaTipada
    <3>3. QED
      BY <1>6, <3>1, <3>2 DEF Cair
  <2>3. CASE vars' = vars /\ SemNovidade
    <3>1. UNCHANGED varsDaPartida /\ visto' = visto /\ laco' = laco
      BY <2>3 DEF SemNovidade, varsDosBots, vars
    <3>2. QED
      BY <1>1, <2>1, <2>2, <3>1, PartidaVaza DEF Mesas, PassoDaMesa
  <2>4. CASE vars' # vars /\ BotsOuvem(Lote(Eu, a))
    <3>1. /\ ExecutaComando(Eu, a) /\ pedidos # << >> /\ Ouvir(Lote(Eu, a), laco)
      BY <1>6, <2>4 DEF Cair, ExecutaDoCliente, BotsOuvem
    <3>2. ComandoTipado(a)
      BY <1>1, <3>1, FilaAnda
    <3>3. /\ TurnosDosBots' /\ IsFiniteSet(Pendentes(tab)') /\ LoteTipado(Lote(Eu, a))
          /\ \E k \in Jogadores : Jogada(k)
      BY <3>1, <3>2, ComandoTomado
    <3>4. /\ DOMAIN visto' = Bots /\ DOMAIN laco' = Bots
          /\ \A b \in Bots : VistoTipado(visto'[b]) /\ LacoTipado(laco'[b])
      BY <1>1, <3>1, <3>3, OuvirTipado
    <3>5. QED
      BY <2>1, <2>2, <3>3, <3>4 DEF Mesas, PassoDaMesa
  <2>5. QED
    BY <1>6, <2>3, <2>4
<1>7. QED
  BY <1>2, <1>3, <1>4, <1>5, <1>6 DEF Pessoa

LEMMA DesistenciaSegue ==
  ASSUME Mesas, NEW j \in Desistentes, DesistenciaOuvida(j)
  PROVE  Mesas' /\ PassoDaMesa
<1>1. /\ Desistir(j) /\ Ouvir(LoteDaDesistencia(j), laco)
      /\ Receber(LoteDaDesistencia(j), <<"desistir">>, pedidos)
  BY DEF DesistenciaOuvida, DesistenciaVista, BotsOuvem
<1>2. Passo
  BY <1>1, PartidaAssumption DEF Passo, Jogadores
<1>3. TurnosDosBots' /\ IsFiniteSet(Pendentes(tab)')
  BY <1>2, PartidaSegue
<1>4. LoteTipado(LoteDaDesistencia(j))
  BY LoteDaDesistenciaTipado
<1>5. FilaTipada(pedidos') /\ (conectado' => EspelhoTipado(espelho'))
  BY <1>1, <1>4, ReceberTipado DEF Mesas
<1>6. /\ DOMAIN visto' = Bots /\ DOMAIN laco' = Bots
      /\ \A b \in Bots : VistoTipado(visto'[b]) /\ LacoTipado(laco'[b])
  BY <1>1, <1>4, OuvirTipado DEF Mesas
<1>7. QED
  BY <1>1, <1>3, <1>5, <1>6 DEF Mesas, PassoDaMesa

LEMMA EnviarSegue ==
  ASSUME Mesas, NEW b \in Bots, NEW l, LacoTipado(l), NEW comandos, FilaTipada(comandos),
         comandos # << >>, Enviar(b, l, comandos)
  PROVE  Mesas' /\ PassoDaMesa
<1> DEFINE a == Head(comandos)
           outro == IF l.desiste \/ turno.ativo # b THEN Ocioso
                    ELSE [l EXCEPT !.recusados = @ \cup {comandos[Len(comandos)]}, !.fila = << >>]
           segue == [l EXCEPT !.fila = Tail(comandos), !.desiste = @ \/ Lote(b, a) = << >>]
<1>1. /\ (conectado => EspelhoTipado(espelho)) /\ FilaTipada(pedidos)
      /\ DOMAIN visto = Bots /\ DOMAIN laco = Bots
      /\ \A x \in Bots : VistoTipado(visto[x]) /\ LacoTipado(laco[x])
  BY DEF Mesas
<1>2. ComandoTipado(a) /\ FilaTipada(Tail(comandos))
  BY FilaAnda
<1>3. LacoTipado(outro) /\ LacoTipado(segue)
  BY <1>2, FilaVazia DEF LacoTipado, Ocioso
<1>4. CASE AceitaComando(b, a)
  <2>1. /\ ExecutaComando(b, a) /\ Receber(Lote(b, a), a, pedidos)
        /\ Ouvir(Lote(b, a), [laco EXCEPT ![b] = segue])
    BY <1>4 DEF Enviar
  <2> HIDE DEF segue, a
  <2>2. \A x \in Bots : LacoTipado([laco EXCEPT ![b] = segue][x])
    BY <1>1, <1>3
  <2>3. /\ TurnosDosBots' /\ IsFiniteSet(Pendentes(tab)') /\ LoteTipado(Lote(b, a))
        /\ \E k \in Jogadores : Jogada(k)
    BY <1>2, <2>1, ComandoTomado
  <2>4. FilaTipada(pedidos') /\ (conectado' => EspelhoTipado(espelho'))
    BY <1>1, <2>1, <2>3, ReceberTipado
  <2>5. /\ DOMAIN visto' = Bots /\ DOMAIN laco' = Bots
        /\ \A x \in Bots : VistoTipado(visto'[x]) /\ LacoTipado(laco'[x])
    BY <1>1, <2>1, <2>2, <2>3, OuvirTipado
  <2>6. QED
    BY <2>3, <2>4, <2>5 DEF Mesas, PassoDaMesa
<1>5. CASE ~AceitaComando(b, a)
  <2>1. laco' = [laco EXCEPT ![b] = outro] /\ UNCHANGED <<varsDoCliente, visto, desviado>>
    BY <1>5 DEF Enviar
  <2>2. /\ UNCHANGED varsDaPartida /\ visto' = visto /\ conectado' = conectado
        /\ espelho' = espelho /\ pedidos' = pedidos
    BY <2>1 DEF varsDoCliente, vars
  <2> HIDE DEF outro
  <2>3. DOMAIN laco' = Bots /\ \A x \in Bots : LacoTipado(laco'[x])
    BY <1>1, <1>3, <2>1
  <2>4. QED
    BY <1>1, <2>2, <2>3, PartidaVaza DEF Mesas, PassoDaMesa
<1>6. QED
  BY <1>4, <1>5

LEMMA PilotoSegue ==
  ASSUME Mesas, NEW b \in Bots, Piloto(b)
  PROVE  Mesas' /\ PassoDaMesa
<1> DEFINE l == laco[b]
           maisUma == [l EXCEPT !.acoes = @ + 1]
           desistente == [l EXCEPT !.desiste = TRUE]
<1>1. LacoTipado(l) /\ VistoTipado(visto[b])
  BY DEF Mesas
<1>2. LacoTipado(maisUma) /\ LacoTipado(desistente)
  BY <1>1 DEF LacoTipado
<1>3. CASE l.fila # << >> /\ Enviar(b, l, l.fila)
  BY <1>1, <1>3, EnviarSegue DEF LacoTipado
<1>4. CASE \E a \in Candidatas(b) : \E s \in Expansoes(visto[b], a) : Enviar(b, maisUma, s)
  <2>1. PICK a \in Candidatas(b) : \E s \in Expansoes(visto[b], a) : Enviar(b, maisUma, s)
    BY <1>4
  <2>2. PICK s \in Expansoes(visto[b], a) : Enviar(b, maisUma, s)
    BY <2>1
  <2>3. FilaTipada(s) /\ s # << >>
    BY <1>1, CandidataTipada, ExpansaoTipada
  <2> HIDE DEF maisUma
  <2>4. QED
    BY <1>2, <2>2, <2>3, EnviarSegue
<1>5. CASE Enviar(b, desistente, << <<"encerrar_turno">> >>)
  <2>1. FilaTipada(<< <<"encerrar_turno">> >>) /\ << <<"encerrar_turno">> >> # << >>
    BY ComandosDoTurno, FilaUma
  <2> HIDE DEF desistente
  <2>2. QED
    BY <1>2, <1>5, <2>1, EnviarSegue
<1>6. QED
  BY <1>3, <1>4, <1>5 DEF Piloto

LEMMA MesasSegue ==
  ASSUME Mesas, [NextDaMesa]_varsDaMesa
  PROVE  Mesas' /\ PassoDaMesa
<1>1. CASE NextDaMesa
  BY <1>1, PessoaSegue, DesistenciaSegue, PilotoSegue DEF NextDaMesa
<1>2. CASE UNCHANGED varsDaMesa
  <2>1. /\ UNCHANGED varsDaPartida /\ visto' = visto /\ laco' = laco /\ conectado' = conectado
        /\ espelho' = espelho /\ pedidos' = pedidos
    BY <1>2 DEF varsDaMesa, varsDoCliente, varsDosBots, vars
  <2>2. QED
    BY <2>1, PartidaVaza DEF Mesas, PassoDaMesa
<1>3. QED
  BY <1>1, <1>2

LEMMA MesasNoInicio ==
  ASSUME InitDaMesa
  PROVE  Mesas /\ Init
<1>1. /\ Init /\ espelho = AplicarSnapshot(SemFoto) /\ pedidos = << >>
      /\ visto = [b \in Bots |-> Dobrar(AdaptarSnapshot, [tipo |-> "TURNO_INICIADO",
                                  jogador |-> turno.ativo, rodada |-> turno.rodada])]
      /\ laco = [b \in Bots |-> IF turno.ativo = b THEN Aberto ELSE Ocioso]
  BY DEF InitDaMesa, InitDoCliente, InitComBots
<1>2. TurnosDosBots /\ Tipos
  BY <1>1, EspelhosNoInicio DEF TurnosDosBots, TurnosComSaida, TurnosComLuz, Turnos
<1>3. IsFiniteSet(Pendentes(tab))
  <2>1. PICK c \in Caixas : tab = TabuleiroInicial(Jogadores, c)
    BY <1>1 DEF Init
  <2>2. Pendentes(tab) = {}
    BY <2>1, ParcialVazia DEF TabuleiroInicial, Pendentes
  <2>3. QED
    BY <2>2, FS_EmptySet
<1>4. EspelhoTipado(espelho)
  BY <1>1, <1>2, FotoTipada
<1>5. VistoTipado(AdaptarSnapshot)
  <2> DEFINE e == EstadoDaMesa
             t == [tab EXCEPT !.caixa = Len(@)]
             u1 == [turno EXCEPT !.atravessou = FALSE]
             u2 == [u1 EXCEPT !.travessia = Nada]
             e1 == [e EXCEPT !.graca = {}]
             e2 == [e1 EXCEPT !.turno = u1]
             e3 == [e2 EXCEPT !.turno = u2]
  <2>1. tab = [c \in CamposDoTabuleiro |-> tab[c]] /\ DOMAIN tab.recebidas \subseteq PecasDaCaixa
    BY <1>2, MesaDe DEF Tipos, Bom, Tabuleiros, CamposDoTabuleiro, Pendentes
  <2>2. t = [c \in CamposDoTabuleiro |-> t[c]] /\ t.recebidas = tab.recebidas
    BY <2>1 DEF CamposDoTabuleiro
  <2>3. e.tab = t /\ e.turno = turno /\ Feito(e, CamposDoBot)
    BY DEF EstadoDaMesa, CamposDoBot, Feito
  <2> HIDE DEF t, e
  <2>4. Feito(e1, CamposDoBot) /\ e1.turno = turno
    BY <2>3, MoldeSegue DEF Feito, CamposDoBot
  <2>5. Feito(e2, CamposDoBot) /\ e2.turno = u1
    BY <2>4, MoldeSegue DEF Feito, CamposDoBot
  <2>6. Feito(e3, CamposDoBot) /\ e3.tab = t
    BY <2>3, <2>4, <2>5, MoldeSegue DEF Feito, CamposDoBot
  <2>7. AdaptarSnapshot = e3
    BY <2>4, <2>5, Zenon DEF AdaptarSnapshot, e
  <2> HIDE DEF e1, e2, e3
  <2>8. QED
    BY <2>1, <2>2, <2>6, <2>7 DEF VistoTipado, Feito
<1>6. \A b \in Bots : VistoTipado(visto[b]) /\ LacoTipado(laco[b])
  <2>1. VistoTipado(Dobrar(AdaptarSnapshot, [tipo |-> "TURNO_INICIADO",
                           jogador |-> turno.ativo, rodada |-> turno.rodada]))
    BY <1>5, DobrarTipado
  <2>2. LacoTipado(Aberto) /\ LacoTipado(Ocioso)
    BY FilaVazia DEF LacoTipado, Aberto, Ocioso
  <2>3. QED
    BY <1>1, <2>1, <2>2
<1>7. DOMAIN visto = Bots /\ DOMAIN laco = Bots
  BY <1>1
<1>8. QED
  BY <1>1, <1>2, <1>3, <1>4, <1>6, <1>7, FilaVazia DEF Mesas

(***************************************************************************)
(* The table implements the match: with a page that sends what it offers   *)
(* and chains, a socket that drops and comes back, and bots that decide on *)
(* a mirror and are refused, every step is a move of a Player whose turn it*)
(* is, a desistência, or nothing to the match (JogadorBot.tla over         *)
(* Partida.tla).  So what is proved of the match holds at the table too.   *)
(***************************************************************************)
THEOREM MesaImplementaPartida == SpecDaMesa => Spec
<1>1. InitDaMesa => Mesas /\ Init
  BY MesasNoInicio
<1>2. Mesas /\ [NextDaMesa]_varsDaMesa => Mesas'
  BY MesasSegue
<1>3. Mesas /\ [NextDaMesa]_varsDaMesa => [Next]_varsDaPartida
  BY MesasSegue, PartidaAssumption DEF PassoDaMesa, Next, Jogadores
<1>4. QED
  BY <1>1, <1>2, <1>3, PTL DEF SpecDaMesa, Spec

(***************************************************************************)
(* What a Player at the page and the bots at their mirrors can never bring *)
(* about (engine.executar refuses it, whoever asks): a state out of its    *)
(* type, two pawns where one fits, a pawn two cells from where its turn    *)
(* began, a drawn piece put where nothing connects, a light that is not    *)
(* that of the board, a turn with no command left.                         *)
(***************************************************************************)
THEOREM MesaSegura ==
  SpecDaMesa => [](TypeOK /\ OcupacaoTolerada /\ UmaCasaPorTurno /\ EncaixeConectado
                   /\ LuzEmDia /\ TurnoTemSaida)
BY MesaImplementaPartida, Tipagem, PecasPartilhadas, UmaCasaSempre, EncaixeSempre,
   LuzSempre, SaidaSempre, PTL

(***************************************************************************)
(* At the table too the turn passes to the next Player in the order of     *)
(* entry who is not amedrontado (partida.ts, encerrarTurno).               *)
(***************************************************************************)
THEOREM MesaPassaAVez == SpecDaMesa => PassagemDeVez
BY MesaImplementaPartida, VezDoAcordado, PTL DEF PassagemDeVez

-----------------------------------------------------------------------------
(* The mirror of the page as a picture of a state of the match: of a board *)
(* t, a roster js, a turn tu, a light, the generators and the card.  Not   *)
(* of Proteção, of the movement, nor of which pieces it knows, but that    *)
(* those it knows are not in the Caixa.                                    *)

MesmaPercepcao(s, p) ==
  p = [sanidade |-> s.sanidade, baixa |-> s.baixa, amedrontado |-> s.amedrontado,
       protegido |-> p.protegido]
MesmoElenco(m, js) ==
  /\ m = [j \in DOMAIN js |-> m[j]]
  /\ \A j \in DOMAIN js : MesmaPercepcao(js[j], m[j])

RetratoDaMesa(e, t) ==
  /\ e.iniciais = t.iniciais /\ e.posicionadas = t.posicionadas /\ e.recebidas = t.recebidas
  /\ e.selecionada = t.selecionada /\ e.manipulacao = t.manipulacao
  /\ e.peao \in {Nada, t.peao}
  /\ e.restam = Len(t.caixa) /\ e.conhecidas \cap PecasDa(t.caixa) = {}
RetratoDosPeoes(e, t, js) == e.peoes = [j \in DOMAIN js |-> CelulaDoPeao(t, j)]
RetratoDoTurno(e, tu) ==
  /\ e.ativo = tu.ativo /\ e.rodada = tu.rodada /\ e.inicio = tu.inicio
  /\ e.confirmada = tu.confirmada /\ e.atravessou = tu.atravessou
  /\ e.travessia = tu.travessia
RetratoDoElenco(e, js) == e.dono = [j \in DOMAIN js |-> j] /\ MesmoElenco(e.jogadores, js)
RetratoDosBens(e, luz, ge, ca) == e.iluminadas = luz /\ e.geradores = ge /\ e.cartao = ca

Retrato(e, t, js, tu, luz, ge, ca) ==
  /\ Molde(e) /\ RetratoDaMesa(e, t) /\ RetratoDosPeoes(e, t, js)
  /\ RetratoDoTurno(e, tu) /\ RetratoDoElenco(e, js) /\ RetratoDosBens(e, luz, ge, ca)

(* What a mirror that is a picture needs of the state: what is selected is *)
(* off the board, the initial pieces are those of the roster, only a piece *)
(* of a crossing has a cell before its edge, and a piece that can be turned*)
(* before the light changes is the one the pawn is going to stand on.      *)
SelecaoFora(t) == t.selecionada \in {Nada} \cup DOMAIN t.iniciais \cup Pendentes(t)
IniciaisDoElenco(t) == DOMAIN t.iniciais \subseteq {"inicial"} \X Jogadores
AlvosComVaga(t, tu) ==
  \A r \in Pendentes(t) :
    t.recebidas[r].alvo # Nada /\ t.recebidas[r].vaga = Nada => tu.atravessou /\ ~tu.confirmada
ViradaNoLugar(t, js, tu) ==
  /\ js[tu.ativo].primeiroTurno /\ t.peoes[tu.ativo] = Nada =>
       t.manipulacao \in {Nada, <<"inicial", tu.ativo>>}
  /\ ~js[tu.ativo].primeiroTurno /\ ~tu.confirmada => t.manipulacao \in {Nada, tu.travessia}
Apresentavel(t, js, tu) ==
  SelecaoFora(t) /\ IniciaisDoElenco(t) /\ AlvosComVaga(t, tu) /\ ViradaNoLugar(t, js, tu)

Fiel(e) == Retrato(e, tab, jogadores, turno, iluminadas, geradores, cartao)

-----------------------------------------------------------------------------
(* A photo is a picture, and a picture shows what a photo would.           *)

LEMMA IniciaisInteiras ==
  ASSUME Tipos, ElencoCompleto, SelecaoFora(tab), IniciaisDoElenco(tab)
  PROVE  IniciaisReparadas(tab, Cardinality(DOMAIN jogadores)) = DOMAIN tab.iniciais
<1> DEFINE N == NumeroDeJogadores
           I == DOMAIN tab.iniciais
<1>1. N \in 2..4 /\ Jogadores = 1..N /\ I \subseteq {"inicial"} \X Jogadores
  BY PartidaAssumption DEF Jogadores, IniciaisDoElenco
<1>2. Cardinality(DOMAIN jogadores) = N
  <2>1. 1 \in Int /\ N \in Int /\ 1 <= N /\ N - 1 + 1 = N
    BY <1>1
  <2>2. Cardinality(1..N) = N - 1 + 1
    BY <2>1, FS_Interval
  <2>3. QED
    BY <1>1, <2>1, <2>2 DEF ElencoCompleto
<1>3. ASSUME NEW p \in I
      PROVE  Cardinality({q \in I : q[2] < p[2]}) < N
  <2> DEFINE k == p[2]
             menores == {"inicial"} \X (1..(k - 1))
  <2>1. k \in 1..N /\ k - 1 \in Int /\ k \in Int
    BY <1>1
  <2>2. IsFiniteSet(1..(k - 1)) /\ Cardinality(1..(k - 1)) = k - 1
    <3> DEFINE m == k - 1
    <3>1. 1 \in Int /\ m \in Int
      BY <2>1
    <3> HIDE DEF m
    <3>2. IsFiniteSet(1..m) /\ Cardinality(1..m) = IF 1 > m THEN 0 ELSE m - 1 + 1
      BY <3>1, FS_Interval, Zenon
    <3> USE DEF m
    <3>3. QED
      BY <2>1, <3>2
  <2>3. IsFiniteSet({"inicial"}) /\ Cardinality({"inicial"}) = 1
    BY FS_Singleton
  <2>4. IsFiniteSet(menores) /\ Cardinality(menores) = 1 * (k - 1)
    BY <2>2, <2>3, FS_Product
  <2>5. {q \in I : q[2] < k} \subseteq menores
    BY <1>1, <2>1
  <2>6. IsFiniteSet({q \in I : q[2] < k}) /\ Cardinality({q \in I : q[2] < k}) <= Cardinality(menores)
    BY <2>4, <2>5, FS_Subset
  <2>7. Cardinality({q \in I : q[2] < k}) \in Nat
    BY <2>6, FS_CardinalityType
  <2>8. QED
    BY <1>1, <2>1, <2>4, <2>6, <2>7
<1>4. IniciaisDoRoster(tab, N) = I
  BY <1>3 DEF IniciaisDoRoster
<1>5. tab.selecionada \in PecasIniciais => tab.selecionada \in I
  BY MesaDe, TiposDistintos, NadaAssumption DEF Tipos, Bom, SelecaoFora, Pecas
<1>6. QED
  BY <1>2, <1>4, <1>5 DEF IniciaisReparadas

LEMMA FotoFiel ==
  ASSUME Tipos, ElencoCompleto, Apresentavel(tab, jogadores, turno), NEW e,
         e.conhecidas \cap PecasDa(tab.caixa) = {}
  PROVE  Fiel(AplicarSnapshot(e))
<1> DEFINE f == AplicarSnapshot(e)
           mesa == IniciaisReparadas(tab, Cardinality(DOMAIN jogadores))
<1>1. mesa = DOMAIN tab.iniciais
  BY IniciaisInteiras DEF Apresentavel
<1>2. tab.iniciais = [p \in DOMAIN tab.iniciais |-> tab.iniciais[p]]
  BY ParcialDe DEF Tipos, Bom, Tabuleiros
<1>3. /\ Molde(f)
      /\ f.iniciais = [p \in mesa |-> IF p \in DOMAIN tab.iniciais THEN tab.iniciais[p]
                                       ELSE IF p \in DOMAIN e.iniciais THEN e.iniciais[p] ELSE 0]
      /\ f.posicionadas = tab.posicionadas /\ f.recebidas = tab.recebidas
      /\ f.selecionada = tab.selecionada /\ f.manipulacao = tab.manipulacao
      /\ f.peoes = [j \in DOMAIN jogadores |-> CelulaDoPeao(tab, j)] /\ f.peao = tab.peao
      /\ f.conhecidas = e.conhecidas \cup Pendentes(tab) /\ f.restam = Len(tab.caixa)
  BY DEF AplicarSnapshot, Molde, Campos
<1>4. /\ RetratoDoTurno(f, turno) /\ RetratoDosBens(f, iluminadas, geradores, cartao)
      /\ f.dono = [j \in DOMAIN jogadores |-> j]
      /\ f.jogadores = [j \in DOMAIN jogadores |-> PercepcaoDe(jogadores[j])]
  BY DEF AplicarSnapshot, RetratoDoTurno, RetratoDosBens
<1> HIDE DEF f, mesa
<1>5. f.iniciais = tab.iniciais
  BY <1>1, <1>2, <1>3
<1>6. RetratoDaMesa(f, tab)
  BY <1>3, <1>5 DEF RetratoDaMesa, Tipos, Bom, PecasSeparadas
<1>7. RetratoDoElenco(f, jogadores)
  BY <1>4 DEF RetratoDoElenco, MesmoElenco, MesmaPercepcao, PercepcaoDe
<1>8. QED
  BY <1>3, <1>4, <1>6, <1>7 DEF Fiel, Retrato, RetratoDosPeoes, f

LEMMA MesmaFoto ==
  ASSUME Fiel(espelho), NEW e, Fiel(e)
  PROVE  Visivel(espelho) = Visivel(e) /\ espelho.peao \in {Nada, tab.peao}
<1> DEFINE S(m) == [j \in DOMAIN m |-> [m[j] EXCEPT !.protegido = FALSE]]
           V(f) == [c \in Campos |->
                      IF c = "movimentou" THEN FALSE ELSE IF c = "conhecidas" THEN {}
                      ELSE IF c = "peao" THEN Nada ELSE IF c = "jogadores" THEN S(f.jogadores)
                      ELSE f[c]]
<1>1. ASSUME NEW f, Molde(f)
      PROVE  Visivel(f) = V(f)
  <2> DEFINE f1 == [f EXCEPT !.movimentou = FALSE]
             f2 == [f1 EXCEPT !.conhecidas = {}]
             f3 == [f2 EXCEPT !.peao = Nada]
             f4 == [f3 EXCEPT !.jogadores = S(f.jogadores)]
  <2>1. DOMAIN f = Campos
    BY <1>1 DEF Molde
  <2>2. f3.jogadores = f.jogadores /\ f4 = V(f)
    BY <1>1, <2>1 DEF Campos, Molde
  <2>3. Visivel(f) = f4
    BY <2>2, Zenon DEF Visivel
  <2>4. QED
    BY <2>2, <2>3
<1>2. S(espelho.jogadores) = S(e.jogadores)
  <2> DEFINE m == espelho.jogadores
             n == e.jogadores
             D == DOMAIN jogadores
  <2>1. /\ m = [j \in D |-> m[j]] /\ n = [j \in D |-> n[j]]
        /\ \A j \in D : MesmaPercepcao(jogadores[j], m[j]) /\ MesmaPercepcao(jogadores[j], n[j])
    BY DEF Fiel, Retrato, RetratoDoElenco, MesmoElenco
  <2> HIDE DEF m, n
  <2>2. DOMAIN m = D /\ DOMAIN n = D
    BY <2>1
  <2>3. \A j \in D : [m[j] EXCEPT !.protegido = FALSE] = [n[j] EXCEPT !.protegido = FALSE]
    <3> SUFFICES ASSUME NEW j \in D
                 PROVE  [m[j] EXCEPT !.protegido = FALSE] = [n[j] EXCEPT !.protegido = FALSE]
      OBVIOUS
    <3> DEFINE s == jogadores[j]
               a == m[j]
               b == n[j]
               Com(w) == [sanidade |-> s.sanidade, baixa |-> s.baixa,
                          amedrontado |-> s.amedrontado, protegido |-> w]
    <3>1. /\ a = [sanidade |-> s.sanidade, baixa |-> s.baixa, amedrontado |-> s.amedrontado,
                  protegido |-> a.protegido]
          /\ b = [sanidade |-> s.sanidade, baixa |-> s.baixa, amedrontado |-> s.amedrontado,
                  protegido |-> b.protegido]
      BY <2>1 DEF MesmaPercepcao
    <3> HIDE DEF s, a, b
    <3>2. ASSUME NEW y, NEW v, y = [sanidade |-> s.sanidade, baixa |-> s.baixa,
                                    amedrontado |-> s.amedrontado, protegido |-> v]
          PROVE  \A w : [y EXCEPT !.protegido = w] = Com(w)
      BY <3>2
    <3> HIDE DEF Com
    <3>3. [a EXCEPT !.protegido = FALSE] = Com(FALSE) /\ [b EXCEPT !.protegido = FALSE] = Com(FALSE)
      BY <3>1, <3>2, Zenon
    <3>4. QED
      BY <3>3 DEF a, b
  <2>4. S(m) = S(n)
    BY <2>2, <2>3
  <2>5. QED
    BY <2>4 DEF m, n
<1>3. \A c \in Campos : V(espelho)[c] = V(e)[c]
  <2>1. \A c \in Campos \ {"movimentou", "conhecidas", "peao", "jogadores"} : espelho[c] = e[c]
    BY DEF Fiel, Retrato, RetratoDaMesa, RetratoDosPeoes, RetratoDoTurno, RetratoDoElenco,
           RetratoDosBens, Campos
  <2> HIDE DEF S
  <2>2. QED
    BY <1>2, <2>1
<1>4. V(espelho) = V(e)
  BY <1>3
<1>5. Molde(espelho) /\ Molde(e) /\ espelho.peao \in {Nada, tab.peao}
  BY DEF Fiel, Retrato, RetratoDaMesa
<1> HIDE DEF V
<1>6. QED
  BY <1>1, <1>4, <1>5

-----------------------------------------------------------------------------
(* What an event does to the mirror.                                       *)

(* r is e but for the fields of X.                                         *)
Intocados(e, r, X) == Molde(r) /\ \A c \in Campos \ X : r[c] = e[c]

LEMMA AoSelecionar ==
  ASSUME NEW e, Molde(e), NEW ev, NEW r, r = ReduzirEvento(e, ev)
  PROVE  /\ ev.tipo = "PECA_SELECIONADA" =>
              Intocados(e, r, {"selecionada"}) /\ r.selecionada = ev.peca
         /\ ev.tipo = "PECA_DESELECIONADA" =>
              Intocados(e, r, {"selecionada"})
              /\ r.selecionada = IF e.selecionada = ev.peca THEN Nada ELSE e.selecionada
         /\ ev.tipo = "MANIPULACAO_FINALIZADA" =>
              Intocados(e, r, {"manipulacao"})
              /\ r.manipulacao = IF e.manipulacao = ev.peca THEN Nada ELSE e.manipulacao
         /\ ev.tipo = "PEAO_SELECIONADO" => Intocados(e, r, {"peao"}) /\ r.peao = ev.peao
         /\ ev.tipo = "PEAO_DESELECIONADO" =>
              Intocados(e, r, {"peao"}) /\ r.peao = IF e.peao = ev.peao THEN Nada ELSE e.peao
         /\ ev.tipo = "CELULAS_ILUMINADAS" =>
              Intocados(e, r, {"iluminadas"}) /\ r.iluminadas = ev.celulas
         /\ ev.tipo = "ATRAVESSOU_O_ESCURO" =>
              Intocados(e, r, {"atravessou"}) /\ r.atravessou = TRUE
<1>1. DOMAIN e = Campos
  BY DEF Molde
<1>2. CASE ev.tipo = "PECA_SELECIONADA"
  <2>1. r = [e EXCEPT !.selecionada = ev.peca]
    BY <1>2 DEF ReduzirEvento
  <2>2. QED
    BY <1>1, <1>2, <2>1 DEF Intocados, Campos, Molde
<1>3. CASE ev.tipo = "PECA_DESELECIONADA"
  <2>1. r = [e EXCEPT !.selecionada = IF @ = ev.peca THEN Nada ELSE @]
    BY <1>3 DEF ReduzirEvento
  <2>2. QED
    BY <1>1, <1>3, <2>1 DEF Intocados, Campos, Molde
<1>4. CASE ev.tipo = "MANIPULACAO_FINALIZADA"
  <2>1. r = [e EXCEPT !.manipulacao = IF @ = ev.peca THEN Nada ELSE @]
    BY <1>4 DEF ReduzirEvento
  <2>2. QED
    BY <1>1, <1>4, <2>1 DEF Intocados, Campos, Molde
<1>5. CASE ev.tipo = "PEAO_SELECIONADO"
  <2>1. r = [e EXCEPT !.peao = ev.peao]
    BY <1>5 DEF ReduzirEvento
  <2>2. QED
    BY <1>1, <1>5, <2>1 DEF Intocados, Campos, Molde
<1>6. CASE ev.tipo = "PEAO_DESELECIONADO"
  <2>1. r = [e EXCEPT !.peao = IF @ = ev.peao THEN Nada ELSE @]
    BY <1>6 DEF ReduzirEvento
  <2>2. QED
    BY <1>1, <1>6, <2>1 DEF Intocados, Campos, Molde
<1>7. CASE ev.tipo = "CELULAS_ILUMINADAS"
  <2>1. r = [e EXCEPT !.iluminadas = ev.celulas]
    BY <1>7 DEF ReduzirEvento
  <2>2. QED
    BY <1>1, <1>7, <2>1 DEF Intocados, Campos, Molde
<1>8. CASE ev.tipo = "ATRAVESSOU_O_ESCURO"
  <2>1. r = [e EXCEPT !.atravessou = TRUE]
    BY <1>8 DEF ReduzirEvento
  <2>2. QED
    BY <1>1, <1>8, <2>1 DEF Intocados, Campos, Molde
<1>9. QED
  BY <1>2, <1>3, <1>4, <1>5, <1>6, <1>7, <1>8

LEMMA AoGirar ==
  ASSUME NEW e, Molde(e), NEW p, NEW o, NEW r,
         r = ReduzirEvento(e, [tipo |-> "PECA_GIRADA", peca |-> p, orientacao |-> o])
  PROVE  /\ p \in DOMAIN e.posicionadas =>
              Intocados(e, r, {"posicionadas"})
              /\ r.posicionadas = [e.posicionadas EXCEPT ![p].orientacao = o]
         /\ p \notin DOMAIN e.posicionadas /\ p \in DOMAIN e.recebidas =>
              Intocados(e, r, {"recebidas"})
              /\ r.recebidas = [e.recebidas EXCEPT ![p].orientacao = o]
         /\ p \notin DOMAIN e.posicionadas \cup DOMAIN e.recebidas /\ p \in DOMAIN e.iniciais =>
              Intocados(e, r, {"iniciais"}) /\ r.iniciais = [e.iniciais EXCEPT ![p] = o]
<1> DEFINE ev == [tipo |-> "PECA_GIRADA", peca |-> p, orientacao |-> o]
<1>1. DOMAIN e = Campos
  BY DEF Molde
<1>2. ev.tipo = "PECA_GIRADA" /\ ev.peca = p /\ ev.orientacao = o
  OBVIOUS
<1>3. r = PecaGirada(e, ev)
  BY <1>2 DEF ReduzirEvento
<1> HIDE DEF ev
<1>4. CASE p \in DOMAIN e.posicionadas
  <2>1. r = [e EXCEPT !.posicionadas = [e.posicionadas EXCEPT ![p].orientacao = o]]
    BY <1>1, <1>2, <1>3, <1>4 DEF PecaGirada, Campos
  <2>2. QED
    BY <1>1, <1>4, <2>1 DEF Intocados, Campos, Molde
<1>5. CASE p \notin DOMAIN e.posicionadas /\ p \in DOMAIN e.recebidas
  <2>1. r = [e EXCEPT !.recebidas = [e.recebidas EXCEPT ![p].orientacao = o]]
    BY <1>1, <1>2, <1>3, <1>5 DEF PecaGirada, Campos
  <2>2. QED
    BY <1>1, <1>5, <2>1 DEF Intocados, Campos, Molde
<1>6. CASE p \notin DOMAIN e.posicionadas \cup DOMAIN e.recebidas /\ p \in DOMAIN e.iniciais
  <2>1. r = [e EXCEPT !.iniciais = [e.iniciais EXCEPT ![p] = o]]
    BY <1>1, <1>2, <1>3, <1>6 DEF PecaGirada, Campos
  <2>2. QED
    BY <1>1, <1>6, <2>1 DEF Intocados, Campos, Molde
<1>7. QED
  BY <1>4, <1>5, <1>6

LEMMA AoTrocar ==
  ASSUME NEW e, Molde(e), NEW k \in Campos, NEW v
  PROVE  Intocados(e, [e EXCEPT ![k] = v], {k}) /\ [e EXCEPT ![k] = v][k] = v
BY DEF Intocados, Molde

(* The mirror r that e becomes when p comes to c with orientation o.       *)
Posta(e, r, p, c, o) ==
  /\ Intocados(e, r, {"iniciais", "posicionadas", "selecionada", "manipulacao",
                      "recebidas", "travessia"})
  /\ r.iniciais = Restringir(e.iniciais, DOMAIN e.iniciais \ {p})
  /\ r.posicionadas = Estender(e.posicionadas, p, [celula |-> c, orientacao |-> o])
  /\ r.selecionada = Nada
  /\ r.manipulacao = IF EhEspecial(p) \/ EhMonstro(p) THEN Nada ELSE p
  /\ r.recebidas = Restringir(e.recebidas,
                              {q \in DOMAIN e.recebidas : e.recebidas[q].alvo # c})
  /\ r.travessia = IF e.atravessou /\ p \in DOMAIN e.recebidas /\ e.recebidas[p].alvo = c
                   THEN p ELSE e.travessia

LEMMA AoPosicionar ==
  ASSUME NEW e, Molde(e), NEW p, NEW c, NEW o, NEW r,
         r = ReduzirEvento(e, [tipo |-> "PECA_POSICIONADA", peca |-> p, celula |-> c,
                               orientacao |-> o]),
         p \in DOMAIN e.iniciais \cup e.conhecidas \cup DOMAIN e.recebidas
  PROVE  Posta(e, r, p, c, o)
<1> DEFINE ev == [tipo |-> "PECA_POSICIONADA", peca |-> p, celula |-> c, orientacao |-> o]
<1>1. DOMAIN e = Campos /\ ev.peca = p /\ ev.celula = c /\ ev.orientacao = o
      /\ ev.tipo = "PECA_POSICIONADA"
  BY DEF Molde
<1> DEFINE v1 == Restringir(e.iniciais, DOMAIN e.iniciais \ {p})
           v2 == Estender(e.posicionadas, p, [celula |-> c, orientacao |-> o])
           v4 == IF EhEspecial(p) \/ EhMonstro(p) THEN Nada ELSE p
           v5 == Restringir(e.recebidas, {q \in DOMAIN e.recebidas : e.recebidas[q].alvo # c})
           v6 == IF FechaTravessia(e, ev) THEN p ELSE e.travessia
           e1 == [e EXCEPT !.iniciais = v1]
           e2 == [e1 EXCEPT !.posicionadas = v2]
           e3 == [e2 EXCEPT !.selecionada = Nada]
           e4 == [e3 EXCEPT !.manipulacao = v4]
           e5 == [e4 EXCEPT !.recebidas = v5]
           e6 == [e5 EXCEPT !.travessia = v6]
<1>2. r = PecaPosicionada(e, ev)
  BY <1>1, Zenon DEF ReduzirEvento
<1>3. r = [e EXCEPT !.iniciais = v1, !.posicionadas = v2, !.selecionada = Nada,
                    !.manipulacao = v4, !.recebidas = v5, !.travessia = v6]
  BY <1>1, <1>2 DEF PecaPosicionada, Campos
<1> HIDE DEF v1, v2, v4, v5, v6, ev
<1>4. r = e6
  BY <1>3, Zenon
<1>5. Intocados(e, e1, {"iniciais"}) /\ e1.iniciais = v1
  BY AoTrocar DEF Campos
<1> HIDE DEF e1
<1>6. Intocados(e1, e2, {"posicionadas"}) /\ e2.posicionadas = v2
  BY <1>5, AoTrocar DEF Campos, Intocados
<1> HIDE DEF e2
<1>7. Intocados(e2, e3, {"selecionada"}) /\ e3.selecionada = Nada
  BY <1>6, AoTrocar DEF Campos, Intocados
<1> HIDE DEF e3
<1>8. Intocados(e3, e4, {"manipulacao"}) /\ e4.manipulacao = v4
  BY <1>7, AoTrocar DEF Campos, Intocados
<1> HIDE DEF e4
<1>9. Intocados(e4, e5, {"recebidas"}) /\ e5.recebidas = v5
  BY <1>8, AoTrocar DEF Campos, Intocados
<1> HIDE DEF e5
<1>10. Intocados(e5, e6, {"travessia"}) /\ e6.travessia = v6
  BY <1>9, AoTrocar DEF Campos, Intocados
<1> HIDE DEF e6
<1>11. Intocados(e, r, {"iniciais", "posicionadas", "selecionada", "manipulacao",
                        "recebidas", "travessia"})
       /\ r.iniciais = v1 /\ r.posicionadas = v2 /\ r.selecionada = Nada
       /\ r.manipulacao = v4 /\ r.recebidas = v5 /\ r.travessia = v6
  BY <1>4, <1>5, <1>6, <1>7, <1>8, <1>9, <1>10 DEF Intocados, Campos
<1>12. QED
  BY <1>1, <1>11 DEF v1, v2, v4, v5, v6, FechaTravessia, Posta

CamposDaFase == {"movimentou", "confirmada", "atravessou", "travessia", "peao", "selecionada",
                 "manipulacao", "recebidas"}
SemNadaNaFase(r) ==
  /\ r.confirmada = FALSE /\ r.atravessou = FALSE /\ r.travessia = Nada /\ r.peao = Nada
  /\ r.selecionada = Nada /\ r.manipulacao = Nada /\ r.recebidas = << >>

FaseCom(e, w, z) ==
  [e EXCEPT !.movimentou = w, !.confirmada = w, !.atravessou = w,
            !.travessia = Nada, !.peao = Nada, !.selecionada = Nada,
            !.manipulacao = Nada, !.recebidas = z]
ComFase(e, r, w, z) ==
  /\ Intocados(e, r, CamposDaFase)
  /\ r.confirmada = w /\ r.atravessou = w /\ r.travessia = Nada /\ r.peao = Nada
  /\ r.selecionada = Nada /\ r.manipulacao = Nada /\ r.recebidas = z

LEMMA FaseTrocada ==
  ASSUME NEW e, Molde(e), NEW w, NEW z
  PROVE  ComFase(e, FaseCom(e, w, z), w, z)
<1> DEFINE e1 == [e EXCEPT !.movimentou = w]
           e2 == [e1 EXCEPT !.confirmada = w]
           e3 == [e2 EXCEPT !.atravessou = w]
           e4 == [e3 EXCEPT !.travessia = Nada]
           e5 == [e4 EXCEPT !.peao = Nada]
           e6 == [e5 EXCEPT !.selecionada = Nada]
           e7 == [e6 EXCEPT !.manipulacao = Nada]
           e8 == [e7 EXCEPT !.recebidas = z]
<1>1. FaseCom(e, w, z) = e8
  BY Zenon DEF FaseCom
<1>2. Intocados(e, e1, {"movimentou"}) /\ e1.movimentou = w
  BY AoTrocar DEF Campos
<1> HIDE DEF e1
<1>3. Intocados(e1, e2, {"confirmada"}) /\ e2.confirmada = w
  BY <1>2, AoTrocar DEF Campos, Intocados
<1> HIDE DEF e2
<1>4. Intocados(e2, e3, {"atravessou"}) /\ e3.atravessou = w
  BY <1>3, AoTrocar DEF Campos, Intocados
<1> HIDE DEF e3
<1>5. Intocados(e3, e4, {"travessia"}) /\ e4.travessia = Nada
  BY <1>4, AoTrocar DEF Campos, Intocados
<1> HIDE DEF e4
<1>6. Intocados(e4, e5, {"peao"}) /\ e5.peao = Nada
  BY <1>5, AoTrocar DEF Campos, Intocados
<1> HIDE DEF e5
<1>7. Intocados(e5, e6, {"selecionada"}) /\ e6.selecionada = Nada
  BY <1>6, AoTrocar DEF Campos, Intocados
<1> HIDE DEF e6
<1>8. Intocados(e6, e7, {"manipulacao"}) /\ e7.manipulacao = Nada
  BY <1>7, AoTrocar DEF Campos, Intocados
<1> HIDE DEF e7
<1>9. Intocados(e7, e8, {"recebidas"}) /\ e8.recebidas = z
  BY <1>8, AoTrocar DEF Campos, Intocados
<1> HIDE DEF e8
<1>10. Intocados(e, e8, CamposDaFase)
  BY <1>2, <1>3, <1>4, <1>5, <1>6, <1>7, <1>8, <1>9 DEF Intocados, CamposDaFase
<1>11. e8.confirmada = w /\ e8.atravessou = w /\ e8.travessia = Nada /\ e8.peao = Nada
  BY <1>3, <1>4, <1>5, <1>6, <1>7, <1>8, <1>9 DEF Intocados, Campos
<1>12. e8.selecionada = Nada /\ e8.manipulacao = Nada /\ e8.recebidas = z
  BY <1>7, <1>8, <1>9 DEF Intocados, Campos
<1>13. QED
  BY <1>1, <1>10, <1>11, <1>12 DEF ComFase

LEMMA FaseLimpa ==
  ASSUME NEW e, Molde(e)
  PROVE  Intocados(e, SemFase(e), CamposDaFase) /\ SemNadaNaFase(SemFase(e))
<1>1. ComFase(e, FaseCom(e, FALSE, << >>), FALSE, << >>)
  BY FaseTrocada, Zenon
<1>2. SemFase(e) = FaseCom(e, FALSE, << >>)
  BY Zenon DEF SemFase, FaseCom
<1>3. QED
  BY <1>1, <1>2 DEF SemNadaNaFase, ComFase

LEMMA AoEncerrar ==
  ASSUME NEW e, Molde(e), NEW j, NEW r,
         r = ReduzirEvento(e, [tipo |-> "TURNO_ENCERRADO", jogador |-> j])
  PROVE  /\ Intocados(e, r, CamposDaFase \cup {"ativo", "inicio"})
         /\ SemNadaNaFase(r) /\ r.ativo = Nada /\ r.inicio = Nada
<1> DEFINE f == SemFase(e)
           f1 == [f EXCEPT !.ativo = Nada]
           f2 == [f1 EXCEPT !.inicio = Nada]
<1>1. r = [f EXCEPT !.ativo = Nada, !.inicio = Nada]
  BY Zenon DEF ReduzirEvento
<1>2. Intocados(e, f, CamposDaFase) /\ SemNadaNaFase(f)
  BY FaseLimpa
<1> HIDE DEF f
<1>3. r = f2
  BY <1>1, Zenon
<1>4. Intocados(f, f1, {"ativo"}) /\ f1.ativo = Nada
  BY <1>2, AoTrocar DEF Campos, Intocados
<1> HIDE DEF f1
<1>5. Intocados(f1, f2, {"inicio"}) /\ f2.inicio = Nada
  BY <1>4, AoTrocar DEF Campos, Intocados
<1> HIDE DEF f2
<1>6. QED
  BY <1>2, <1>3, <1>4, <1>5 DEF Intocados, Campos, CamposDaFase, SemNadaNaFase

LEMMA AoIniciar ==
  ASSUME NEW e, Molde(e), e.ativo = Nada, NEW j, j # Nada, NEW n, NEW r,
         r = ReduzirEvento(e, [tipo |-> "TURNO_INICIADO", jogador |-> j, rodada |-> n])
  PROVE  /\ Intocados(e, r, CamposDaFase \cup {"ativo", "rodada", "inicio"})
         /\ SemNadaNaFase(r) /\ r.ativo = j /\ r.rodada = n
         /\ r.inicio = SobOPeao(e, DonoDe(e, j))
<1> DEFINE f == SemFase(e)
           v == SobOPeao(e, DonoDe(e, j))
           f1 == [f EXCEPT !.ativo = j]
           f2 == [f1 EXCEPT !.rodada = n]
           f3 == [f2 EXCEPT !.inicio = v]
           ev == [tipo |-> "TURNO_INICIADO", jogador |-> j, rodada |-> n]
<1>1. ev.tipo = "TURNO_INICIADO" /\ ev.jogador = j /\ ev.rodada = n
  OBVIOUS
<1>2. r = TurnoIniciado(e, ev)
  BY <1>1, Zenon DEF ReduzirEvento
<1>3. r = [f EXCEPT !.ativo = j, !.rodada = n, !.inicio = v]
  BY <1>1, <1>2, Zenon DEF TurnoIniciado
<1>4. Intocados(e, f, CamposDaFase) /\ SemNadaNaFase(f)
  BY FaseLimpa
<1> HIDE DEF f, v
<1>5. r = f3
  BY <1>3, Zenon
<1>6. Intocados(f, f1, {"ativo"}) /\ f1.ativo = j
  BY <1>4, AoTrocar DEF Campos, Intocados
<1> HIDE DEF f1
<1>7. Intocados(f1, f2, {"rodada"}) /\ f2.rodada = n
  BY <1>6, AoTrocar DEF Campos, Intocados
<1> HIDE DEF f2
<1>8. Intocados(f2, f3, {"inicio"}) /\ f3.inicio = v
  BY <1>7, AoTrocar DEF Campos, Intocados
<1> HIDE DEF f3
<1>9. SemNadaNaFase(f) /\ SemNadaNaFase(f1) /\ SemNadaNaFase(f2) /\ SemNadaNaFase(f3)
  BY <1>4, <1>6, <1>7, <1>8 DEF Intocados, Campos, SemNadaNaFase
<1>10. Intocados(e, f3, CamposDaFase \cup {"ativo", "rodada", "inicio"})
  BY <1>4, <1>6, <1>7, <1>8 DEF Intocados, CamposDaFase
<1>11. f3.ativo = j /\ f3.rodada = n
  BY <1>6, <1>7, <1>8 DEF Intocados, Campos
<1>12. QED
  BY <1>5, <1>8, <1>9, <1>10, <1>11 DEF v

LEMMA AoSortear ==
  ASSUME NEW e, Molde(e), NEW S, NEW r,
         r = ReduzirEvento(e, [tipo |-> "PECA_SORTEADA", pecas |-> S])
  PROVE  /\ Intocados(e, r, {"conhecidas", "restam"})
         /\ r.conhecidas = e.conhecidas \cup S
         /\ r.restam = IF e.restam < Cardinality(S \ e.conhecidas) THEN 0
                       ELSE e.restam - Cardinality(S \ e.conhecidas)
<1> DEFINE ev == [tipo |-> "PECA_SORTEADA", pecas |-> S]
           v1 == e.conhecidas \cup S
           v2 == IF e.restam < Cardinality(S \ e.conhecidas) THEN 0
                 ELSE e.restam - Cardinality(S \ e.conhecidas)
           e1 == [e EXCEPT !.conhecidas = v1]
           e2 == [e1 EXCEPT !.restam = v2]
<1>1. ev.tipo = "PECA_SORTEADA" /\ ev.pecas = S /\ DOMAIN e = Campos
  BY DEF Molde
<1>2. r = PecasSorteadas(e, ev)
  BY <1>1, Zenon DEF ReduzirEvento
<1>3. r = [e EXCEPT !.conhecidas = v1, !.restam = v2]
  BY <1>1, <1>2 DEF PecasSorteadas, Campos
<1> HIDE DEF v1, v2
<1>4. r = e2
  BY <1>3, Zenon
<1>5. Intocados(e, e1, {"conhecidas"}) /\ e1.conhecidas = v1
  BY AoTrocar DEF Campos
<1> HIDE DEF e1
<1>6. Intocados(e1, e2, {"restam"}) /\ e2.restam = v2
  BY <1>5, AoTrocar DEF Campos, Intocados
<1> HIDE DEF e2
<1>7. QED
  BY <1>4, <1>5, <1>6 DEF Intocados, Campos, v1, v2

LEMMA AoReceber ==
  ASSUME NEW e, Molde(e), NEW R, NEW r,
         r = ReduzirEvento(e, [tipo |-> "RECEBIMENTO_GERADO", recebidas |-> R])
  PROVE  /\ Intocados(e, r, {"conhecidas", "recebidas"})
         /\ r.conhecidas = e.conhecidas \cup DOMAIN R /\ r.recebidas = R
<1> DEFINE v1 == e.conhecidas \cup DOMAIN R
           e1 == [e EXCEPT !.recebidas = R]
           e2 == [e1 EXCEPT !.conhecidas = v1]
<1>1. DOMAIN e = Campos
  BY DEF Molde
<1>2. r = [e EXCEPT !.recebidas = R, !.conhecidas = v1]
  BY <1>1 DEF ReduzirEvento, Campos
<1> HIDE DEF v1
<1>3. r = e2
  BY <1>2, Zenon
<1>4. Intocados(e, e1, {"recebidas"}) /\ e1.recebidas = R
  BY AoTrocar DEF Campos
<1> HIDE DEF e1
<1>5. Intocados(e1, e2, {"conhecidas"}) /\ e2.conhecidas = v1
  BY <1>4, AoTrocar DEF Campos, Intocados
<1> HIDE DEF e2
<1>6. QED
  BY <1>3, <1>4, <1>5 DEF Intocados, Campos, v1

LEMMA AoEscolher ==
  ASSUME NEW e, Molde(e), NEW p, p \in DOMAIN e.recebidas, NEW v, NEW c, NEW r,
         r = ReduzirEvento(e, [tipo |-> "VAGA_DA_PECA_RECEBIDA_ESCOLHIDO", peca |-> p,
                               vaga |-> v, alvo |-> c])
  PROVE  /\ Intocados(e, r, {"recebidas", "conhecidas", "selecionada"})
         /\ r.recebidas = [e.recebidas EXCEPT ![p].vaga = v, ![p].alvo = c]
         /\ r.conhecidas = e.conhecidas \cup {p} /\ r.selecionada = p
<1> DEFINE ev == [tipo |-> "VAGA_DA_PECA_RECEBIDA_ESCOLHIDO", peca |-> p, vaga |-> v, alvo |-> c]
           v0 == [e.recebidas EXCEPT ![p].vaga = v]
           v1 == [v0 EXCEPT ![p].alvo = c]
           v2 == e.conhecidas \cup {p}
           e0 == [e EXCEPT !.recebidas = v0]
           e1 == [e0 EXCEPT !.recebidas = v1]
           e2 == [e1 EXCEPT !.conhecidas = v2]
           e3 == [e2 EXCEPT !.selecionada = p]
<1>1. /\ ev.tipo = "VAGA_DA_PECA_RECEBIDA_ESCOLHIDO" /\ ev.peca = p /\ ev.vaga = v /\ ev.alvo = c
      /\ DOMAIN e = Campos
  BY DEF Molde
<1>2. r = VagaEscolhida(e, ev)
  BY <1>1, Zenon DEF ReduzirEvento
<1>3. r = [e EXCEPT !.recebidas[p].vaga = v, !.recebidas[p].alvo = c,
                    !.conhecidas = v2, !.selecionada = p]
  BY <1>1, <1>2 DEF VagaEscolhida, Campos
<1>4. [e EXCEPT !.recebidas[p].vaga = v] = e0
  BY <1>1 DEF Campos
<1>5. Intocados(e, e0, {"recebidas"}) /\ e0.recebidas = v0
  BY AoTrocar DEF Campos
<1> HIDE DEF v0, e0
<1>6. [e0 EXCEPT !.recebidas[p].alvo = c] = e1
  BY <1>5 DEF Campos, Intocados, Molde
<1> HIDE DEF v1, v2
<1>7. Intocados(e0, e1, {"recebidas"}) /\ e1.recebidas = v1
  BY <1>5, AoTrocar DEF Campos, Intocados
<1> HIDE DEF e1
<1>8. r = e3
  BY <1>3, <1>4, <1>6, Zenon
<1>9. Intocados(e1, e2, {"conhecidas"}) /\ e2.conhecidas = v2
  BY <1>7, AoTrocar DEF Campos, Intocados
<1> HIDE DEF e2
<1>10. Intocados(e2, e3, {"selecionada"}) /\ e3.selecionada = p
  BY <1>9, AoTrocar DEF Campos, Intocados
<1> HIDE DEF e3
<1>11. v1 = [e.recebidas EXCEPT ![p].vaga = v, ![p].alvo = c]
  BY Zenon DEF v0, v1
<1>12. Intocados(e, e3, {"recebidas", "conhecidas", "selecionada"})
  BY <1>5, <1>7, <1>9, <1>10 DEF Intocados
<1>13. e3.recebidas = v1 /\ e3.conhecidas = v2
  BY <1>5, <1>7, <1>9, <1>10 DEF Intocados, Campos
<1>14. QED
  BY <1>8, <1>10, <1>11, <1>12, <1>13 DEF v2

(* A pawn that acts is known to belong to its Player already.              *)
LEMMA DonoSabido ==
  ASSUME NEW e, Molde(e), NEW D, e.dono = [k \in D |-> k], NEW j \in D, e.ativo = j, j # Nada
  PROVE  Aprendido(e, j) = e
<1>1. Estender(e.dono, e.ativo, j) = e.dono
  BY DEF Estender
<1>2. Aprendido(e, j) = [e EXCEPT !.dono = e.dono]
  BY <1>1 DEF Aprendido, Molde
<1>3. QED
  BY <1>2 DEF Molde

LEMMA AoPisar ==
  ASSUME NEW e, Molde(e), NEW D, e.dono = [k \in D |-> k], NEW j \in D, e.ativo = j, j # Nada,
         NEW ev, ev.peao = j, NEW r, r = ReduzirEvento(e, ev),
         ev.tipo # "PEAO_PERMANECEU" => j \in DOMAIN e.peoes
  PROVE  /\ ev.tipo = "PEAO_POSICIONADO" =>
              /\ Intocados(e, r, {"peoes", "peao"})
              /\ r.peoes = [e.peoes EXCEPT ![j] = ev.celula] /\ r.peao = j
         /\ ev.tipo = "PEAO_MOVIDO" =>
              /\ Intocados(e, r, {"peoes", "peao", "movimentou"})
              /\ r.peoes = [e.peoes EXCEPT ![j] = ev.celula] /\ r.peao = j
         /\ ev.tipo = "PEAO_PERMANECEU" => Intocados(e, r, {"peao"}) /\ r.peao = Nada
<1> DEFINE v == [e.peoes EXCEPT ![j] = ev.celula]
           f == [e EXCEPT !.peoes = v]
<1>1. DOMAIN e = Campos
  BY DEF Molde
<1>2. ev.tipo # "PEAO_PERMANECEU" => PeaoNaCelula(e, ev) = f
  BY <1>1 DEF PeaoNaCelula, Campos
<1>3. Intocados(e, f, {"peoes"}) /\ f.peoes = v
  BY AoTrocar DEF Campos
<1> HIDE DEF f
<1>4. Aprendido(e, j) = e /\ Aprendido(f, j) = f
  <2>1. f.dono = e.dono /\ f.ativo = e.ativo /\ Molde(f)
    BY <1>3 DEF Intocados, Campos
  <2>2. QED
    BY <2>1, DonoSabido
<1>5. CASE ev.tipo = "PEAO_POSICIONADO"
  <2>1. r = [f EXCEPT !.peao = j]
    BY <1>2, <1>4, <1>5 DEF ReduzirEvento, PeaoPosicionado
  <2>2. Intocados(f, r, {"peao"}) /\ r.peao = j
    BY <1>3, <2>1, AoTrocar DEF Campos, Intocados
  <2>3. QED
    BY <1>3, <1>5, <2>2 DEF Intocados, Campos
<1>6. CASE ev.tipo = "PEAO_MOVIDO"
  <2>0. PICK m : m = (f.movimentou \/ e.ativo # Nada)
    OBVIOUS
  <2> DEFINE f1 == [f EXCEPT !.peao = j]
             f2 == [f1 EXCEPT !.movimentou = m]
  <2>1. r = PeaoMovido(e, ev)
    BY <1>6 DEF ReduzirEvento
  <2>2. r = f2
    BY <1>2, <1>3, <1>4, <1>6, <2>0, <2>1 DEF PeaoMovido, Intocados, Molde, Campos
  <2>3. Intocados(f, f1, {"peao"}) /\ f1.peao = j
    BY <1>3, AoTrocar DEF Campos, Intocados
  <2> HIDE DEF f1
  <2>4. Intocados(f1, f2, {"movimentou"})
    <3>1. Molde(f1) /\ "movimentou" \in Campos
      BY <2>3 DEF Campos, Intocados
    <3>2. QED
      BY <3>1, AoTrocar, Zenon
  <2> HIDE DEF f2
  <2>5. QED
    BY <1>3, <1>6, <2>2, <2>3, <2>4 DEF Intocados, Campos
<1>7. CASE ev.tipo = "PEAO_PERMANECEU"
  <2>1. r = [e EXCEPT !.peao = Nada]
    BY <1>4, <1>7 DEF ReduzirEvento
  <2>2. QED
    BY <1>7, <2>1, AoTrocar DEF Campos
<1>8. QED
  BY <1>5, <1>6, <1>7

LEMMA AoLimpar ==
  ASSUME NEW e, Molde(e), NEW S, NEW r,
         r = ReduzirEvento(e, [tipo |-> "LIMPEZA_APLICADA", pecas |-> S])
  PROVE  /\ Intocados(e, r, {"posicionadas", "selecionada", "manipulacao"})
         /\ r.posicionadas = Restringir(e.posicionadas, DOMAIN e.posicionadas \ S)
         /\ r.selecionada = IF e.selecionada \in S THEN Nada ELSE e.selecionada
         /\ r.manipulacao = IF e.manipulacao \in S THEN Nada ELSE e.manipulacao
<1> DEFINE v1 == Restringir(e.posicionadas, DOMAIN e.posicionadas \ S)
           v2 == IF e.selecionada \in S THEN Nada ELSE e.selecionada
           v3 == IF e.manipulacao \in S THEN Nada ELSE e.manipulacao
           e1 == [e EXCEPT !.posicionadas = v1]
           e2 == [e1 EXCEPT !.selecionada = v2]
           e3 == [e2 EXCEPT !.manipulacao = v3]
           ev == [tipo |-> "LIMPEZA_APLICADA", pecas |-> S]
<1>1. DOMAIN e = Campos /\ ev.tipo = "LIMPEZA_APLICADA" /\ ev.pecas = S
  BY DEF Molde
<1>2. r = SemPecas(e, S)
  BY <1>1, Zenon DEF ReduzirEvento
<1>3. r = [e EXCEPT !.posicionadas = v1, !.selecionada = v2, !.manipulacao = v3]
  BY <1>1, <1>2 DEF SemPecas, Campos
<1> HIDE DEF v1, v2, v3
<1>4. r = e3
  BY <1>3, Zenon
<1>5. Intocados(e, e1, {"posicionadas"}) /\ e1.posicionadas = v1
  BY AoTrocar DEF Campos
<1> HIDE DEF e1
<1>6. Intocados(e1, e2, {"selecionada"}) /\ e2.selecionada = v2
  BY <1>5, AoTrocar DEF Campos, Intocados
<1> HIDE DEF e2
<1>7. Intocados(e2, e3, {"manipulacao"}) /\ e3.manipulacao = v3
  BY <1>6, AoTrocar DEF Campos, Intocados
<1> HIDE DEF e3
<1>8. QED
  BY <1>4, <1>5, <1>6, <1>7 DEF Intocados, Campos, v1, v2, v3

-----------------------------------------------------------------------------
(* What an attack, a rescue and a Proteção do to the roster of the mirror. *)

ProtecaoTrocada(m, j, w) == [m EXCEPT ![j].protegido = w]

LEMMA ProtecaoIgnorada ==
  ASSUME NEW m, NEW js, MesmoElenco(m, js), NEW j \in DOMAIN js, NEW w, NEW n, NEW ks,
         n \in {m, ProtecaoTrocada(m, j, w)},
         DOMAIN ks = DOMAIN js,
         \A k \in DOMAIN js : /\ ks[k].sanidade = js[k].sanidade /\ ks[k].baixa = js[k].baixa
                              /\ ks[k].amedrontado = js[k].amedrontado
  PROVE  MesmoElenco(n, ks)
<1>1. m = [k \in DOMAIN js |-> m[k]] /\ \A k \in DOMAIN js : MesmaPercepcao(js[k], m[k])
  BY DEF MesmoElenco
<1>2. n = [k \in DOMAIN js |-> n[k]]
  BY <1>1 DEF ProtecaoTrocada
<1>3. ASSUME NEW k \in DOMAIN js
      PROVE  MesmaPercepcao(ks[k], n[k])
  <2>1. n[k] \in {m[k], [m[k] EXCEPT !.protegido = w]}
    BY <1>1 DEF ProtecaoTrocada
  <2>2. m[k] = [sanidade |-> js[k].sanidade, baixa |-> js[k].baixa,
                amedrontado |-> js[k].amedrontado, protegido |-> m[k].protegido]
    BY <1>1 DEF MesmaPercepcao
  <2> DEFINE a == m[k]
             s == js[k]
  <2> HIDE DEF a, s
  <2>3. a = [sanidade |-> s.sanidade, baixa |-> s.baixa,
             amedrontado |-> s.amedrontado, protegido |-> a.protegido]
    BY <2>2 DEF a, s
  <2>4. [a EXCEPT !.protegido = w] = [sanidade |-> s.sanidade, baixa |-> s.baixa,
                                       amedrontado |-> s.amedrontado, protegido |-> w]
    BY <2>3
  <2>5. n[k] = [sanidade |-> s.sanidade, baixa |-> s.baixa,
                amedrontado |-> s.amedrontado, protegido |-> n[k].protegido]
    BY <2>1, <2>3, <2>4 DEF a
  <2>6. QED
    BY <2>5 DEF MesmaPercepcao, s
<1>4. QED
  BY <1>2, <1>3 DEF MesmoElenco

Confirmado(e, r, j, p, w) ==
  /\ Intocados(e, r, {"confirmada", "geradores", "cartao", "jogadores"})
  /\ r.confirmada = TRUE
  /\ r.geradores = IF Tipo(p) = "gerador" THEN e.geradores \cup {p} ELSE e.geradores
  /\ r.cartao = (e.cartao \/ Tipo(p) = "sala_do_diretor")
  /\ r.jogadores = ProtecaoTrocada(e.jogadores, j, w)

LEMMA AoConfirmar ==
  ASSUME NEW e, Molde(e), NEW j, NEW p, NEW w, j \in DOMAIN e.jogadores, NEW r,
         r = ReduzirEvento(e, [tipo |-> "POSICAO_CONFIRMADA", jogador |-> j, peca |-> p,
                               protegido |-> w])
  PROVE  Confirmado(e, r, j, p, w)
<1> DEFINE ev == [tipo |-> "POSICAO_CONFIRMADA", jogador |-> j, peca |-> p, protegido |-> w]
           v2 == IF Tipo(p) = "gerador" THEN e.geradores \cup {p} ELSE e.geradores
           v4 == ProtecaoTrocada(e.jogadores, j, w)
<1>0. PICK v1, v3 : v1 = TRUE /\ v3 = (e.cartao \/ Tipo(p) = "sala_do_diretor")
  OBVIOUS
<1> DEFINE e1 == [e EXCEPT !.confirmada = v1]
           e2 == [e1 EXCEPT !.geradores = v2]
           e3 == [e2 EXCEPT !.cartao = v3]
           e4 == [e3 EXCEPT !.jogadores = v4]
<1>1. /\ ev.tipo = "POSICAO_CONFIRMADA" /\ ev.jogador = j /\ ev.peca = p /\ ev.protegido = w
      /\ DOMAIN e = Campos
  BY DEF Molde
<1>2. r = PosicaoConfirmada(e, ev)
  BY <1>1, Zenon DEF ReduzirEvento
<1>3. r = [e EXCEPT !.confirmada = v1, !.geradores = v2, !.cartao = v3, !.jogadores = v4]
  BY <1>0, <1>1, <1>2 DEF PosicaoConfirmada, ProtecaoTrocada, Campos
<1> HIDE DEF v2, v4
<1>4. r = e4
  BY <1>3, Zenon
<1>5. Intocados(e, e1, {"confirmada"}) /\ e1.confirmada = v1
  BY AoTrocar DEF Campos
<1> HIDE DEF e1
<1>6. Intocados(e1, e2, {"geradores"}) /\ e2.geradores = v2
  BY <1>5, AoTrocar DEF Campos, Intocados
<1> HIDE DEF e2
<1>7. Intocados(e2, e3, {"cartao"}) /\ e3.cartao = v3
  BY <1>6, AoTrocar DEF Campos, Intocados
<1> HIDE DEF e3
<1>8. Intocados(e3, e4, {"jogadores"}) /\ e4.jogadores = v4
  BY <1>7, AoTrocar DEF Campos, Intocados
<1> HIDE DEF e4
<1>9. Intocados(e, e4, {"confirmada", "geradores", "cartao", "jogadores"})
  BY <1>5, <1>6, <1>7, <1>8 DEF Intocados
<1>10. e4.confirmada = v1 /\ e4.geradores = v2 /\ e4.cartao = v3 /\ e4.jogadores = v4
  BY <1>5, <1>6, <1>7, <1>8 DEF Intocados, Campos
<1>11. QED
  BY <1>0, <1>4, <1>9, <1>10 DEF Confirmado, v2, v4

(* What an attack makes of one Player.                                     *)
Atingir(s, vulto, espectro) ==
  LET u == IF vulto THEN [s EXCEPT !.baixa = TRUE] ELSE s
  IN  IF s.protegido THEN [s EXCEPT !.protegido = ~(vulto \/ espectro)]
      ELSE IF espectro THEN AposEspectro(u) ELSE u

LEMMA Golpe ==
  ASSUME NEW s \in Jogador, NEW v \in BOOLEAN, NEW x \in BOOLEAN
  PROVE  LET n == Atingir(s, v, x)
         IN  /\ s.protegido \/ ~v => n.baixa = s.baixa
             /\ s.protegido \/ ~x => n.sanidade = s.sanidade /\ n.amedrontado = s.amedrontado
<1>1. DOMAIN s = {"primeiroTurno", "sanidade", "protegido", "baixa", "amedrontado"}
  BY DEF Jogador
<1> DEFINE u == IF v THEN [s EXCEPT !.baixa = TRUE] ELSE s
<1>2. /\ DOMAIN u = DOMAIN s /\ u.sanidade = s.sanidade /\ u.amedrontado = s.amedrontado
      /\ u.protegido = s.protegido /\ (~v => u = s)
  BY <1>1
<1> HIDE DEF u
<1>3. AposEspectro(u).baixa = u.baixa
  BY <1>1, <1>2 DEF AposEspectro
<1>4. CASE s.protegido
  <2>1. Atingir(s, v, x) = [s EXCEPT !.protegido = ~(v \/ x)]
    BY <1>4 DEF Atingir
  <2>2. QED
    BY <1>1, <2>1
<1>5. CASE ~s.protegido
  <2>1. Atingir(s, v, x) = IF x THEN AposEspectro(u) ELSE u
    BY <1>5 DEF Atingir, u
  <2>2. QED
    BY <1>2, <1>3, <1>5, <2>1
<1>6. QED
  BY <1>4, <1>5

LEMMA AoAtacar ==
  ASSUME NEW e, Molde(e), NEW t, NEW js \in Elencos, MesmoElenco(e.jogadores, js),
         NEW inicio, NEW decidida, NEW r, r = ReduzirEventos(e, Ataque(t, js, inicio, decidida))
  PROVE  /\ Intocados(e, r, {"jogadores"})
         /\ MesmoElenco(r.jogadores, Atacados(t, js, inicio, decidida))
<1> DEFINE feridos == Atacados(t, js, inicio, decidida)
           D == DOMAIN js
           A == Atacantes(t, inicio, decidida)
           Por(tipo, j) == \E m \in A : Tipo(m) = tipo /\ t.peoes[j] \in CalcularAlcance(t, m)
           slots == {[tipo |-> Tipo(m),
                      alcance |-> {j \in DOMAIN js : t.peoes[j] \in CalcularAlcance(t, m)}] :
                       m \in Atacantes(t, inicio, decidida)}
           noAlcance == UNION {s.alcance : s \in slots}
           mudados == {j \in noAlcance :
                         ~js[j].protegido /\ PercepcaoDe(feridos[j]) # PercepcaoDe(js[j])}
           atingidos == {j \in noAlcance : ~js[j].protegido}
           estados == [j \in mudados |-> PercepcaoDe(feridos[j])]
           ev == [tipo |-> "ATAQUE_RESOLVIDO", atacantes |-> slots,
                  atingidos  |-> {j \in noAlcance : ~js[j].protegido},
                  protegidos |-> {j \in noAlcance : js[j].protegido},
                  estados    |-> [j \in mudados |-> PercepcaoDe(feridos[j])]]
<1>1. Ataque(t, js, inicio, decidida) = Se(slots # {}, ev)
  BY DEF Ataque
<1>2. /\ ev.tipo = "ATAQUE_RESOLVIDO" /\ ev.atacantes = slots /\ ev.atingidos = atingidos
      /\ ev.estados = estados
  OBVIOUS
<1>3. ASSUME NEW j \in D, NEW tipo
      PROVE  /\ (\E s \in slots : s.tipo = tipo /\ j \in s.alcance) <=> Por(tipo, j)
             /\ Por(tipo, j) => j \in noAlcance
  <2> DEFINE S(m) == [tipo |-> Tipo(m),
                      alcance |-> {k \in D : t.peoes[k] \in CalcularAlcance(t, m)}]
  <2>1. \A m : S(m).tipo = Tipo(m) /\ (j \in S(m).alcance <=> t.peoes[j] \in CalcularAlcance(t, m))
    OBVIOUS
  <2>2. slots = {S(m) : m \in A}
    OBVIOUS
  <2> HIDE DEF S, slots
  <2>3. (\E s \in slots : s.tipo = tipo /\ j \in s.alcance) <=> Por(tipo, j)
    BY <2>1, <2>2
  <2>4. (\E s \in slots : j \in s.alcance) => j \in noAlcance
    OBVIOUS
  <2>5. QED
    BY <2>3, <2>4
<1>4. ASSUME NEW j \in D
      PROVE  feridos[j] = Atingir(js[j], Por("vulto", j), Por("espectro", j))
  BY DEF Atacados, Atingir
<1>5. DOMAIN feridos = D /\ \A j \in D : js[j] \in Jogador
  BY ElencoDe DEF Atacados
<1> DEFINE m == e.jogadores
<1>6. m = [j \in D |-> m[j]] /\ \A j \in D : MesmaPercepcao(js[j], m[j])
  BY DEF MesmoElenco
<1> HIDE DEF feridos, slots, noAlcance, ev, A, D, Por, m
<1>7. ASSUME NEW j \in D
      PROVE  /\ js[j].protegido \/ ~Por("vulto", j) => feridos[j].baixa = js[j].baixa
             /\ js[j].protegido \/ ~Por("espectro", j) =>
                  /\ feridos[j].sanidade = js[j].sanidade
                  /\ feridos[j].amedrontado = js[j].amedrontado
  <2>1. PICK v \in BOOLEAN, x \in BOOLEAN : v = Por("vulto", j) /\ x = Por("espectro", j)
    BY DEF Por
  <2>2. feridos[j] = Atingir(js[j], v, x)
    BY <1>4, <2>1
  <2>3. QED
    BY <1>5, <2>1, <2>2, Golpe
<1>8. CASE slots = {}
  <2>1. Ataque(t, js, inicio, decidida) = << >>
    BY <1>1, <1>8 DEF Se
  <2>2. r = e
    BY <2>1, DobraVazia
  <2>3. \A j \in D : ~Por("vulto", j) /\ ~Por("espectro", j)
    BY <1>3, <1>8
  <2>4. \A j \in D : MesmaPercepcao(feridos[j], m[j])
    BY <1>6, <1>7, <2>3 DEF MesmaPercepcao
  <2>5. QED
    BY <1>5, <1>6, <2>2, <2>4 DEF MesmoElenco, Intocados, feridos, m
<1>9. CASE slots # {}
  <2> DEFINE Ferido(j) == j \in DOMAIN ev.estados
             Fatias(j) ==
               [sanidade    |-> IF Ferido(j) /\ AtingidoPor(ev, "espectro", j)
                                THEN ev.estados[j].sanidade ELSE m[j].sanidade,
                baixa       |-> IF Ferido(j) /\ AtingidoPor(ev, "vulto", j)
                                THEN ev.estados[j].baixa ELSE m[j].baixa,
                amedrontado |-> IF Ferido(j) /\ AtingidoPor(ev, "espectro", j)
                                THEN ev.estados[j].amedrontado ELSE m[j].amedrontado,
                protegido   |-> m[j].protegido /\ j \notin ev.protegidos]
             v == [j \in D |-> Fatias(j)]
  <2>1. r = ReduzirEvento(e, ev)
    BY <1>1, <1>9, DobraUm DEF Se
  <2>2. r = AtaqueResolvido(e, ev)
    BY <1>2, <2>1, Zenon DEF ReduzirEvento
  <2>3. r = [e EXCEPT !.jogadores = v]
    <3>1. DOMAIN m = D
      BY <1>6
    <3>2. r = [e EXCEPT !.jogadores = [j \in DOMAIN m |-> Fatias(j)]]
      BY <2>2, Zenon DEF AtaqueResolvido, m
    <3>3. QED
      BY <3>1, <3>2
  <2> HIDE DEF v
  <2>4. Intocados(e, r, {"jogadores"}) /\ r.jogadores = v
    BY <2>3, AoTrocar DEF Campos
  <2>5. ASSUME NEW j \in D
        PROVE  MesmaPercepcao(feridos[j], Fatias(j))
    <3>1. \A tipo : AtingidoPor(ev, tipo, j) <=> Por(tipo, j) /\ ~js[j].protegido
      BY <1>2, <1>3 DEF AtingidoPor
    <3>2. Ferido(j) <=> j \in noAlcance /\ ~js[j].protegido
                        /\ PercepcaoDe(feridos[j]) # PercepcaoDe(js[j])
      BY <1>2
    <3>3. Ferido(j) => ev.estados[j] = PercepcaoDe(feridos[j])
      BY <1>2
    <3>4. Por("vulto", j) \/ Por("espectro", j) => j \in noAlcance
      BY <1>3
    <3>5. /\ m[j].sanidade = js[j].sanidade /\ m[j].baixa = js[j].baixa
          /\ m[j].amedrontado = js[j].amedrontado
      BY <1>6 DEF MesmaPercepcao
    <3> DEFINE f == feridos[j]
               s == js[j]
               n == Fatias(j)
    <3>6. n.sanidade = f.sanidade
      <4>1. CASE Ferido(j) /\ Por("espectro", j) /\ ~s.protegido
        BY <3>1, <3>3, <4>1 DEF PercepcaoDe
      <4>2. CASE ~Ferido(j) /\ Por("espectro", j) /\ ~s.protegido
        BY <3>1, <3>2, <3>4, <3>5, <4>2 DEF PercepcaoDe
      <4>3. CASE ~(Por("espectro", j) /\ ~s.protegido)
        BY <1>7, <3>1, <3>5, <4>3
      <4>4. QED
        BY <4>1, <4>2, <4>3
    <3>7. n.amedrontado = f.amedrontado
      <4>1. CASE Ferido(j) /\ Por("espectro", j) /\ ~s.protegido
        BY <3>1, <3>3, <4>1 DEF PercepcaoDe
      <4>2. CASE ~Ferido(j) /\ Por("espectro", j) /\ ~s.protegido
        BY <3>1, <3>2, <3>4, <3>5, <4>2 DEF PercepcaoDe
      <4>3. CASE ~(Por("espectro", j) /\ ~s.protegido)
        BY <1>7, <3>1, <3>5, <4>3
      <4>4. QED
        BY <4>1, <4>2, <4>3
    <3>8. n.baixa = f.baixa
      <4>1. CASE Ferido(j) /\ Por("vulto", j) /\ ~s.protegido
        BY <3>1, <3>3, <4>1 DEF PercepcaoDe
      <4>2. CASE ~Ferido(j) /\ Por("vulto", j) /\ ~s.protegido
        BY <3>1, <3>2, <3>4, <3>5, <4>2 DEF PercepcaoDe
      <4>3. CASE ~(Por("vulto", j) /\ ~s.protegido)
        BY <1>7, <3>1, <3>5, <4>3
      <4>4. QED
        BY <4>1, <4>2, <4>3
    <3>9. n = [sanidade |-> n.sanidade, baixa |-> n.baixa, amedrontado |-> n.amedrontado,
               protegido |-> n.protegido]
      OBVIOUS
    <3> HIDE DEF n, f
    <3>10. QED
      BY <3>6, <3>7, <3>8, <3>9 DEF MesmaPercepcao, n, f
  <2> HIDE DEF Fatias
  <2>6. v = [j \in D |-> v[j]] /\ \A j \in D : MesmaPercepcao(feridos[j], v[j])
    BY <2>5 DEF v
  <2>7. QED
    BY <1>5, <2>4, <2>6 DEF MesmoElenco, feridos
<1>10. QED
  BY <1>8, <1>9

LEMMA AoResgatarUm ==
  ASSUME NEW e, Molde(e), NEW js, NEW c \in Jogador, Sadio(c), NEW k \in DOMAIN js,
         e.jogadores = [j \in DOMAIN js |-> e.jogadores[j]], MesmaPercepcao(js[k], e.jogadores[k]),
         NEW p, NEW r, r = ReduzirEvento(e, [tipo |-> "RESGATE_REALIZADO", jogador |-> k, peca |-> p,
                                             sanidade |-> c.sanidade, baixa |-> c.baixa])
  PROVE  /\ Intocados(e, r, {"jogadores"})
         /\ r.jogadores = [j \in DOMAIN js |-> r.jogadores[j]]
         /\ MesmaPercepcao(c, r.jogadores[k])
         /\ \A j \in DOMAIN js \ {k} : r.jogadores[j] = e.jogadores[j]
<1> DEFINE ev == [tipo |-> "RESGATE_REALIZADO", jogador |-> k, peca |-> p,
                  sanidade |-> c.sanidade, baixa |-> c.baixa]
           m == e.jogadores
           a == m[k]
           D == DOMAIN js
<1>0. PICK w : w = (c.sanidade = 0) /\ w = c.amedrontado
  <2>1. c.amedrontado \in BOOLEAN
    BY DEF Jogador
  <2>2. QED
    BY <2>1 DEF Sadio
<1> DEFINE b == [a EXCEPT !.sanidade = c.sanidade, !.baixa = c.baixa, !.amedrontado = w]
           v == [m EXCEPT ![k] = b]
<1>1. /\ ev.tipo = "RESGATE_REALIZADO" /\ ev.jogador = k /\ ev.sanidade = c.sanidade
      /\ ev.baixa = c.baixa /\ DOMAIN e = Campos /\ DOMAIN m = D
  BY DEF Molde
<1>2. r = ResgateRealizado(e, ev)
  BY <1>1, Zenon DEF ReduzirEvento
<1>3. r = [e EXCEPT !.jogadores[k] = [@ EXCEPT !.sanidade = c.sanidade, !.baixa = c.baixa,
                                               !.amedrontado = (c.sanidade = 0)]]
  BY <1>1, <1>2, Zenon DEF ResgateRealizado
<1>4. r = [e EXCEPT !.jogadores = v]
  BY <1>0, <1>1, <1>3 DEF Campos
<1>5. b = [sanidade |-> c.sanidade, baixa |-> c.baixa, amedrontado |-> w,
           protegido |-> a.protegido]
  <2>1. PICK s : s = js[k]
    OBVIOUS
  <2>2. a = [sanidade |-> s.sanidade, baixa |-> s.baixa, amedrontado |-> s.amedrontado,
             protegido |-> a.protegido]
    BY <2>1 DEF MesmaPercepcao
  <2> DEFINE a1 == [a EXCEPT !.sanidade = c.sanidade]
             a2 == [a1 EXCEPT !.baixa = c.baixa]
             a3 == [a2 EXCEPT !.amedrontado = w]
  <2>3. b = a3
    BY Zenon
  <2> HIDE DEF a, b
  <2>4. a1 = [sanidade |-> c.sanidade, baixa |-> s.baixa, amedrontado |-> s.amedrontado,
              protegido |-> a.protegido]
    BY <2>2
  <2> HIDE DEF a1
  <2>5. a2 = [sanidade |-> c.sanidade, baixa |-> c.baixa, amedrontado |-> s.amedrontado,
              protegido |-> a.protegido]
    BY <2>4
  <2> HIDE DEF a2
  <2>6. a3 = [sanidade |-> c.sanidade, baixa |-> c.baixa, amedrontado |-> w,
              protegido |-> a.protegido]
    BY <2>5
  <2>7. QED
    BY <2>3, <2>6
<1> HIDE DEF a, b
<1>6. v = [j \in D |-> v[j]] /\ v[k] = b /\ \A j \in D \ {k} : v[j] = m[j]
  BY <1>1
<1> HIDE DEF v
<1>7. Intocados(e, r, {"jogadores"}) /\ r.jogadores = v
  BY <1>4, AoTrocar DEF Campos
<1>8. MesmaPercepcao(c, b)
  BY <1>0, <1>5 DEF MesmaPercepcao
<1>9. QED
  BY <1>6, <1>7, <1>8

ResgatesDe(cs, p, T) ==
  {[tipo |-> "RESGATE_REALIZADO", jogador |-> k, peca |-> p,
    sanidade |-> cs[k].sanidade, baixa |-> cs[k].baixa] : k \in T}

Alcancado(q, n, x) == \E i \in 1..n : q[i] = x

LEMMA TodosEmOrdem ==
  ASSUME NEW S, IsFiniteSet(S), NEW q, NEW n, q = EmOrdem(S), n = Cardinality(S)
  PROVE  /\ n \in Nat /\ Len(q) = n /\ \A i \in 1..n : q[i] \in S
         /\ \A x \in S : Alcancado(q, n, x)
<1>1. q \in [1..n -> S] /\ n \in Nat /\ Len(q) = n
  BY EmSequencia
<1>2. \A x \in S : \E i \in 1..n : q[i] = x
  BY EmSequencia
<1>3. QED
  BY <1>1, <1>2 DEF Alcancado

LEMMA AoResgatar ==
  ASSUME NEW e, Molde(e), NEW js \in Elencos, MesmoElenco(e.jogadores, js),
         NEW cs \in Elencos, DOMAIN cs = DOMAIN js, \A j \in DOMAIN cs : Sadio(cs[j]),
         NEW p, NEW T, T = {x \in DOMAIN js : cs[x] # js[x]}, NEW S,
         S = ResgatesDe(cs, p, T), NEW r, r = ReduzirEventos(e, EmOrdem(S))
  PROVE  Intocados(e, r, {"jogadores"}) /\ MesmoElenco(r.jogadores, cs)
<1> DEFINE R(k) == [tipo |-> "RESGATE_REALIZADO", jogador |-> k, peca |-> p,
                    sanidade |-> cs[k].sanidade, baixa |-> cs[k].baixa]
           D == DOMAIN js
<1>1. S = {R(k) : k \in T} /\ \A k : R(k).jogador = k
  BY DEF ResgatesDe
<1>2. IsFiniteSet(S)
  <2> DEFINE f == [k \in T |-> R(k)]
  <2>1. T \in SUBSET D /\ DOMAIN f = T /\ \A k \in T : f[k].tipo = "RESGATE_REALIZADO"
    OBVIOUS
  <2>2. S = {f[k] : k \in T}
    BY DEF ResgatesDe
  <2> HIDE DEF f
  <2>3. IsFiniteSet({f[k] : k \in T})
    BY <2>1, ResgatesTipados, Zenon
  <2>4. QED
    BY <2>2, <2>3
<1> HIDE DEF R
<1>30. PICK q, n : q = EmOrdem(S) /\ n = Cardinality(S)
  OBVIOUS
<1>31. n \in Nat /\ Len(q) = n /\ \A i \in 1..n : q[i] \in S
  BY <1>2, <1>30, TodosEmOrdem
<1>32. \A x \in S : Alcancado(q, n, x)
  BY <1>2, <1>30, TodosEmOrdem
<1>3. /\ n \in Nat /\ Len(q) = n /\ \A i \in 1..n : q[i] \in S
      /\ \A x \in S : \E i \in 1..n : q[i] = x
  BY <1>31, <1>32 DEF Alcancado
<1>4. PICK f : Dobras(f, e, q)
  BY <1>3, TemDobras
<1>5. f[0] = e /\ r = f[n] /\ \A i \in 1..n : f[i] = ReduzirEvento(f[i - 1], q[i])
  <2>1. r = f[Len(q)]
    BY <1>3, <1>30, <1>4, DobraUnica
  <2>2. QED
    BY <1>3, <1>4, <2>1 DEF Dobras
<1> DEFINE Salvo(i, j) == \E l \in 1..i : q[l].jogador = j
           m(i) == f[i].jogadores
           P(i) == /\ Intocados(e, f[i], {"jogadores"})
                   /\ m(i) = [j \in D |-> m(i)[j]]
                   /\ \A j \in D : MesmaPercepcao(IF Salvo(i, j) THEN cs[j] ELSE js[j], m(i)[j])
<1>6. P(0)
  BY <1>5 DEF MesmoElenco, Intocados
<1>7. ASSUME NEW i \in 1..n, P(i - 1)
      PROVE  P(i)
  <2>1. PICK k \in T : q[i] = R(k)
    BY <1>1, <1>3
  <2>2. k \in D /\ cs[k] \in Jogador /\ Sadio(cs[k])
    BY ElencoDe
  <2> DEFINE g == f[i - 1]
             ks == [j \in D |-> IF Salvo(i - 1, j) THEN cs[j] ELSE js[j]]
  <2>3. /\ Molde(g) /\ Intocados(e, g, {"jogadores"})
        /\ g.jogadores = [j \in D |-> g.jogadores[j]]
        /\ \A j \in D : MesmaPercepcao(ks[j], g.jogadores[j])
    BY <1>7 DEF Intocados
  <2>4. DOMAIN ks = D
    OBVIOUS
  <2>5. f[i] = ReduzirEvento(g, R(k))
    BY <1>5, <2>1
  <2> HIDE DEF g
  <2>6. /\ Intocados(g, f[i], {"jogadores"})
        /\ m(i) = [j \in D |-> m(i)[j]]
        /\ MesmaPercepcao(cs[k], m(i)[k])
        /\ \A j \in D \ {k} : m(i)[j] = g.jogadores[j]
    <3> HIDE DEF ks
    <3>1. QED
      BY <2>2, <2>3, <2>4, <2>5, AoResgatarUm DEF R
  <2>7. \A j \in D : Salvo(i, j) <=> Salvo(i - 1, j) \/ j = k
    <3>1. q[i].jogador = k
      BY <1>1, <2>1
    <3>2. 1..i = (1..(i - 1)) \cup {i} /\ i \in Nat
      BY <1>3
    <3>3. QED
      BY <3>1, <3>2
  <2>8. ASSUME NEW j \in D
        PROVE  MesmaPercepcao(IF Salvo(i, j) THEN cs[j] ELSE js[j], m(i)[j])
    <3> HIDE DEF Salvo, m
    <3>1. CASE j = k
      BY <2>6, <2>7, <3>1
    <3>2. CASE j # k
      BY <2>3, <2>6, <2>7, <3>2
    <3>3. QED
      BY <3>1, <3>2
  <2>9. Intocados(e, f[i], {"jogadores"})
    BY <2>3, <2>6 DEF Intocados
  <2>10. QED
    BY <2>6, <2>8, <2>9
<1> HIDE DEF P
<1>8. P(n)
  <2> DEFINE F == {i \in 0..n : ~P(i)}
  <2>1. SUFFICES ASSUME F # {} PROVE FALSE
    BY <1>3
  <2>2. PICK x \in F : \A y \in F : x <= y
    <3>1. F \in SUBSET Nat
      BY <1>3
    <3>2. QED
      BY <2>1, <3>1, PrimeiroNatural
  <2>3. x # 0 /\ x \in 1..n /\ x - 1 \in 0..n
    BY <1>3, <1>6, <2>2
  <2>4. P(x - 1)
    BY <1>3, <2>2, <2>3
  <2>5. QED
    BY <1>7, <2>2, <2>3, <2>4
<1>9. \A j \in D : ~Salvo(n, j) => cs[j] = js[j]
  <2>1. SUFFICES ASSUME NEW j \in D, cs[j] # js[j] PROVE Salvo(n, j)
    OBVIOUS
  <2>2. R(j) \in S
    BY <1>1, <2>1
  <2>3. PICK i \in 1..n : q[i] = R(j)
    BY <1>3, <2>2
  <2>4. QED
    BY <1>1, <2>3
<1>10. \A j \in D : MesmaPercepcao(cs[j], m(n)[j])
  <2>1. \A j \in D : MesmaPercepcao(IF Salvo(n, j) THEN cs[j] ELSE js[j], m(n)[j])
    BY <1>8 DEF P
  <2> HIDE DEF Salvo, m
  <2>2. QED
    BY <1>9, <2>1
<1>11. QED
  BY <1>5, <1>8, <1>10 DEF P, MesmoElenco

-----------------------------------------------------------------------------
(* What the parts of a lot do to the mirror.                               *)

LEMMA Nenhum ==
  ASSUME NEW e, Molde(e), NEW X
  PROVE  Intocados(e, e, X)
BY DEF Intocados

LEMMA AoFinalizar ==
  ASSUME NEW e, Molde(e), e.manipulacao \in {Nada, tab.manipulacao},
         NEW r, r = ReduzirEventos(e, Finalizada)
  PROVE  EhLote(Finalizada) /\ Intocados(e, r, {"manipulacao"}) /\ r.manipulacao = Nada
<1> DEFINE ev == [tipo |-> "MANIPULACAO_FINALIZADA", peca |-> tab.manipulacao]
<1>1. CASE tab.manipulacao = Nada
  <2>1. Finalizada = << >>
    BY <1>1 DEF Finalizada, Se
  <2>2. QED
    BY <1>1, <2>1, DobraVazia, Nenhum
<1>2. CASE tab.manipulacao # Nada
  <2>1. Finalizada = << ev >>
    BY <1>2 DEF Finalizada, Se
  <2>2. ev.tipo = "MANIPULACAO_FINALIZADA" /\ ev.peca = tab.manipulacao
    OBVIOUS
  <2> HIDE DEF ev
  <2>3. r = ReduzirEvento(e, ev) /\ EhLote(Finalizada)
    BY <2>1, DobraUm
  <2>4. Intocados(e, r, {"manipulacao"})
        /\ r.manipulacao = IF e.manipulacao = ev.peca THEN Nada ELSE e.manipulacao
    BY <2>2, <2>3, AoSelecionar, Zenon
  <2>5. QED
    BY <2>2, <2>3, <2>4
<1>3. QED
  BY <1>1, <1>2

LEMMA LuzVista ==
  ASSUME NEW e, Molde(e), NEW c, NEW r,
         r = ReduzirEvento(e, [tipo |-> "CELULAS_ILUMINADAS", celulas |-> c])
  PROVE  Intocados(e, r, {"iluminadas"}) /\ r.iluminadas = c
<1> DEFINE ev == [tipo |-> "CELULAS_ILUMINADAS", celulas |-> c]
<1>1. ev.tipo = "CELULAS_ILUMINADAS" /\ ev.celulas = c /\ r = ReduzirEvento(e, ev)
  OBVIOUS
<1> HIDE DEF ev
<1>2. r = [e EXCEPT !.iluminadas = c]
  BY <1>1 DEF ReduzirEvento
<1>3. QED
  BY <1>2, AoTrocar DEF Campos

LEMMA AoIluminar ==
  ASSUME NEW e, Molde(e), e.iluminadas = iluminadas, e.posicionadas = tab.posicionadas,
         Mesa(tab') \subseteq Mesa(tab),
         tab.posicionadas = [p \in Mesa(tab) |-> tab.posicionadas[p]],
         NEW r, r = ReduzirEventos(e, LuzELimpeza)
  PROVE  LET S == Mesa(tab) \ Mesa(tab')
         IN  /\ EhLote(LuzELimpeza)
             /\ Intocados(e, r, {"iluminadas", "posicionadas", "selecionada", "manipulacao"})
             /\ r.iluminadas = iluminadas'
             /\ r.posicionadas = Restringir(tab.posicionadas, Mesa(tab'))
             /\ r.selecionada = (IF e.selecionada \in S THEN Nada ELSE e.selecionada)
             /\ r.manipulacao = (IF e.manipulacao \in S THEN Nada ELSE e.manipulacao)
<1> DEFINE S == Mesa(tab) \ Mesa(tab')
           ev == [tipo |-> "CELULAS_ILUMINADAS", celulas |-> iluminadas']
           fv == [tipo |-> "LIMPEZA_APLICADA", pecas |-> S]
           luz == Se(iluminadas' # iluminadas, ev)
           limpeza == Se(~(Mesa(tab) \subseteq Mesa(tab')), fv)
           f == ReduzirEventos(e, luz)
<1>1. LuzELimpeza = luz \o limpeza
  BY DEF LuzELimpeza
<1>2. ev.tipo = "CELULAS_ILUMINADAS" /\ ev.celulas = iluminadas'
  OBVIOUS
<1>3. EhLote(luz) /\ Intocados(e, f, {"iluminadas"}) /\ f.iluminadas = iluminadas'
  <2> HIDE DEF ev
  <2>1. CASE iluminadas' # iluminadas
    <3>1. luz = << ev >>
      BY <2>1 DEF Se
    <3>2. EhLote(luz) /\ f = ReduzirEvento(e, ev)
      BY <3>1, DobraUm
    <3> HIDE DEF f, luz
    <3>3. Intocados(e, f, {"iluminadas"}) /\ f.iluminadas = iluminadas'
      BY <3>2, LuzVista DEF ev
    <3>4. QED
      BY <3>2, <3>3
  <2>2. CASE iluminadas' = iluminadas
    <3>1. luz = << >>
      BY <2>2 DEF Se
    <3>2. EhLote(luz) /\ f = e
      BY <3>1, DobraVazia
    <3> HIDE DEF f, luz
    <3>3. QED
      BY <2>2, <3>2, Nenhum
  <2>3. QED
    BY <2>1, <2>2
<1>4. Molde(f) /\ f.posicionadas = tab.posicionadas /\ f.selecionada = e.selecionada
      /\ f.manipulacao = e.manipulacao
  BY <1>3 DEF Intocados, Campos
<1> HIDE DEF ev, luz, f
<1> DEFINE g == ReduzirEventos(f, limpeza)
<1>5. /\ EhLote(limpeza) /\ Intocados(f, g, {"posicionadas", "selecionada", "manipulacao"})
      /\ g.posicionadas = Restringir(tab.posicionadas, Mesa(tab'))
      /\ g.selecionada = (IF e.selecionada \in S THEN Nada ELSE e.selecionada)
      /\ g.manipulacao = (IF e.manipulacao \in S THEN Nada ELSE e.manipulacao)
  <2>1. Mesa(tab) \ S = Mesa(tab') /\ DOMAIN tab.posicionadas = Mesa(tab)
    BY DEF Mesa
  <2>2. CASE ~(Mesa(tab) \subseteq Mesa(tab'))
    <3>1. limpeza = << fv >>
      BY <2>2 DEF Se
    <3>2. EhLote(limpeza) /\ g = ReduzirEvento(f, fv)
      BY <3>1, DobraUm
    <3> HIDE DEF S, g, limpeza
    <3>3. QED
      BY <1>4, <2>1, <3>2, AoLimpar
  <2>3. CASE Mesa(tab) \subseteq Mesa(tab')
    <3>1. limpeza = << >>
      BY <2>3 DEF Se
    <3>2. EhLote(limpeza) /\ g = f
      BY <3>1, DobraVazia
    <3>3. Mesa(tab') = Mesa(tab) /\ S = {}
      BY <2>3
    <3>4. Restringir(tab.posicionadas, Mesa(tab')) = tab.posicionadas
      BY <3>3 DEF Restringir
    <3> HIDE DEF S, g, limpeza
    <3>5. QED
      BY <1>4, <3>2, <3>3, <3>4, Nenhum
  <2>4. QED
    BY <2>2, <2>3
<1>6. r = g /\ EhLote(LuzELimpeza)
  <2> HIDE DEF limpeza, fv
  <2>1. QED
    BY <1>1, <1>3, <1>5, DobraJunta DEF f
<1> HIDE DEF g, limpeza
<1>7. Intocados(e, g, {"iluminadas", "posicionadas", "selecionada", "manipulacao"})
      /\ g.iluminadas = iluminadas'
  BY <1>3, <1>5 DEF Intocados, Campos
<1>8. QED
  BY <1>5, <1>6, <1>7

(* n drew from the Caixa of t what n has pending, if anything.             *)
Sorteou(t, n) ==
  /\ PecasDa(n.caixa) \subseteq PecasDa(t.caixa) /\ Pendentes(n) \subseteq PecasDa(t.caixa)
  /\ Cardinality(Pendentes(n)) \in Nat
  /\ Len(t.caixa) = Len(n.caixa) + Cardinality(Pendentes(n)) /\ Len(n.caixa) \in Nat

LEMMA DoisJuntos ==
  ASSUME NEW a, NEW b
  PROVE  << a, b >> = << a >> \o << b >>
<1> DEFINE S == {a, b}
           s == << a >>
           t == << b >>
           u == << a, b >>
<1>1. s \in Seq(S) /\ t \in Seq(S) /\ u \in Seq(S) /\ Len(s) = 1 /\ Len(t) = 1 /\ Len(u) = 2
      /\ s[1] = a /\ t[1] = b /\ u[1] = a /\ u[2] = b
  OBVIOUS
<1> HIDE DEF s, t, u, S
<1>2. s \o t \in Seq(S) /\ Len(s \o t) = 2 /\ (s \o t)[1] = a /\ (s \o t)[2] = b
  <2>1. /\ s \o t \in Seq(S) /\ Len(s \o t) = Len(s) + Len(t)
        /\ \A i \in 1..Len(s) + Len(t) : (s \o t)[i] = IF i <= Len(s) THEN s[i] ELSE t[i - Len(s)]
    BY <1>1, ConcatProperties
  <2>2. QED
    BY <1>1, <2>1
<1> DEFINE v == s \o t
<1>3. v \in Seq(S) /\ Len(v) = Len(u) /\ Len(u) = 2 /\ \A i \in 1..Len(u) : v[i] = u[i]
  BY <1>1, <1>2
<1> HIDE DEF v
<1>4. v = u
  BY <1>1, <1>3, SeqEqual
<1>5. QED
  BY <1>4 DEF s, t, u, v

(* A draw of P, in the mirror.                                             *)
LEMMA AoComprar ==
  ASSUME NEW e, Molde(e), NEW P, NEW R, DOMAIN R = P, e.conhecidas \cap P = {},
         NEW n \in Nat, n = Cardinality(P), NEW k \in Nat, NEW m \in Nat, e.restam = k, k = m + n,
         NEW f, f = ReduzirEvento(e, [tipo |-> "PECA_SORTEADA", pecas |-> P]),
         NEW g, g = ReduzirEvento(f, [tipo |-> "RECEBIMENTO_GERADO", recebidas |-> R])
  PROVE  /\ Intocados(e, g, {"conhecidas", "restam", "recebidas"})
         /\ g.recebidas = R /\ g.restam = m /\ g.conhecidas = e.conhecidas \cup P
<1>1. P \ e.conhecidas = P
  OBVIOUS
<1>2. /\ Intocados(e, f, {"conhecidas", "restam"}) /\ f.conhecidas = e.conhecidas \cup P
      /\ f.restam = IF e.restam < Cardinality(P \ e.conhecidas) THEN 0
                    ELSE e.restam - Cardinality(P \ e.conhecidas)
  BY AoSortear
<1>3. f.restam = IF k < n THEN 0 ELSE k - n
  BY <1>1, <1>2
<1>4. f.restam = m
  BY <1>3
<1>5. Molde(f)
  BY <1>2 DEF Intocados
<1>6. /\ Intocados(f, g, {"conhecidas", "recebidas"})
      /\ g.conhecidas = f.conhecidas \cup DOMAIN R /\ g.recebidas = R
  BY <1>5, AoReceber
<1>7. QED
  BY <1>2, <1>4, <1>6 DEF Intocados, Campos

LEMMA AoGerar ==
  ASSUME NEW e, Molde(e), Pendentes(tab) = {}, e.restam = Len(tab.caixa),
         e.recebidas = << >>, Pendentes(tab') = {} => tab'.recebidas = << >>,
         e.conhecidas \cap PecasDa(tab.caixa) = {}, Sorteou(tab, tab'),
         NEW r, r = ReduzirEventos(e, Sorteio)
  PROVE  /\ EhLote(Sorteio) /\ Intocados(e, r, {"conhecidas", "restam", "recebidas"})
         /\ r.recebidas = tab'.recebidas /\ r.restam = Len(tab'.caixa)
         /\ r.conhecidas = e.conhecidas \cup Pendentes(tab')
<1> DEFINE P == Pendentes(tab')
           R == tab'.recebidas
           ev == [tipo |-> "PECA_SORTEADA", pecas |-> P]
           fv == [tipo |-> "RECEBIMENTO_GERADO", recebidas |-> R]
<1>1. DOMAIN R = P
  BY DEF Pendentes
<1>2. P \subseteq PecasDa(tab.caixa) /\ Cardinality(P) \in Nat
      /\ Len(tab.caixa) = Len(tab'.caixa) + Cardinality(P) /\ Len(tab'.caixa) \in Nat
  BY DEF Sorteou
<1>3. CASE P = {}
  <2>1. Sorteio = << >>
    BY <1>3 DEF Sorteio
  <2>2. r = e /\ EhLote(Sorteio)
    BY <2>1, DobraVazia
  <2>3. Cardinality({}) = 0
    BY FS_EmptySet
  <2>4. Len(tab'.caixa) = Len(tab.caixa)
    BY <1>2, <1>3, <2>3
  <2>5. QED
    BY <1>3, <2>2, <2>4, Nenhum
<1>4. CASE P # {}
  <2>1. Sorteio = << ev, fv >>
    <3>1. Pendentes(tab') \ Pendentes(tab) = P
      OBVIOUS
    <3>2. QED
      BY <1>4, <3>1 DEF Sorteio
  <2>2. Sorteio = << ev >> \o << fv >>
    BY <2>1, DoisJuntos
  <2> DEFINE f == ReduzirEvento(e, ev)
             g == ReduzirEvento(f, fv)
  <2>3. r = g /\ EhLote(Sorteio)
    <3> HIDE DEF ev, fv
    <3>1. EhLote(<< ev >>) /\ EhLote(<< fv >>) /\ ReduzirEventos(e, << ev >>) = f
          /\ ReduzirEventos(f, << fv >>) = g
      BY DobraUm
    <3> HIDE DEF f, g
    <3>2. /\ EhLote(<< ev >> \o << fv >>)
          /\ ReduzirEventos(e, << ev >> \o << fv >>)
               = ReduzirEventos(ReduzirEventos(e, << ev >>), << fv >>)
      BY <3>1, DobraJunta
    <3>3. QED
      BY <2>2, <3>1, <3>2
  <2>4. PICK Q, U, n, k, m : Q = P /\ U = R /\ n = Cardinality(P) /\ k = Len(tab.caixa)
                             /\ m = Len(tab'.caixa)
    OBVIOUS
  <2>5. n \in Nat /\ m \in Nat /\ k = m + n
    BY <1>2, <2>4
  <2>6. k \in Nat /\ n = Cardinality(Q) /\ DOMAIN U = Q /\ e.conhecidas \cap Q = {} /\ e.restam = k
    BY <1>1, <1>2, <2>4, <2>5
  <2>7. PICK g0, f0 : f0 = f /\ g0 = g
    OBVIOUS
  <2>8. f0 = ReduzirEvento(e, [tipo |-> "PECA_SORTEADA", pecas |-> Q])
        /\ g0 = ReduzirEvento(f0, [tipo |-> "RECEBIMENTO_GERADO", recebidas |-> U])
    BY <2>4, <2>7
  <2> HIDE DEF f, g, P, R
  <2>9. /\ Intocados(e, g0, {"conhecidas", "restam", "recebidas"})
        /\ g0.recebidas = U /\ g0.restam = m /\ g0.conhecidas = e.conhecidas \cup Q
    BY <2>5, <2>6, <2>8, AoComprar
  <2>10. QED
    BY <2>3, <2>4, <2>7, <2>9 DEF P, R
<1>5. QED
  BY <1>3, <1>4

LEMMA AoPassar ==
  ASSUME NEW e, Molde(e), NEW j, Acordados(jogadores') # {}, turno'.ativo # Nada,
         NEW r, r = ReduzirEventos(e, Passagem(j))
  PROVE  /\ EhLote(Passagem(j))
         /\ Intocados(e, r, CamposDaFase \cup {"ativo", "rodada", "inicio"})
         /\ SemNadaNaFase(r) /\ r.ativo = turno'.ativo /\ r.rodada = turno'.rodada
         /\ r.inicio = SobOPeao(e, DonoDe(e, turno'.ativo))
<1> DEFINE ev == [tipo |-> "TURNO_ENCERRADO", jogador |-> j]
           fv == [tipo |-> "TURNO_INICIADO", jogador |-> turno'.ativo, rodada |-> turno'.rodada]
           f == ReduzirEvento(e, ev)
           g == ReduzirEventos(f, Finalizada)
           h == ReduzirEvento(g, fv)
<1>1. Passagem(j) = (<< ev >> \o Finalizada) \o << fv >>
  BY DEF Passagem, Se
<1>2. Intocados(e, f, CamposDaFase \cup {"ativo", "inicio"}) /\ SemNadaNaFase(f)
      /\ f.ativo = Nada /\ f.inicio = Nada
  BY AoEncerrar
<1> HIDE DEF f
<1>3. EhLote(Finalizada) /\ Intocados(f, g, {"manipulacao"}) /\ g.manipulacao = Nada
  BY <1>2, AoFinalizar DEF Intocados, SemNadaNaFase
<1> HIDE DEF g
<1>4. Molde(g) /\ g.ativo = Nada /\ g.peoes = e.peoes /\ g.posicionadas = e.posicionadas
      /\ g.dono = e.dono
  BY <1>2, <1>3 DEF Intocados, Campos, CamposDaFase
<1>5. /\ Intocados(g, h, CamposDaFase \cup {"ativo", "rodada", "inicio"})
      /\ SemNadaNaFase(h) /\ h.ativo = turno'.ativo /\ h.rodada = turno'.rodada
      /\ h.inicio = SobOPeao(g, DonoDe(g, turno'.ativo))
  <2>1. PICK k, n : k = turno'.ativo /\ n = turno'.rodada
    OBVIOUS
  <2>2. h = ReduzirEvento(g, [tipo |-> "TURNO_INICIADO", jogador |-> k, rodada |-> n])
    BY <2>1
  <2> HIDE DEF h
  <2>3. QED
    BY <1>4, <2>1, <2>2, AoIniciar
<1> HIDE DEF h
<1>6. SobOPeao(g, DonoDe(g, turno'.ativo)) = SobOPeao(e, DonoDe(e, turno'.ativo))
  BY <1>4 DEF SobOPeao, DonoDe, PecaEm, PecasEm
<1>7. r = h /\ EhLote(Passagem(j))
  <2> HIDE DEF ev, fv
  <2>1. /\ EhLote(<< ev >>) /\ EhLote(<< fv >>) /\ ReduzirEventos(e, << ev >>) = f
        /\ ReduzirEventos(g, << fv >>) = h
    BY DobraUm DEF f, h
  <2>2. EhLote(<< ev >> \o Finalizada) /\ ReduzirEventos(e, << ev >> \o Finalizada) = g
    BY <1>3, <2>1, DobraJunta DEF g
  <2>3. /\ EhLote((<< ev >> \o Finalizada) \o << fv >>)
        /\ ReduzirEventos(e, (<< ev >> \o Finalizada) \o << fv >>)
             = ReduzirEventos(ReduzirEventos(e, << ev >> \o Finalizada), << fv >>)
    BY <2>1, <2>2, DobraJunta
  <2>4. QED
    BY <1>1, <2>1, <2>2, <2>3
<1>8. Intocados(e, h, CamposDaFase \cup {"ativo", "rodada", "inicio"})
  BY <1>2, <1>3, <1>5 DEF Intocados, CamposDaFase
<1>9. QED
  BY <1>5, <1>6, <1>7, <1>8

-----------------------------------------------------------------------------
(* The commands: what the lot of a command makes of a picture of the state *)
(* before it is a picture of the state after it.                           *)

Calmo == TurnosDosBots /\ resultado = Nada /\ ElencoCompleto /\ Apresentavel(tab, jogadores, turno)

FielApos(e) == Retrato(e, tab', jogadores', turno', iluminadas', geradores', cartao')

Mostrado(lote) ==
  /\ Apresentavel(tab', jogadores', turno') /\ PecasDa(tab'.caixa) \subseteq PecasDa(tab.caixa)
  /\ \A e : Fiel(e) => FielApos(ReduzirEventos(e, lote))

LEMMA CalmoDiz ==
  ASSUME Calmo
  PROVE  /\ Tipos /\ NaVez /\ Encaixada /\ Ordem /\ Espelhado /\ (~Comecando => EmAberto)
         /\ Ativo \in Jogadores /\ Ativo # Nada /\ DOMAIN jogadores = Jogadores
         /\ DOMAIN tab.peoes = Jogadores /\ tab \in Tabuleiros /\ Bom(tab)
         /\ SelecaoFora(tab) /\ IniciaisDoElenco(tab) /\ AlvosComVaga(tab, turno)
         /\ ViradaNoLugar(tab, jogadores, turno)
BY PartidaAssumption DEF Calmo, TurnosDosBots, TurnosComSaida, TurnosComLuz, Turnos, Luzes, Saidas,
   Espelhos, Ativo, Tipos, ElencoCompleto, Jogadores, Turno, Bom, Apresentavel

LEMMA CelulaSob ==
  ASSUME NEW t, Bom(t), NEW j \in DOMAIN t.peoes
  PROVE  CelulaDoPeao(t, j) = IF t.peoes[j] = Nada THEN Nada ELSE CelulaDe(t, t.peoes[j])
<1>1. j # Nada /\ Nada \notin Mesa(t)
  BY MesaDe, TiposDistintos, PartidaAssumption DEF Bom, Jogadores
<1>2. QED
  BY <1>1 DEF CelulaDoPeao, PecaSob, Bom, PeoesSobrePecas

LEMMA PeoesParados ==
  ASSUME NEW t, Bom(t), NEW n, Bom(n), n.peoes = t.peoes,
         \A q \in Mesa(t) : (\E k \in DOMAIN t.peoes : t.peoes[k] = q) => CelulaDe(n, q) = CelulaDe(t, q),
         NEW js, DOMAIN js = DOMAIN t.peoes
  PROVE  [j \in DOMAIN js |-> CelulaDoPeao(n, j)] = [j \in DOMAIN js |-> CelulaDoPeao(t, j)]
<1>1. ASSUME NEW j \in DOMAIN js
      PROVE  CelulaDoPeao(n, j) = CelulaDoPeao(t, j)
  BY <1>1, CelulaSob DEF Bom, PeoesSobrePecas
<1>2. QED
  BY <1>1

CamposDaMesa ==
  {"iniciais", "posicionadas", "recebidas", "selecionada", "manipulacao", "peao", "conhecidas",
   "restam", "movimentou", "travessia", "atravessou"}

LEMMA SoAMesa ==
  ASSUME Calmo, NEW e, Fiel(e), NEW r, NEW X, X \subseteq CamposDaMesa, Intocados(e, r, X),
         Bom(tab'), tab'.peoes = tab.peoes, \A q \in Mesa(tab) : CelulaDe(tab', q) = CelulaDe(tab, q),
         UNCHANGED <<jogadores, iluminadas, geradores, cartao>>,
         RetratoDaMesa(r, tab'), RetratoDoTurno(r, turno')
  PROVE  FielApos(r)
<1>1. [j \in DOMAIN jogadores |-> CelulaDoPeao(tab', j)] = [j \in DOMAIN jogadores |-> CelulaDoPeao(tab, j)]
  <2>1. DOMAIN jogadores = DOMAIN tab.peoes /\ Bom(tab)
    BY CalmoDiz
  <2>2. QED
    BY <2>1, PeoesParados
<1>2. /\ r.peoes = e.peoes /\ r.dono = e.dono /\ r.jogadores = e.jogadores
      /\ r.iluminadas = e.iluminadas /\ r.geradores = e.geradores /\ r.cartao = e.cartao /\ Molde(r)
  BY DEF Intocados, Campos, CamposDaMesa
<1>3. QED
  BY <1>1, <1>2 DEF FielApos, Fiel, Retrato, RetratoDosPeoes, RetratoDoElenco, RetratoDosBens

(* One event that only selects.                                            *)
LEMMA AoEleger ==
  ASSUME NEW e, Molde(e), NEW p, NEW r,
         r = ReduzirEvento(e, [tipo |-> "PECA_SELECIONADA", peca |-> p])
  PROVE  Intocados(e, r, {"selecionada"}) /\ r.selecionada = p
<1> DEFINE ev == [tipo |-> "PECA_SELECIONADA", peca |-> p]
<1>1. ev.tipo = "PECA_SELECIONADA" /\ ev.peca = p /\ r = ReduzirEvento(e, ev)
  OBVIOUS
<1> HIDE DEF ev
<1> DEFINE v == p
<1>2. r = [e EXCEPT !.selecionada = v]
  BY <1>1 DEF ReduzirEvento
<1> HIDE DEF v
<1>3. Intocados(e, r, {"selecionada"}) /\ r.selecionada = v
  BY <1>2, AoTrocar DEF Campos
<1>4. QED
  BY <1>3 DEF v

LEMMA AoLargar ==
  ASSUME NEW e, Molde(e), NEW p, NEW r,
         r = ReduzirEvento(e, [tipo |-> "PECA_DESELECIONADA", peca |-> p])
  PROVE  Intocados(e, r, {"selecionada"}) /\ r.selecionada = (IF e.selecionada = p THEN Nada ELSE e.selecionada)
<1> DEFINE ev == [tipo |-> "PECA_DESELECIONADA", peca |-> p]
<1>1. ev.tipo = "PECA_DESELECIONADA" /\ ev.peca = p /\ r = ReduzirEvento(e, ev)
  OBVIOUS
<1> HIDE DEF ev
<1> DEFINE v == (IF e.selecionada = p THEN Nada ELSE e.selecionada)
<1>2. r = [e EXCEPT !.selecionada = v]
  BY <1>1 DEF ReduzirEvento, Molde, Campos
<1> HIDE DEF v
<1>3. Intocados(e, r, {"selecionada"}) /\ r.selecionada = v
  BY <1>2, AoTrocar DEF Campos
<1>4. QED
  BY <1>3 DEF v

LEMMA AoErguer ==
  ASSUME NEW e, Molde(e), NEW j, NEW r,
         r = ReduzirEvento(e, [tipo |-> "PEAO_SELECIONADO", peao |-> j])
  PROVE  Intocados(e, r, {"peao"}) /\ r.peao = j
<1> DEFINE ev == [tipo |-> "PEAO_SELECIONADO", peao |-> j]
<1>1. ev.tipo = "PEAO_SELECIONADO" /\ ev.peao = j /\ r = ReduzirEvento(e, ev)
  OBVIOUS
<1> HIDE DEF ev
<1> DEFINE v == j
<1>2. r = [e EXCEPT !.peao = v]
  BY <1>1 DEF ReduzirEvento
<1> HIDE DEF v
<1>3. Intocados(e, r, {"peao"}) /\ r.peao = v
  BY <1>2, AoTrocar DEF Campos
<1>4. QED
  BY <1>3 DEF v

LEMMA AoSoltar ==
  ASSUME NEW e, Molde(e), NEW j, NEW r,
         r = ReduzirEvento(e, [tipo |-> "PEAO_DESELECIONADO", peao |-> j])
  PROVE  Intocados(e, r, {"peao"}) /\ r.peao = (IF e.peao = j THEN Nada ELSE e.peao)
<1> DEFINE ev == [tipo |-> "PEAO_DESELECIONADO", peao |-> j]
<1>1. ev.tipo = "PEAO_DESELECIONADO" /\ ev.peao = j /\ r = ReduzirEvento(e, ev)
  OBVIOUS
<1> HIDE DEF ev
<1> DEFINE v == (IF e.peao = j THEN Nada ELSE e.peao)
<1>2. r = [e EXCEPT !.peao = v]
  BY <1>1 DEF ReduzirEvento, Molde, Campos
<1> HIDE DEF v
<1>3. Intocados(e, r, {"peao"}) /\ r.peao = v
  BY <1>2, AoTrocar DEF Campos
<1>4. QED
  BY <1>3 DEF v

LEMMA AoAtravessar ==
  ASSUME NEW e, Molde(e), NEW j, NEW r,
         r = ReduzirEvento(e, [tipo |-> "ATRAVESSOU_O_ESCURO", peao |-> j])
  PROVE  Intocados(e, r, {"atravessou"}) /\ r.atravessou = TRUE
<1> DEFINE ev == [tipo |-> "ATRAVESSOU_O_ESCURO", peao |-> j]
<1>1. ev.tipo = "ATRAVESSOU_O_ESCURO" /\ ev.peao = j /\ r = ReduzirEvento(e, ev)
  OBVIOUS
<1> HIDE DEF ev
<1> DEFINE v == TRUE
<1>2. r = [e EXCEPT !.atravessou = v]
  BY <1>1 DEF ReduzirEvento
<1> HIDE DEF v
<1>3. Intocados(e, r, {"atravessou"}) /\ r.atravessou = v
  BY <1>2, AoTrocar DEF Campos
<1>4. QED
  BY <1>3 DEF v

(* Something is selected or let go.                                        *)
LEMMA SelecaoMostrada ==
  ASSUME Calmo, NEW e, Fiel(e), NEW r, Intocados(e, r, {"selecionada", "manipulacao", "peao"}),
         Bom(tab'), tab'.peoes = tab.peoes, tab'.posicionadas = tab.posicionadas,
         tab'.iniciais = tab.iniciais, tab'.recebidas = tab.recebidas, tab'.caixa = tab.caixa,
         UNCHANGED <<jogadores, turno, iluminadas, geradores, cartao>>,
         r.selecionada = tab'.selecionada, r.manipulacao = tab'.manipulacao,
         r.peao \in {Nada, tab'.peao}
  PROVE  FielApos(r)
<1>1. RetratoDaMesa(e, tab) /\ RetratoDoTurno(e, turno)
  BY DEF Fiel, Retrato
<1>2. RetratoDaMesa(r, tab')
  BY <1>1 DEF Intocados, Campos, RetratoDaMesa
<1>3. RetratoDoTurno(r, turno')
  BY <1>1 DEF Intocados, Campos, RetratoDoTurno
<1>4. \A q \in Mesa(tab) : CelulaDe(tab', q) = CelulaDe(tab, q)
  BY DEF CelulaDe
<1>5. {"selecionada", "manipulacao", "peao"} \subseteq CamposDaMesa
  BY DEF CamposDaMesa
<1>6. QED
  BY <1>2, <1>3, <1>4, <1>5, SoAMesa

LEMMA SelecaoApresentavel ==
  ASSUME Calmo, tab'.peoes = tab.peoes, tab'.iniciais = tab.iniciais,
         tab'.recebidas = tab.recebidas, tab'.caixa = tab.caixa, UNCHANGED <<jogadores, turno>>,
         tab'.selecionada \in {Nada, tab.selecionada} \cup DOMAIN tab.iniciais,
         tab'.manipulacao \in {Nada, tab.manipulacao}
  PROVE  Apresentavel(tab', jogadores', turno') /\ PecasDa(tab'.caixa) \subseteq PecasDa(tab.caixa)
<1>1. /\ SelecaoFora(tab) /\ IniciaisDoElenco(tab) /\ AlvosComVaga(tab, turno)
      /\ ViradaNoLugar(tab, jogadores, turno)
  BY CalmoDiz
<1>2. SelecaoFora(tab') /\ IniciaisDoElenco(tab') /\ AlvosComVaga(tab', turno')
  BY <1>1 DEF SelecaoFora, IniciaisDoElenco, AlvosComVaga, Pendentes
<1>3. ViradaNoLugar(tab', jogadores', turno')
  BY <1>1 DEF ViradaNoLugar
<1>4. QED
  BY <1>2, <1>3 DEF Apresentavel

(* What a lot that begins by letting the turned piece go makes of it.      *)
LEMMA FinalizadaAntes ==
  ASSUME NEW e, Fiel(e), NEW ev, NEW r, r = ReduzirEventos(e, Finalizada \o << ev >>)
  PROVE  \E f : /\ Intocados(e, f, {"manipulacao"}) /\ f.manipulacao = Nada
                /\ r = ReduzirEvento(f, ev)
<1> DEFINE f == ReduzirEventos(e, Finalizada)
<1>1. Molde(e) /\ e.manipulacao = tab.manipulacao
  BY DEF Fiel, Retrato, RetratoDaMesa
<1>2. EhLote(Finalizada) /\ Intocados(e, f, {"manipulacao"}) /\ f.manipulacao = Nada
  BY <1>1, AoFinalizar
<1>3. EhLote(<< ev >>) /\ ReduzirEventos(f, << ev >>) = ReduzirEvento(f, ev)
  BY DobraUm
<1>4. ReduzirEventos(e, Finalizada \o << ev >>) = ReduzirEventos(f, << ev >>)
  BY <1>2, <1>3, DobraJunta
<1>5. QED
  BY <1>2, <1>3, <1>4

LEMMA FinalizarMostra ==
  ASSUME Calmo, NEW j, FinalizarManipulacao(j)
  PROVE  Mostrado(Finalizada)
<1>1. /\ tab' = [tab EXCEPT !.manipulacao = Nada]
      /\ UNCHANGED <<jogadores, turno, iluminadas, geradores, cartao>>
  BY DEF FinalizarManipulacao, DelegarAoTabuleiro
<1>2. Tipos /\ tab \in Tabuleiros
  BY CalmoDiz
<1>3. /\ Bom(tab') /\ tab'.peoes = tab.peoes /\ tab'.posicionadas = tab.posicionadas
      /\ tab'.iniciais = tab.iniciais /\ tab'.recebidas = tab.recebidas /\ tab'.caixa = tab.caixa
  BY <1>2, SelecionarTipos DEF Tipos
<1>4. tab'.selecionada = tab.selecionada /\ tab'.manipulacao = Nada /\ tab'.peao = tab.peao
  BY <1>1, <1>2 DEF Tabuleiros
<1>5. ASSUME NEW e, Fiel(e)
      PROVE  FielApos(ReduzirEventos(e, Finalizada))
  <2> DEFINE r == ReduzirEventos(e, Finalizada)
  <2>1. Molde(e) /\ RetratoDaMesa(e, tab)
    BY <1>5 DEF Fiel, Retrato
  <2>2. Intocados(e, r, {"manipulacao"}) /\ r.manipulacao = Nada
    BY <2>1, AoFinalizar DEF RetratoDaMesa
  <2> HIDE DEF r
  <2>3. Intocados(e, r, {"selecionada", "manipulacao", "peao"}) /\ r.selecionada = tab'.selecionada
        /\ r.peao \in {Nada, tab'.peao}
    BY <1>4, <2>1, <2>2 DEF Intocados, Campos, RetratoDaMesa
  <2>4. QED
    BY <1>1, <1>3, <1>4, <1>5, <2>2, <2>3, SelecaoMostrada DEF r
<1>6. QED
  BY <1>1, <1>3, <1>4, <1>5, SelecaoApresentavel DEF Mostrado

LEMMA SelecionarPecaMostra ==
  ASSUME Calmo, NEW j, NEW p, p # Nada, SelecionarAPeca(j, p)
  PROVE  Mostrado(LoteDaSelecao(p))
<1>1. Tipos /\ tab \in Tabuleiros /\ Bom(tab)
  BY CalmoDiz
<1>2. /\ Tipos' /\ tab' = SelecionarPeca(tab, p) /\ PodeSelecionarPeca(tab, p)
      /\ UNCHANGED <<jogadores, turno, iluminadas, geradores, cartao>>
  BY <1>1, SelecionarAPecaTipos DEF SelecionarAPeca, PodeSelecionarAPeca
<1>3. /\ Bom(tab') /\ tab'.peoes = tab.peoes /\ tab'.posicionadas = tab.posicionadas
      /\ tab'.iniciais = tab.iniciais /\ tab'.recebidas = tab.recebidas /\ tab'.caixa = tab.caixa
      /\ tab'.peao = tab.peao
  BY <1>1, <1>2, SelecionarPecaBom
<1>4. CASE p = tab.manipulacao
  <2>1. tab' = [tab EXCEPT !.manipulacao = Nada]
    BY <1>2, <1>4 DEF SelecionarPeca
  <2>2. FinalizarManipulacao(j)
    BY <1>4, <2>1 DEF SelecionarAPeca, PodeSelecionarAPeca, FinalizarManipulacao, DelegarAoTabuleiro
  <2>3. QED
    BY <1>4, <2>2, FinalizarMostra DEF LoteDaSelecao
<1>5. CASE p # tab.manipulacao /\ p = tab.selecionada
  <2> DEFINE ev == [tipo |-> "PECA_DESELECIONADA", peca |-> p]
  <2>1. tab'.selecionada = Nada /\ tab'.manipulacao = tab.manipulacao
    BY <1>1, <1>2, <1>5 DEF SelecionarPeca, Tabuleiros
  <2>2. LoteDaSelecao(p) = << ev >>
    BY <1>5 DEF LoteDaSelecao
  <2>3. ASSUME NEW e, Fiel(e)
        PROVE  FielApos(ReduzirEventos(e, << ev >>))
    <3>1. Molde(e) /\ RetratoDaMesa(e, tab)
      BY <2>3 DEF Fiel, Retrato
    <3>2. PICK r : r = ReduzirEvento(e, ev)
      OBVIOUS
    <3>3. Intocados(e, r, {"selecionada"})
          /\ r.selecionada = IF e.selecionada = p THEN Nada ELSE e.selecionada
      BY <3>1, <3>2, AoLargar
    <3> HIDE DEF ev
    <3>4. /\ Intocados(e, r, {"selecionada", "manipulacao", "peao"})
          /\ r.selecionada = tab'.selecionada /\ r.manipulacao = tab'.manipulacao
          /\ r.peao \in {Nada, tab'.peao}
      BY <1>3, <1>5, <2>1, <3>1, <3>3 DEF Intocados, Campos, RetratoDaMesa
    <3>5. FielApos(r)
      BY <1>2, <1>3, <2>3, <3>4, SelecaoMostrada
    <3>6. QED
      BY <3>2, <3>5, DobraUm
  <2>4. QED
    BY <1>2, <1>3, <2>1, <2>2, <2>3, SelecaoApresentavel DEF Mostrado
<1>6. CASE p # tab.manipulacao /\ p # tab.selecionada
  <2> DEFINE ev == [tipo |-> "PECA_SELECIONADA", peca |-> p]
  <2>1. tab'.selecionada = p /\ tab'.manipulacao = Nada /\ p \in DOMAIN tab.iniciais
    BY <1>1, <1>2, <1>6 DEF SelecionarPeca, PodeSelecionarPeca, Tabuleiros
  <2>2. LoteDaSelecao(p) = Finalizada \o << ev >>
    BY <1>6 DEF LoteDaSelecao
  <2>3. ASSUME NEW e, Fiel(e)
        PROVE  FielApos(ReduzirEventos(e, Finalizada \o << ev >>))
    <3>1. RetratoDaMesa(e, tab)
      BY <2>3 DEF Fiel, Retrato
    <3>2. PICK r : r = ReduzirEventos(e, Finalizada \o << ev >>)
      OBVIOUS
    <3>3. PICK f : Intocados(e, f, {"manipulacao"}) /\ f.manipulacao = Nada /\ r = ReduzirEvento(f, ev)
      BY <2>3, <3>2, FinalizadaAntes
    <3>4. Intocados(f, r, {"selecionada"}) /\ r.selecionada = p
      <4>1. Molde(f)
        BY <3>3 DEF Intocados
      <4>2. QED
        BY <3>3, <4>1, AoEleger
    <3> HIDE DEF ev
    <3>5. /\ Intocados(e, r, {"selecionada", "manipulacao", "peao"})
          /\ r.selecionada = tab'.selecionada /\ r.manipulacao = tab'.manipulacao
          /\ r.peao \in {Nada, tab'.peao}
      BY <1>3, <2>1, <3>1, <3>3, <3>4 DEF Intocados, Campos, RetratoDaMesa
    <3>6. FielApos(r)
      BY <1>2, <1>3, <2>3, <3>5, SelecaoMostrada
    <3>7. QED
      BY <3>2, <3>6
  <2>4. QED
    BY <1>2, <1>3, <2>1, <2>2, <2>3, SelecaoApresentavel DEF Mostrado
<1>7. QED
  BY <1>4, <1>5, <1>6

(* A piece is turned.                                                      *)
LEMMA ApresentavelSegue ==
  ASSUME NEW t, NEW js, NEW tu, Apresentavel(t, js, tu), NEW n, n.selecionada = t.selecionada,
         n.manipulacao = t.manipulacao, n.peoes = t.peoes, DOMAIN n.iniciais = DOMAIN t.iniciais,
         Pendentes(n) = Pendentes(t),
         \A q \in Pendentes(t) : /\ n.recebidas[q].vaga = t.recebidas[q].vaga
                                 /\ n.recebidas[q].alvo = t.recebidas[q].alvo
  PROVE  Apresentavel(n, js, tu)
<1>1. SelecaoFora(n) /\ IniciaisDoElenco(n) /\ AlvosComVaga(n, tu)
  BY DEF Apresentavel, SelecaoFora, IniciaisDoElenco, AlvosComVaga
<1>2. ViradaNoLugar(n, js, tu)
  BY DEF Apresentavel, ViradaNoLugar
<1>3. QED
  BY <1>1, <1>2 DEF Apresentavel

LEMMA AdotadaVista ==
  ASSUME NEW t \in Tabuleiros, NEW j, NEW n, n = Adotada(t, j) \/ n = ComSelecao(t, j) \/ n = t
  PROVE  n.selecionada = t.selecionada /\ n.manipulacao = t.manipulacao
         /\ (t.peao # Nada => n.peao = t.peao)
BY DEF Adotada, ComSelecao, Tabuleiros

LEMMA GirarMostra ==
  ASSUME Calmo, NEW j, NEW p \in PecasEmJogo, NEW passo \in Int, GirarAPeca(j, p, passo)
  PROVE  Mostrado(<< [tipo |-> "PECA_GIRADA", peca |-> p, orientacao |-> OrientacaoDe(tab', p)] >>)
<1> DEFINE ev == [tipo |-> "PECA_GIRADA", peca |-> p, orientacao |-> OrientacaoDe(tab', p)]
<1>1. Tipos /\ tab \in Tabuleiros /\ Bom(tab)
  BY CalmoDiz
<1>2. PICK t : /\ t = IF p \in Pendentes(tab) THEN Adotada(tab, j) ELSE tab
               /\ Tipos' /\ tab' = GirarPeca(t, p, passo) /\ tab'.peoes = tab.peoes
               /\ Bom(t) /\ t.posicionadas = tab.posicionadas /\ t.recebidas = tab.recebidas
               /\ t.iniciais = tab.iniciais /\ t.peoes = tab.peoes /\ t.caixa = tab.caixa
               /\ UNCHANGED <<jogadores, turno, iluminadas, geradores, cartao>>
  BY <1>1, GirarAPecaTipos
<1>3. t.selecionada = tab.selecionada /\ t.manipulacao = tab.manipulacao
      /\ (tab.peao # Nada => t.peao = tab.peao) /\ t \in Tabuleiros
  BY <1>1, <1>2, AdotadaVista DEF Bom
<1>4. p \in DOMAIN t.iniciais \cup Mesa(t) \cup Pendentes(t)
  BY <1>2 DEF PecasEmJogo, Mesa, Pendentes
<1>5. /\ Bom(tab') /\ tab'.caixa = tab.caixa /\ tab'.peao = t.peao /\ tab'.manipulacao = tab.manipulacao
      /\ Pendentes(tab') = Pendentes(tab) /\ DOMAIN tab'.iniciais = DOMAIN tab.iniciais
      /\ \A q \in Mesa(tab) : CelulaDe(tab', q) = CelulaDe(tab, q)
      /\ \A q \in Pendentes(tab) : /\ tab'.recebidas[q].vaga = tab.recebidas[q].vaga
                                   /\ tab'.recebidas[q].alvo = tab.recebidas[q].alvo
  <2>1. Mesa(t) = Mesa(tab) /\ Pendentes(t) = Pendentes(tab)
        /\ \A q \in Mesa(tab) : CelulaDe(t, q) = CelulaDe(tab, q)
    BY <1>2 DEF Mesa, Pendentes, CelulaDe
  <2>2. QED
    BY <1>2, <1>3, <1>4, <2>1, GirarBom
<1>6. tab'.selecionada = tab.selecionada
  BY <1>2, <1>3 DEF GirarPeca, Tabuleiros
<1>7. Apresentavel(tab', jogadores', turno')
  BY <1>2, <1>5, <1>6, ApresentavelSegue DEF Calmo
<1>8. ASSUME NEW e, Fiel(e)
      PROVE  FielApos(ReduzirEventos(e, << ev >>))
  <2>1. Molde(e) /\ RetratoDaMesa(e, tab) /\ RetratoDoTurno(e, turno)
    BY <1>8 DEF Fiel, Retrato
  <2>2. PICK o : o = OrientacaoDe(tab', p)
    OBVIOUS
  <2>3. PICK r : r = ReduzirEvento(e, [tipo |-> "PECA_GIRADA", peca |-> p, orientacao |-> o])
    OBVIOUS
  <2>10. /\ p \in DOMAIN e.posicionadas =>
              Intocados(e, r, {"posicionadas"})
              /\ r.posicionadas = [e.posicionadas EXCEPT ![p].orientacao = o]
         /\ p \notin DOMAIN e.posicionadas /\ p \in DOMAIN e.recebidas =>
              Intocados(e, r, {"recebidas"})
              /\ r.recebidas = [e.recebidas EXCEPT ![p].orientacao = o]
         /\ p \notin DOMAIN e.posicionadas \cup DOMAIN e.recebidas /\ p \in DOMAIN e.iniciais =>
              Intocados(e, r, {"iniciais"}) /\ r.iniciais = [e.iniciais EXCEPT ![p] = o]
    BY <2>1, <2>3, AoGirar
  <2>4. \E X : /\ X \subseteq {"posicionadas", "recebidas", "iniciais"} /\ Intocados(e, r, X)
               /\ r.posicionadas = tab'.posicionadas /\ r.recebidas = tab'.recebidas
               /\ r.iniciais = tab'.iniciais
    <3>1. e.posicionadas = t.posicionadas /\ e.recebidas = t.recebidas /\ e.iniciais = t.iniciais
      BY <1>2, <2>1 DEF RetratoDaMesa
    <3>2. CASE p \in Mesa(t)
      <4> DEFINE v == Rotacionar(t.posicionadas[p].orientacao, passo)
      <4>1. tab' = [t EXCEPT !.posicionadas[p].orientacao = v]
        BY <1>2, <3>2 DEF GirarPeca
      <4> HIDE DEF v
      <4>2. tab'.posicionadas = [t.posicionadas EXCEPT ![p].orientacao = v]
            /\ tab'.recebidas = t.recebidas /\ tab'.iniciais = t.iniciais
        BY <1>3, <4>1 DEF Tabuleiros
      <4>3. o = v
        <5>1. p \in Mesa(tab') /\ t.posicionadas[p] \in Posicionada
          BY <1>3, <3>2, <4>2, MesaDe DEF Mesa
        <5>2. tab'.posicionadas[p].orientacao = v
          BY <3>2, <4>2, <5>1 DEF Mesa, Posicionada
        <5>3. QED
          BY <2>2, <5>1, <5>2 DEF OrientacaoDe
      <4>4. Intocados(e, r, {"posicionadas"})
            /\ r.posicionadas = [e.posicionadas EXCEPT ![p].orientacao = o]
        BY <2>10, <3>1, <3>2 DEF Mesa
      <4>5. QED
        BY <3>1, <4>2, <4>3, <4>4 DEF Intocados, Campos
    <3>3. CASE p \notin Mesa(t) /\ p \in Pendentes(t)
      <4> DEFINE v == Rotacionar(t.recebidas[p].orientacao, passo)
      <4>1. tab' = [t EXCEPT !.recebidas[p].orientacao = v]
        BY <1>2, <3>3 DEF GirarPeca
      <4> HIDE DEF v
      <4>2. tab'.recebidas = [t.recebidas EXCEPT ![p].orientacao = v]
            /\ tab'.posicionadas = t.posicionadas /\ tab'.iniciais = t.iniciais
        BY <1>3, <4>1 DEF Tabuleiros
      <4>3. o = v
        <5>1. p \notin Mesa(tab') /\ p \in Pendentes(tab') /\ t.recebidas[p] \in Recebida
          BY <1>3, <3>3, <4>2, MesaDe DEF Mesa, Pendentes
        <5>2. tab'.recebidas[p].orientacao = v
          BY <3>3, <4>2, <5>1 DEF Pendentes, Recebida
        <5>3. QED
          BY <2>2, <5>1, <5>2 DEF OrientacaoDe
      <4>4. Intocados(e, r, {"recebidas"})
            /\ r.recebidas = [e.recebidas EXCEPT ![p].orientacao = o]
        BY <2>10, <3>1, <3>3 DEF Mesa, Pendentes
      <4>5. QED
        BY <3>1, <4>2, <4>3, <4>4 DEF Intocados, Campos
    <3>4. CASE p \notin Mesa(t) /\ p \notin Pendentes(t)
      <4> DEFINE v == Rotacionar(t.iniciais[p], passo)
      <4>0. p \in DOMAIN t.iniciais
        BY <1>4, <3>4
      <4>1. tab' = [t EXCEPT !.iniciais[p] = v]
        BY <1>2, <3>4 DEF GirarPeca
      <4> HIDE DEF v
      <4>2. tab'.iniciais = [t.iniciais EXCEPT ![p] = v]
            /\ tab'.posicionadas = t.posicionadas /\ tab'.recebidas = t.recebidas
        BY <1>3, <4>1 DEF Tabuleiros
      <4>3. o = v
        <5>1. p \notin Mesa(tab') /\ p \notin Pendentes(tab')
          BY <3>4, <4>2 DEF Mesa, Pendentes
        <5>2. tab'.iniciais[p] = v
          BY <4>0, <4>2
        <5>3. QED
          BY <2>2, <5>1, <5>2 DEF OrientacaoDe
      <4>4. Intocados(e, r, {"iniciais"}) /\ r.iniciais = [e.iniciais EXCEPT ![p] = o]
        BY <2>10, <3>1, <3>4, <4>0 DEF Mesa, Pendentes
      <4>5. QED
        BY <3>1, <4>2, <4>3, <4>4 DEF Intocados, Campos
    <3>5. QED
      BY <3>2, <3>3, <3>4
  <2>5. PICK X : /\ X \subseteq {"posicionadas", "recebidas", "iniciais"} /\ Intocados(e, r, X)
                 /\ r.posicionadas = tab'.posicionadas /\ r.recebidas = tab'.recebidas
                 /\ r.iniciais = tab'.iniciais
    BY <2>4
  <2>6. RetratoDaMesa(r, tab')
    BY <1>3, <1>5, <1>6, <2>1, <2>5 DEF RetratoDaMesa, Intocados, Campos
  <2>7. RetratoDoTurno(r, turno') /\ X \subseteq CamposDaMesa
    BY <1>2, <2>1, <2>5 DEF RetratoDoTurno, Intocados, Campos, CamposDaMesa
  <2>8. FielApos(r)
    BY <1>2, <1>5, <1>8, <2>5, <2>6, <2>7, SoAMesa
  <2>9. QED
    BY <2>2, <2>3, <2>8, DobraUm
<1>9. QED
  BY <1>5, <1>7, <1>8 DEF Mostrado

(* The pawn is picked up or let go, and a piece gets its edge.             *)
LEMMA ParadoMostra ==
  ASSUME Calmo, tab' = tab, UNCHANGED <<jogadores, turno, iluminadas, geradores, cartao>>
  PROVE  Mostrado(<< >>)
<1>1. ASSUME NEW e, Fiel(e)
      PROVE  FielApos(ReduzirEventos(e, << >>))
  BY <1>1, DobraVazia DEF FielApos, Fiel
<1>2. QED
  BY <1>1 DEF Calmo, Mostrado

LEMMA SelecionarPeaoMostra ==
  ASSUME Calmo, NEW j, SelecionarOPeao(j)
  PROVE  Mostrado(IF tab.peao = j THEN << >>
                  ELSE Finalizada \o << [tipo |-> "PEAO_SELECIONADO", peao |-> j] >>)
<1> DEFINE ev == [tipo |-> "PEAO_SELECIONADO", peao |-> j]
<1>1. Tipos /\ tab \in Tabuleiros
  BY CalmoDiz
<1>2. /\ tab' = SelecionarPeao(tab, j)
      /\ UNCHANGED <<jogadores, turno, iluminadas, geradores, cartao>>
  BY DEF SelecionarOPeao, DelegarAoTabuleiro
<1>3. /\ Bom(tab') /\ tab'.peoes = tab.peoes /\ tab'.posicionadas = tab.posicionadas
      /\ tab'.iniciais = tab.iniciais /\ tab'.recebidas = tab.recebidas /\ tab'.caixa = tab.caixa
  BY <1>1, SelecionarTipos DEF Tipos
<1>4. CASE tab.peao = j
  <2>1. tab' = tab
    BY <1>2, <1>4 DEF SelecionarPeao
  <2>2. QED
    BY <1>2, <1>4, <2>1, ParadoMostra
<1>5. CASE tab.peao # j
  <2>1. tab'.peao = j /\ tab'.manipulacao = Nada /\ tab'.selecionada = tab.selecionada
    BY <1>1, <1>2, <1>5 DEF SelecionarPeao, Tabuleiros
  <2>2. ASSUME NEW e, Fiel(e)
        PROVE  FielApos(ReduzirEventos(e, Finalizada \o << ev >>))
    <3>1. RetratoDaMesa(e, tab)
      BY <2>2 DEF Fiel, Retrato
    <3>2. PICK r : r = ReduzirEventos(e, Finalizada \o << ev >>)
      OBVIOUS
    <3>3. PICK f : Intocados(e, f, {"manipulacao"}) /\ f.manipulacao = Nada /\ r = ReduzirEvento(f, ev)
      BY <2>2, <3>2, FinalizadaAntes
    <3>4. Intocados(f, r, {"peao"}) /\ r.peao = j
      <4>1. Molde(f)
        BY <3>3 DEF Intocados
      <4>2. QED
        BY <3>3, <4>1, AoErguer
    <3> HIDE DEF ev
    <3>5. /\ Intocados(e, r, {"selecionada", "manipulacao", "peao"})
          /\ r.selecionada = tab'.selecionada /\ r.manipulacao = tab'.manipulacao
          /\ r.peao \in {Nada, tab'.peao}
      BY <2>1, <3>1, <3>3, <3>4 DEF Intocados, Campos, RetratoDaMesa
    <3>6. FielApos(r)
      BY <1>2, <1>3, <2>2, <3>5, SelecaoMostrada
    <3>7. QED
      BY <3>2, <3>6
  <2>3. QED
    BY <1>2, <1>3, <1>5, <2>1, <2>2, SelecaoApresentavel DEF Mostrado
<1>6. QED
  BY <1>4, <1>5

LEMMA DesselecionarPeaoMostra ==
  ASSUME Calmo, NEW j, DesselecionarOPeao(j)
  PROVE  Mostrado((IF tab.peao = j THEN Finalizada ELSE << >>)
                  \o << [tipo |-> "PEAO_DESELECIONADO", peao |-> j] >>)
<1> DEFINE ev == [tipo |-> "PEAO_DESELECIONADO", peao |-> j]
           inicio == IF tab.peao = j THEN Finalizada ELSE << >>
<1>1. Tipos /\ tab \in Tabuleiros /\ NaVez /\ j = Ativo
  BY CalmoDiz DEF DesselecionarOPeao, DaVez, Ativo
<1>2. /\ tab' = DesselecionarPeao(tab, j)
      /\ UNCHANGED <<jogadores, turno, iluminadas, geradores, cartao>>
  BY DEF DesselecionarOPeao, DelegarAoTabuleiro
<1>3. /\ Bom(tab') /\ tab'.peoes = tab.peoes /\ tab'.posicionadas = tab.posicionadas
      /\ tab'.iniciais = tab.iniciais /\ tab'.recebidas = tab.recebidas /\ tab'.caixa = tab.caixa
  BY <1>1, SelecionarTipos DEF Tipos
<1>4. /\ tab'.peao = Nada /\ tab'.selecionada = tab.selecionada
      /\ tab'.manipulacao = IF tab.peao = j THEN Nada ELSE tab.manipulacao
  BY <1>1, <1>2, CalmoDiz DEF DesselecionarPeao, Tabuleiros, NaVez
<1>5. ASSUME NEW e, Fiel(e)
      PROVE  FielApos(ReduzirEventos(e, inicio \o << ev >>))
  <2>1. Molde(e) /\ RetratoDaMesa(e, tab)
    BY <1>5 DEF Fiel, Retrato
  <2>2. PICK r : r = ReduzirEventos(e, inicio \o << ev >>)
    OBVIOUS
  <2>3. \E f : /\ Intocados(e, f, {"manipulacao"}) /\ r = ReduzirEvento(f, ev)
               /\ f.manipulacao = IF tab.peao = j THEN Nada ELSE e.manipulacao
    <3>1. CASE tab.peao = j
      <4>1. r = ReduzirEventos(e, Finalizada \o << ev >>)
        BY <2>2, <3>1
      <4>2. QED
        BY <1>5, <3>1, <4>1, FinalizadaAntes
    <3>2. CASE tab.peao # j
      <4> HIDE DEF ev
      <4>0. PICK z, u : z = << >> /\ u = << ev >>
        OBVIOUS
      <4>1. inicio = z /\ EhLote(z) /\ EhLote(u) /\ ReduzirEventos(e, z) = e
        BY <3>2, <4>0, DobraVazia, DobraUm
      <4>2. r = ReduzirEventos(e, z \o u)
        BY <2>2, <4>0, <4>1
      <4>5. r = ReduzirEventos(e, u)
        BY <4>1, <4>2, DobraJunta
      <4>3. r = ReduzirEvento(e, ev)
        BY <4>0, <4>5, DobraUm
      <4>4. QED
        BY <2>1, <3>2, <4>3, Nenhum
    <3>3. QED
      BY <3>1, <3>2
  <2>4. PICK f : /\ Intocados(e, f, {"manipulacao"}) /\ r = ReduzirEvento(f, ev)
                 /\ f.manipulacao = IF tab.peao = j THEN Nada ELSE e.manipulacao
    BY <2>3
  <2>5. Intocados(f, r, {"peao"}) /\ r.peao = IF f.peao = j THEN Nada ELSE f.peao
    <3>1. Molde(f)
      BY <2>4 DEF Intocados
    <3>2. QED
      BY <2>4, <3>1, AoSoltar
  <2> HIDE DEF ev, inicio
  <2>6. r.peao = Nada
    <3>1. f.peao \in {Nada, tab.peao} /\ tab.peao \in {Nada, j}
      BY <1>1, <2>1, <2>4 DEF Intocados, Campos, RetratoDaMesa, NaVez
    <3>2. QED
      BY <2>5, <3>1
  <2>7. /\ Intocados(e, r, {"selecionada", "manipulacao", "peao"})
        /\ r.selecionada = tab'.selecionada /\ r.manipulacao = tab'.manipulacao
        /\ r.peao \in {Nada, tab'.peao}
    BY <1>4, <2>1, <2>4, <2>5, <2>6 DEF Intocados, Campos, RetratoDaMesa
  <2>8. FielApos(r)
    BY <1>2, <1>3, <1>5, <2>7, SelecaoMostrada
  <2>9. QED
    BY <2>2, <2>8
<1>6. QED
  BY <1>2, <1>3, <1>4, <1>5, SelecaoApresentavel DEF Mostrado

LEMMA EscolherVagaMostra ==
  ASSUME Calmo, NEW j, NEW p, NEW b, EscolherAVaga(j, p, b)
  PROVE  Mostrado(LoteDaVaga(p))
<1>1. Tipos /\ tab \in Tabuleiros /\ Bom(tab)
  BY CalmoDiz
<1> DEFINE t == Adotada(tab, j)
           v == tab'.recebidas[p].vaga
           c == tab'.recebidas[p].alvo
           ev == [tipo |-> "VAGA_DA_PECA_RECEBIDA_ESCOLHIDO", peca |-> p, vaga |-> v, alvo |-> c]
<1>2. /\ Bom(tab') /\ tab' = EscolherVaga(t, p, b) /\ Bom(t) /\ PodeEscolherVaga(t, p, b)
      /\ t.posicionadas = tab.posicionadas /\ t.recebidas = tab.recebidas
      /\ tab'.peoes = tab.peoes /\ tab'.posicionadas = tab.posicionadas
      /\ UNCHANGED <<jogadores, turno, iluminadas, geradores, cartao>>
  BY <1>1, EscolherAVagaTipos DEF Tipos
<1>3. /\ t.selecionada = tab.selecionada /\ t.manipulacao = tab.manipulacao
      /\ t.iniciais = tab.iniciais /\ t.caixa = tab.caixa
      /\ (tab.peao # Nada => t.peao = tab.peao)
  BY <1>1 DEF Adotada, ComSelecao, Tabuleiros
<1> HIDE DEF t
<1>4. /\ tab'.caixa = t.caixa /\ tab'.peao = t.peao /\ tab'.iniciais = t.iniciais
      /\ tab'.manipulacao = Nada /\ Pendentes(tab') = Pendentes(t) /\ b \in Bordas
      /\ tab'.recebidas[p].vaga = b
      /\ \A q \in Pendentes(t) \ {p} : tab'.recebidas[q] = t.recebidas[q]
  BY <1>2, EscolherVagaBom
<1>5. /\ tab'.selecionada = p
      /\ tab'.recebidas = [t.recebidas EXCEPT ![p].vaga = v, ![p].alvo = c]
  <2> DEFINE d == Vizinha(CelulaDe(t, PecaSob(t, t.peao)), b)
  <2>1. /\ tab' = [t EXCEPT !.recebidas[p].vaga = b, !.recebidas[p].alvo = d,
                            !.selecionada = p, !.manipulacao = Nada]
    BY <1>2 DEF EscolherVaga
  <2>2. v = b /\ c = d
    BY <1>2, EscolherVagaBom
  <2> HIDE DEF d, v, c
  <2>3. tab'.selecionada = p /\ tab'.recebidas = [t.recebidas EXCEPT ![p].vaga = b, ![p].alvo = d]
    BY <1>2, <2>1 DEF Bom, Tabuleiros
  <2>4. QED
    BY <2>2, <2>3
<1>6. p \in Pendentes(t) /\ p \in Pendentes(tab) /\ p \in DOMAIN tab.recebidas
      /\ p \notin PecasDa(tab.caixa) /\ Pendentes(tab') = Pendentes(tab)
  BY <1>1, <1>2, <1>4 DEF PodeEscolherVaga, Pendentes, Bom, PecasSeparadas
<1>7. Apresentavel(tab', jogadores', turno')
  <2>1. /\ SelecaoFora(tab) /\ IniciaisDoElenco(tab) /\ AlvosComVaga(tab, turno)
        /\ ViradaNoLugar(tab, jogadores, turno)
    BY CalmoDiz
  <2>2. SelecaoFora(tab') /\ IniciaisDoElenco(tab')
    BY <1>3, <1>4, <1>5, <1>6, <2>1 DEF SelecaoFora, IniciaisDoElenco
  <2>3. AlvosComVaga(tab', turno')
    <3>1. b # Nada
      BY <1>4, NadaAssumption
    <3>2. \A q \in Pendentes(tab') \ {p} : tab'.recebidas[q] = tab.recebidas[q]
      BY <1>2, <1>4
    <3>3. QED
      BY <1>2, <1>4, <1>6, <2>1, <3>1, <3>2 DEF AlvosComVaga
  <2>4. ViradaNoLugar(tab', jogadores', turno')
    BY <1>4 DEF ViradaNoLugar
  <2>5. QED
    BY <2>2, <2>3, <2>4 DEF Apresentavel
<1>8. ASSUME NEW e, Fiel(e)
      PROVE  FielApos(ReduzirEventos(e, Finalizada \o << ev >>))
  <2>1. Molde(e) /\ RetratoDaMesa(e, tab) /\ RetratoDoTurno(e, turno)
    BY <1>8 DEF Fiel, Retrato
  <2>2. PICK r : r = ReduzirEventos(e, Finalizada \o << ev >>)
    OBVIOUS
  <2>3. PICK f : Intocados(e, f, {"manipulacao"}) /\ f.manipulacao = Nada /\ r = ReduzirEvento(f, ev)
    BY <1>8, <2>2, FinalizadaAntes
  <2>4. /\ Intocados(f, r, {"recebidas", "conhecidas", "selecionada"})
        /\ r.recebidas = [f.recebidas EXCEPT ![p].vaga = v, ![p].alvo = c]
        /\ r.conhecidas = f.conhecidas \cup {p} /\ r.selecionada = p
    <3>1. Molde(f) /\ p \in DOMAIN f.recebidas
      BY <1>6, <2>1, <2>3 DEF Intocados, Campos, RetratoDaMesa
    <3> HIDE DEF v, c
    <3>2. QED
      BY <2>3, <3>1, AoEscolher
  <2> HIDE DEF ev, v, c
  <2>5. Intocados(e, r, {"recebidas", "conhecidas", "selecionada", "manipulacao"})
        /\ r.manipulacao = Nada /\ f.recebidas = tab.recebidas /\ f.conhecidas = e.conhecidas
    BY <2>1, <2>3, <2>4 DEF Intocados, Campos, RetratoDaMesa
  <2>6. r.recebidas = tab'.recebidas
    BY <1>2, <1>5, <2>4, <2>5
  <2>7. RetratoDaMesa(r, tab')
    <3>1. r.conhecidas \cap PecasDa(tab'.caixa) = {}
      BY <1>3, <1>4, <1>6, <2>1, <2>4, <2>5 DEF RetratoDaMesa
    <3>2. QED
      BY <1>2, <1>3, <1>4, <1>5, <2>1, <2>4, <2>5, <2>6, <3>1 DEF RetratoDaMesa, Intocados, Campos
  <2>8. RetratoDoTurno(r, turno')
    BY <1>2, <2>1, <2>5 DEF RetratoDoTurno, Intocados, Campos
  <2>9. \A q \in Mesa(tab) : CelulaDe(tab', q) = CelulaDe(tab, q)
    BY <1>2 DEF CelulaDe
  <2>10. {"recebidas", "conhecidas", "selecionada", "manipulacao"} \subseteq CamposDaMesa
    BY DEF CamposDaMesa
  <2>11. FielApos(r)
    BY <1>2, <1>8, <2>5, <2>7, <2>8, <2>9, <2>10, SoAMesa
  <2>12. QED
    BY <2>2, <2>11
<1>9. LoteDaVaga(p) = Finalizada \o << ev >>
  BY DEF LoteDaVaga
<1>10. QED
  BY <1>3, <1>4, <1>7, <1>8, <1>9 DEF Mostrado

(* A piece is placed.                                                      *)
LEMMA SemGiroAntes ==
  ASSUME NEW e, NEW c, ~c, NEW ev, NEW fv
  PROVE  ReduzirEventos(e, Se(c, ev) \o << fv >>) = ReduzirEvento(e, fv)
<1>1. PICK z, u : z = << >> /\ u = << fv >>
  OBVIOUS
<1>2. Se(c, ev) = z
  BY <1>1 DEF Se
<1>3. EhLote(z) /\ EhLote(u) /\ ReduzirEventos(e, z) = e /\ ReduzirEventos(e, u) = ReduzirEvento(e, fv)
  BY <1>1, DobraVazia, DobraUm
<1>4. ReduzirEventos(e, z \o u) = ReduzirEventos(e, u)
  BY <1>3, DobraJunta
<1>5. QED
  BY <1>1, <1>2, <1>3, <1>4

(* What an encaixe does: p comes to c with orientation o.                  *)
Encaixe(p, c, o) ==
  /\ p \in DOMAIN tab.iniciais \cup Pendentes(tab)
  /\ Bom(tab') /\ tab'.peoes = tab.peoes /\ \A q \in Mesa(tab) : CelulaDe(tab', q) = CelulaDe(tab, q)
  /\ tab'.caixa = tab.caixa /\ (tab.peao # Nada => tab'.peao = tab.peao)
  /\ tab'.selecionada = Nada
  /\ tab'.manipulacao = IF EhEspecial(p) \/ EhMonstro(p) THEN Nada ELSE p
  /\ tab'.iniciais = Restringir(tab.iniciais, DOMAIN tab.iniciais \ {p})
  /\ tab'.posicionadas = Estender(tab.posicionadas, p, [celula |-> c, orientacao |-> o])
  /\ tab'.recebidas = Restringir(tab.recebidas,
                                 {q \in Pendentes(tab) : tab.recebidas[q].alvo # c})
  /\ UNCHANGED <<jogadores, iluminadas, geradores, cartao>>
  /\ turno' = IF turno.atravessou /\ p \in Pendentes(tab) /\ tab.recebidas[p].alvo = c
              THEN [turno EXCEPT !.travessia = p] ELSE turno

LEMMA EncaixeMostrado ==
  ASSUME Calmo, NEW e, Fiel(e), NEW p, NEW c, NEW o, NEW r, Encaixe(p, c, o),
         r = ReduzirEvento(e, [tipo |-> "PECA_POSICIONADA", peca |-> p, celula |-> c,
                               orientacao |-> o])
  PROVE  FielApos(r)
<1> DEFINE X == {"iniciais", "posicionadas", "selecionada", "manipulacao", "recebidas", "travessia"}
<1>1. Molde(e) /\ RetratoDaMesa(e, tab) /\ RetratoDoTurno(e, turno)
  BY DEF Fiel, Retrato
<1>2. p \in DOMAIN e.iniciais \cup e.conhecidas \cup DOMAIN e.recebidas
  BY <1>1 DEF RetratoDaMesa, Pendentes, Encaixe
<1>20. Posta(e, r, p, c, o)
  BY <1>1, <1>2, AoPosicionar
<1>3. /\ Intocados(e, r, X)
      /\ r.iniciais = Restringir(e.iniciais, DOMAIN e.iniciais \ {p})
      /\ r.posicionadas = Estender(e.posicionadas, p, [celula |-> c, orientacao |-> o])
      /\ r.selecionada = Nada
      /\ r.manipulacao = IF EhEspecial(p) \/ EhMonstro(p) THEN Nada ELSE p
      /\ r.recebidas = Restringir(e.recebidas,
                                  {q \in DOMAIN e.recebidas : e.recebidas[q].alvo # c})
      /\ r.travessia = IF e.atravessou /\ p \in DOMAIN e.recebidas /\ e.recebidas[p].alvo = c
                       THEN p ELSE e.travessia
  BY <1>20 DEF Posta
<1>4. /\ e.iniciais = tab.iniciais /\ e.posicionadas = tab.posicionadas
      /\ e.recebidas = tab.recebidas /\ e.atravessou = turno.atravessou
      /\ e.travessia = turno.travessia /\ DOMAIN tab.recebidas = Pendentes(tab)
  BY <1>1 DEF RetratoDaMesa, RetratoDoTurno, Pendentes
<1>5. /\ r.iniciais = tab'.iniciais /\ r.posicionadas = tab'.posicionadas
      /\ r.recebidas = tab'.recebidas
  BY <1>3, <1>4 DEF Encaixe
<1>6. /\ r.peao = e.peao /\ r.restam = e.restam /\ r.conhecidas = e.conhecidas
      /\ r.ativo = e.ativo /\ r.rodada = e.rodada /\ r.inicio = e.inicio
      /\ r.confirmada = e.confirmada /\ r.atravessou = e.atravessou
  BY <1>3 DEF Intocados, Campos
<1>7. RetratoDaMesa(r, tab')
  BY <1>1, <1>3, <1>5, <1>6 DEF RetratoDaMesa, Encaixe
<1>8. RetratoDoTurno(r, turno')
  <2>1. turno \in Turno
    BY CalmoDiz DEF Tipos
  <2>2. r.travessia = IF turno.atravessou /\ p \in Pendentes(tab) /\ tab.recebidas[p].alvo = c
                      THEN p ELSE turno.travessia
    BY <1>3, <1>4
  <2>3. QED
    BY <1>1, <1>6, <2>1, <2>2 DEF RetratoDoTurno, Turno, Encaixe
<1>9. X \subseteq CamposDaMesa
  BY DEF CamposDaMesa
<1>10. QED
  BY <1>3, <1>7, <1>8, <1>9, SoAMesa DEF Encaixe

LEMMA PosicionarInicialMostra ==
  ASSUME Calmo, NEW j, NEW p, NEW c \in Celulas, PosicionarAInicial(j, p, c)
  PROVE  Mostrado(LoteDoEncaixe(p))
<1>1. Tipos /\ tab \in Tabuleiros /\ Bom(tab) /\ Espelhado /\ Ordem /\ ElencoCompleto
  BY CalmoDiz DEF Calmo
<1>2. j = Ativo /\ InicialDisponivel(j, p) /\ PodePosicionarInicial(tab, p, c)
  BY DEF PosicionarAInicial, PodePosicionarAInicial, DaVez, Ativo
<1>3. DelegarAoTabuleiro(PosicionarInicial(tab, p, c))
  BY DEF PosicionarAInicial
<1>4. /\ Tipos' /\ tab' = PosicionarInicial(tab, p, c) /\ tab'.peoes = tab.peoes
      /\ p \in PecasIniciais /\ tab'.recebidas = tab.recebidas /\ tab'.manipulacao = p
      /\ tab'.peao = tab.peao /\ tab'.caixa = tab.caixa /\ Mesa(tab') = Mesa(tab) \cup {p}
      /\ \A q \in Mesa(tab) : tab'.posicionadas[q] = tab.posicionadas[q]
      /\ UNCHANGED <<jogadores, turno, iluminadas, graca, geradores, cartao>>
  BY <1>1, <1>2, <1>3, EncaixarInicialTipos
<1>5. p \in DOMAIN tab.iniciais /\ EhInicial(p) /\ ~EhEspecial(p) /\ ~EhMonstro(p) /\ p # Nada
  BY <1>2, <1>4, TiposDistintos DEF PodePosicionarInicial, PecasIniciais, EhInicial, EhEspecial,
     EhMonstro, Tipo, TiposEspeciais, TiposDeMonstro, Pecas
<1>6. Comecando /\ p = <<"inicial", Ativo>>
  BY <1>2, <1>5 DEF InicialDisponivel, Comecando
<1>7. Pendentes(tab) = {} /\ tab.recebidas = << >>
  <2>1. Pendentes(tab) # {} => NoPeao # Nada
    BY <1>1, <1>6 DEF Espelhado
  <2>2. Pendentes(tab) = {}
    BY <1>1, <1>5, <1>6, <2>1, InicialNoLugar
  <2>3. QED
    BY <1>1, <2>2, MesaDe
<1> DEFINE o == tab.iniciais[p]
<1>8. /\ tab'.iniciais = Restringir(tab.iniciais, DOMAIN tab.iniciais \ {p})
      /\ tab'.posicionadas = Estender(tab.posicionadas, p, [celula |-> c, orientacao |-> o])
      /\ tab'.selecionada = Nada
  BY <1>1, <1>4 DEF PosicionarInicial, Tabuleiros
<1>9. /\ tab'.posicionadas[p] = [celula |-> c, orientacao |-> o]
      /\ DOMAIN tab'.iniciais = DOMAIN tab.iniciais \ {p}
  BY <1>8 DEF Estender, Restringir
<1>10. Restringir(tab.recebidas, {q \in Pendentes(tab) : tab.recebidas[q].alvo # c}) = tab.recebidas
  <2>1. {q \in Pendentes(tab) : tab.recebidas[q].alvo # c} = {}
    BY <1>7
  <2>2. Restringir(<< >>, {}) = << >>
    BY DEF Restringir
  <2>3. QED
    BY <1>7, <2>1, <2>2
<1>11. Apresentavel(tab', jogadores', turno') /\ PecasDa(tab'.caixa) \subseteq PecasDa(tab.caixa)
  <2>1. IniciaisDoElenco(tab)
    BY CalmoDiz
  <2>2. SelecaoFora(tab') /\ IniciaisDoElenco(tab') /\ AlvosComVaga(tab', turno')
    BY <1>4, <1>7, <1>8, <1>9, <2>1 DEF SelecaoFora, IniciaisDoElenco, AlvosComVaga, Pendentes
  <2>3. ViradaNoLugar(tab', jogadores', turno')
    BY <1>4, <1>6 DEF ViradaNoLugar, Comecando, Ativo
  <2>4. QED
    BY <1>4, <2>2, <2>3 DEF Apresentavel
<1>12. ASSUME NEW e, Fiel(e)
       PROVE  FielApos(ReduzirEventos(e, LoteDoEncaixe(p)))
  <2>1. PICK w : w = o
    OBVIOUS
  <2>2. PICK r : r = ReduzirEvento(e, [tipo |-> "PECA_POSICIONADA", peca |-> p, celula |-> c,
                                       orientacao |-> w])
    OBVIOUS
  <2>3. FielApos(r)
    <3>1. \A q \in Mesa(tab) : CelulaDe(tab', q) = CelulaDe(tab, q)
      BY <1>4 DEF CelulaDe
    <3>2. turno' = IF turno.atravessou /\ p \in Pendentes(tab) /\ tab.recebidas[p].alvo = c
                   THEN [turno EXCEPT !.travessia = p] ELSE turno
      BY <1>4, <1>7
    <3>3. p \in DOMAIN tab.iniciais \cup Pendentes(tab) /\ Bom(tab')
      BY <1>4, <1>5 DEF Tipos
    <3>4. tab'.manipulacao = IF EhEspecial(p) \/ EhMonstro(p) THEN Nada ELSE p
      BY <1>4, <1>5
    <3>5. tab'.recebidas = Restringir(tab.recebidas,
                                      {q \in Pendentes(tab) : tab.recebidas[q].alvo # c})
      BY <1>4, <1>10
    <3>6. tab'.posicionadas = Estender(tab.posicionadas, p, [celula |-> c, orientacao |-> w])
      BY <1>8, <2>1
    <3> HIDE DEF o
    <3>7. Encaixe(p, c, w)
      BY <1>4, <1>8, <3>1, <3>2, <3>3, <3>4, <3>5, <3>6 DEF Encaixe
    <3>8. QED
      BY <1>12, <2>2, <3>7, EncaixeMostrado
  <2>4. ReduzirEventos(e, LoteDoEncaixe(p)) = r
    <3> DEFINE nova == tab'.posicionadas[p]
               antes == IF EhInicial(p) THEN tab.iniciais[p] ELSE tab.recebidas[p].orientacao
               ev == [tipo |-> "PECA_GIRADA", peca |-> p, orientacao |-> nova.orientacao]
               fv == [tipo |-> "PECA_POSICIONADA", peca |-> p, celula |-> nova.celula,
                      orientacao |-> nova.orientacao]
    <3>1. LoteDoEncaixe(p) = Se(nova.orientacao # antes, ev) \o << fv >>
      BY DEF LoteDoEncaixe
    <3>2. nova.orientacao = w /\ nova.celula = c /\ antes = w
      BY <1>5, <1>9, <2>1
    <3>3. ReduzirEventos(e, Se(nova.orientacao # antes, ev) \o << fv >>) = ReduzirEvento(e, fv)
      <4> HIDE DEF nova, antes, ev, fv
      <4>1. QED
        BY <3>2, SemGiroAntes
    <3>4. fv = [tipo |-> "PECA_POSICIONADA", peca |-> p, celula |-> c, orientacao |-> w]
      BY <3>2
    <3> HIDE DEF nova, antes, ev, fv
    <3>5. QED
      BY <2>2, <3>1, <3>3, <3>4
  <2>5. QED
    BY <2>3, <2>4
<1>13. QED
  BY <1>11, <1>12 DEF Mostrado

LEMMA PosicionarRecebidaMostra ==
  ASSUME Calmo, NEW j, NEW p, NEW c, PosicionarARecebida(j, p, c)
  PROVE  Mostrado(LoteDoEncaixe(p))
<1>1. Tipos /\ tab \in Tabuleiros /\ Bom(tab) /\ Espelhado /\ NaVez /\ (~Comecando => EmAberto)
      /\ AlvosComVaga(tab, turno) /\ IniciaisDoElenco(tab) /\ Ativo \in Jogadores /\ turno \in Turno
  BY CalmoDiz DEF Tipos
<1>2. PICK t : t = Adotada(tab, j)
  OBVIOUS
<1>3. /\ j = Ativo /\ PodePosicionarRecebida(t, p, c) /\ tab' = PosicionarRecebida(t, p, c)
      /\ turno' = IF turno.atravessou THEN [turno EXCEPT !.travessia = p] ELSE turno
      /\ UNCHANGED <<jogadores, iluminadas, graca, geradores, cartao>> /\ AvaliarTermino
  BY <1>2 DEF PosicionarARecebida, PodePosicionarARecebida, DaVez, Ativo
<1>4. /\ Bom(t) /\ t.peoes = tab.peoes /\ t.posicionadas = tab.posicionadas
      /\ t.recebidas = tab.recebidas /\ t.caixa = tab.caixa /\ t.iniciais = tab.iniciais
      /\ (tab.peao # Nada => t.peao = tab.peao) /\ t \in Tabuleiros
  BY <1>1, <1>2, <1>3, AdotadaBom, AdotadaVista DEF Bom
<1>5. /\ Tipos' /\ tab'.peoes = tab.peoes /\ tab'.peao = t.peao
      /\ Mesa(tab') = Mesa(tab) \cup {p} /\ p \notin Mesa(tab) /\ p \in PecasDaCaixa
      /\ p \in Pendentes(tab) /\ Pendentes(tab') = Pendentes(tab) \ {p}
      /\ \A q \in Mesa(tab) : tab'.posicionadas[q] = tab.posicionadas[q]
      /\ \A q \in Pendentes(tab') : tab'.recebidas[q] = tab.recebidas[q]
      /\ tab'.posicionadas[p] = [celula |-> c, orientacao |-> tab.recebidas[p].orientacao]
      /\ tab'.manipulacao \in {Nada, p} /\ c \in Celulas
  <2>1. Pendentes(t) = Pendentes(tab)
    BY <1>4 DEF Pendentes
  <2>2. c \in Celulas
    BY <1>3, <1>4, PosicionarRecebidaBom
  <2>3. QED
    BY <1>1, <1>3, <1>4, <2>1, <2>2, EncaixarRecebidaTipos
<1> DEFINE o == tab.recebidas[p].orientacao
<1>6. /\ tab'.recebidas = Restringir(tab.recebidas, Pendentes(tab) \ {p})
      /\ tab'.posicionadas = Estender(tab.posicionadas, p, [celula |-> c, orientacao |-> o])
      /\ tab'.selecionada = Nada /\ tab'.caixa = tab.caixa /\ tab'.iniciais = tab.iniciais
      /\ tab'.manipulacao = IF EhEspecial(p) \/ EhMonstro(p) THEN Nada ELSE p
  BY <1>3, <1>4 DEF PosicionarRecebida, Tabuleiros, Pendentes
<1>7. tab.recebidas[p].vaga # Nada /\ tab.recebidas[p].alvo = c /\ c # Nada /\ ~EhInicial(p)
      /\ p \notin DOMAIN tab.iniciais
  <2>1. DOMAIN tab.iniciais \subseteq PecasIniciais
    BY <1>1, MesaDe
  <2>2. QED
    BY <1>3, <1>4, <1>5, <2>1, TiposDistintos DEF PodePosicionarRecebida
<1>8. \A q \in Pendentes(tab) \ {p} : tab.recebidas[q].alvo # c
  <2> SUFFICES ASSUME NEW q \in Pendentes(tab), q # p, tab.recebidas[q].alvo = c
               PROVE  FALSE
    OBVIOUS
  <2>1. tab.recebidas[q].vaga = Nada
    BY <1>1, <1>5, <1>7 DEF Espelhado, Escolhidas
  <2>2. turno.atravessou /\ ~turno.confirmada
    BY <1>1, <1>7, <2>1 DEF AlvosComVaga
  <2>3. Unica(Pendentes(tab))
    BY <1>1, <2>2 DEF NaVez, EmAberto, TravessiaAberta
  <2>4. QED
    BY <1>5, <2>3 DEF Unica
<1>9. {q \in Pendentes(tab) : tab.recebidas[q].alvo # c} = Pendentes(tab) \ {p}
  BY <1>7, <1>8
<1>10. Restringir(tab.iniciais, DOMAIN tab.iniciais \ {p}) = tab.iniciais
  <2>1. tab.iniciais = [q \in DOMAIN tab.iniciais |-> tab.iniciais[q]]
    BY <1>1, ParcialDe DEF Tabuleiros
  <2>2. DOMAIN tab.iniciais \ {p} = DOMAIN tab.iniciais
    BY <1>7
  <2>3. QED
    BY <2>1, <2>2 DEF Restringir
<1>11. Apresentavel(tab', jogadores', turno') /\ PecasDa(tab'.caixa) \subseteq PecasDa(tab.caixa)
  <2>1. SelecaoFora(tab') /\ IniciaisDoElenco(tab')
    BY <1>1, <1>6 DEF SelecaoFora, IniciaisDoElenco
  <2>2. turno'.atravessou = turno.atravessou /\ turno'.confirmada = turno.confirmada
        /\ turno'.ativo = Ativo /\ (turno.atravessou => turno'.travessia = p)
    BY <1>1, <1>3 DEF Turno, Ativo
  <2>3. AlvosComVaga(tab', turno')
    BY <1>1, <1>5, <2>2 DEF AlvosComVaga
  <2>4. ViradaNoLugar(tab', jogadores', turno')
    <3>1. Comecando => NoPeao # Nada
      BY <1>1, <1>5 DEF Espelhado
    <3>2. ~Comecando /\ ~turno.confirmada => turno.atravessou
      BY <1>1, <1>5 DEF NaVez, Definida
    <3>3. QED
      BY <1>3, <1>5, <2>2, <3>1, <3>2 DEF ViradaNoLugar, Comecando, NoPeao, Ativo
  <2>5. QED
    BY <1>6, <2>1, <2>3, <2>4 DEF Apresentavel
<1>12. ASSUME NEW e, Fiel(e)
       PROVE  FielApos(ReduzirEventos(e, LoteDoEncaixe(p)))
  <2>1. PICK w : w = o
    OBVIOUS
  <2>2. PICK r : r = ReduzirEvento(e, [tipo |-> "PECA_POSICIONADA", peca |-> p, celula |-> c,
                                       orientacao |-> w])
    OBVIOUS
  <2>3. FielApos(r)
    <3>1. \A q \in Mesa(tab) : CelulaDe(tab', q) = CelulaDe(tab, q)
      BY <1>5 DEF CelulaDe
    <3>2. turno' = IF turno.atravessou /\ p \in Pendentes(tab) /\ tab.recebidas[p].alvo = c
                   THEN [turno EXCEPT !.travessia = p] ELSE turno
      BY <1>3, <1>5, <1>7
    <3>3. p \in DOMAIN tab.iniciais \cup Pendentes(tab) /\ Bom(tab')
      BY <1>5 DEF Tipos
    <3>4. tab'.iniciais = Restringir(tab.iniciais, DOMAIN tab.iniciais \ {p})
      BY <1>6, <1>10
    <3>5. tab'.recebidas = Restringir(tab.recebidas,
                                      {q \in Pendentes(tab) : tab.recebidas[q].alvo # c})
      BY <1>6, <1>9
    <3>6. tab'.posicionadas = Estender(tab.posicionadas, p, [celula |-> c, orientacao |-> w])
      BY <1>6, <2>1
    <3>7. (tab.peao # Nada => tab'.peao = tab.peao)
      BY <1>4, <1>5
    <3> HIDE DEF o
    <3>8. Encaixe(p, c, w)
      BY <1>3, <1>5, <1>6, <3>1, <3>2, <3>3, <3>4, <3>5, <3>6, <3>7 DEF Encaixe
    <3>9. QED
      BY <1>12, <2>2, <3>8, EncaixeMostrado
  <2>4. ReduzirEventos(e, LoteDoEncaixe(p)) = r
    <3> DEFINE nova == tab'.posicionadas[p]
               antes == IF EhInicial(p) THEN tab.iniciais[p] ELSE tab.recebidas[p].orientacao
               ev == [tipo |-> "PECA_GIRADA", peca |-> p, orientacao |-> nova.orientacao]
               fv == [tipo |-> "PECA_POSICIONADA", peca |-> p, celula |-> nova.celula,
                      orientacao |-> nova.orientacao]
    <3>1. LoteDoEncaixe(p) = Se(nova.orientacao # antes, ev) \o << fv >>
      BY DEF LoteDoEncaixe
    <3>2. nova.orientacao = w /\ nova.celula = c /\ antes = w
      BY <1>5, <1>7, <2>1
    <3>3. ReduzirEventos(e, Se(nova.orientacao # antes, ev) \o << fv >>) = ReduzirEvento(e, fv)
      <4> HIDE DEF nova, antes, ev, fv
      <4>1. QED
        BY <3>2, SemGiroAntes
    <3>4. fv = [tipo |-> "PECA_POSICIONADA", peca |-> p, celula |-> c, orientacao |-> w]
      BY <3>2
    <3> HIDE DEF nova, antes, ev, fv
    <3>5. QED
      BY <2>2, <3>1, <3>3, <3>4
  <2>5. QED
    BY <2>3, <2>4
<1>13. QED
  BY <1>11, <1>12 DEF Mostrado

(* The pawn goes to another piece.                                         *)
LEMMA PeaoMudado ==
  ASSUME NEW t, Bom(t), NEW n, Bom(n), NEW j \in DOMAIN t.peoes, NEW p \in Mesa(n),
         n.peoes = [t.peoes EXCEPT ![j] = p],
         \A q \in Mesa(t) : (\E k \in DOMAIN t.peoes : t.peoes[k] = q) => CelulaDe(n, q) = CelulaDe(t, q),
         NEW D, D = DOMAIN t.peoes, NEW c, c = CelulaDe(n, p)
  PROVE  [k \in D |-> CelulaDoPeao(n, k)] = [[k \in D |-> CelulaDoPeao(t, k)] EXCEPT ![j] = c]
<1>1. Nada \notin Mesa(n) /\ DOMAIN n.peoes = DOMAIN t.peoes
  BY MesaDe, TiposDistintos DEF Bom
<1>2. CelulaDoPeao(n, j) = c
  BY <1>1, CelulaSob
<1>3. ASSUME NEW k \in D, k # j
      PROVE  CelulaDoPeao(n, k) = CelulaDoPeao(t, k)
  <2>1. n.peoes[k] = t.peoes[k] /\ k \in DOMAIN t.peoes /\ k \in DOMAIN n.peoes
    BY <1>1, <1>3
  <2>2. t.peoes[k] # Nada => t.peoes[k] \in Mesa(t)
    BY <2>1 DEF Bom, PeoesSobrePecas
  <2>3. QED
    BY <2>1, <2>2, CelulaSob
<1>4. QED
  BY <1>2, <1>3

LEMMA MoverMostra ==
  ASSUME Calmo, NEW j, NEW p, MoverOPeao(j, p)
  PROVE  Mostrado(<< [tipo |-> "PEAO_MOVIDO", peao |-> j, de |-> NaPeca(j), para |-> p,
                      celula |-> CelulaDe(tab, p)] >>)
<1> DEFINE ev == [tipo |-> "PEAO_MOVIDO", peao |-> j, de |-> NaPeca(j), para |-> p,
                  celula |-> CelulaDe(tab, p)]
<1>1. Tipos /\ tab \in Tabuleiros /\ Bom(tab) /\ Ativo # Nada /\ DOMAIN tab.peoes = DOMAIN jogadores
  BY CalmoDiz
<1>2. /\ Bom(tab') /\ j = Ativo /\ j \in DOMAIN tab.peoes
      /\ tab'.peoes = [tab.peoes EXCEPT ![j] = p]
      /\ tab'.posicionadas = tab.posicionadas /\ tab'.recebidas = tab.recebidas
      /\ tab'.peao = tab.peao /\ tab'.caixa = tab.caixa
      /\ UNCHANGED <<jogadores, turno, iluminadas, geradores, cartao>>
  BY <1>1, MoverOPeaoTipos DEF Tipos, Ativo
<1>3. tab.peao = j /\ p \in Mesa(tab) /\ ~Comecando /\ tab' = MoverPeao(tab, j, p)
  BY <1>2 DEF MoverOPeao, PodeMoverOPeao, PodeMoverPeao, SemPassoDefinitivo, Comecando
<1>4. /\ tab'.iniciais = tab.iniciais /\ tab'.selecionada = tab.selecionada
      /\ tab'.manipulacao = tab.manipulacao
  BY <1>1, <1>3 DEF MoverPeao, Tabuleiros
<1>5. Apresentavel(tab', jogadores', turno')
  <2>1. /\ SelecaoFora(tab) /\ IniciaisDoElenco(tab) /\ AlvosComVaga(tab, turno)
        /\ ViradaNoLugar(tab, jogadores, turno)
    BY CalmoDiz
  <2>2. SelecaoFora(tab') /\ IniciaisDoElenco(tab') /\ AlvosComVaga(tab', turno')
    BY <1>2, <1>4, <2>1 DEF SelecaoFora, IniciaisDoElenco, AlvosComVaga, Pendentes
  <2>3. ViradaNoLugar(tab', jogadores', turno')
    BY <1>2, <1>3, <1>4, <2>1 DEF ViradaNoLugar, Comecando, Ativo
  <2>4. QED
    BY <2>2, <2>3 DEF Apresentavel
<1>6. ASSUME NEW e, Fiel(e)
      PROVE  FielApos(ReduzirEventos(e, << ev >>))
  <2>1. /\ Molde(e) /\ RetratoDaMesa(e, tab) /\ RetratoDoTurno(e, turno)
        /\ RetratoDosPeoes(e, tab, jogadores) /\ RetratoDoElenco(e, jogadores)
        /\ RetratoDosBens(e, iluminadas, geradores, cartao)
    BY <1>6 DEF Fiel, Retrato
  <2>2. PICK r : r = ReduzirEvento(e, ev)
    OBVIOUS
  <2>3. ev.peao = j /\ ev.tipo = "PEAO_MOVIDO" /\ ev.celula = CelulaDe(tab, p)
    OBVIOUS
  <2> HIDE DEF ev
  <2>4. /\ Intocados(e, r, {"peoes", "peao", "movimentou"})
        /\ r.peoes = [e.peoes EXCEPT ![j] = CelulaDe(tab, p)] /\ r.peao = j
    <3>1. e.dono = [k \in DOMAIN jogadores |-> k] /\ j \in DOMAIN jogadores /\ e.ativo = j
          /\ j # Nada /\ j \in DOMAIN e.peoes
      BY <1>1, <1>2, <2>1 DEF RetratoDoElenco, RetratoDoTurno, RetratoDosPeoes, Ativo
    <3>2. Intocados(e, r, {"peoes", "peao", "movimentou"})
          /\ r.peoes = [e.peoes EXCEPT ![j] = ev.celula] /\ r.peao = j
      BY <2>1, <2>2, <2>3, <3>1, AoPisar
    <3>3. QED
      BY <2>3, <3>2
  <2>5. RetratoDosPeoes(r, tab', jogadores')
    <3>1. PICK n : n = tab'
      OBVIOUS
    <3>2. PICK c : c = CelulaDe(tab, p)
      OBVIOUS
    <3>3. p \in Mesa(n) /\ c = CelulaDe(n, p) /\ \A q \in Mesa(tab) : CelulaDe(n, q) = CelulaDe(tab, q)
      BY <1>2, <1>3, <3>1, <3>2 DEF CelulaDe, Mesa
    <3>4. PICK D : D = DOMAIN tab.peoes
      OBVIOUS
    <3>5. [k \in D |-> CelulaDoPeao(n, k)] = [[k \in D |-> CelulaDoPeao(tab, k)] EXCEPT ![j] = c]
      BY <1>1, <1>2, <3>1, <3>3, <3>4, PeaoMudado
    <3>6. QED
      BY <1>1, <1>2, <2>1, <2>4, <3>1, <3>2, <3>4, <3>5 DEF RetratoDosPeoes
  <2>6. RetratoDaMesa(r, tab')
    BY <1>2, <1>3, <1>4, <2>1, <2>4 DEF RetratoDaMesa, Intocados, Campos
  <2>7. RetratoDoTurno(r, turno') /\ RetratoDoElenco(r, jogadores') /\ Molde(r)
        /\ RetratoDosBens(r, iluminadas', geradores', cartao')
    BY <1>2, <2>1, <2>4 DEF RetratoDoTurno, RetratoDoElenco, RetratoDosBens, Intocados, Campos
  <2>8. FielApos(r)
    BY <2>5, <2>6, <2>7 DEF FielApos, Retrato
  <2>9. QED
    BY <2>2, <2>8, DobraUm
<1>7. QED
  BY <1>2, <1>5, <1>6 DEF Mostrado

(* What was drawn came from the Caixa.                                     *)
LEMMA SorteioContado ==
  ASSUME NEW t, Bom(t), NEW p \in Mesa(t), NEW n, \E e, l, a : n = GerarRecebidas(t, p, e, l, a)
  PROVE  Sorteou(t, n) /\ n.selecionada = t.selecionada
<1>1. PICK emBaixa, luz, alvo : n = GerarRecebidas(t, p, emBaixa, luz, alvo)
  OBVIOUS
<1> DEFINE q == QuantidadeSorteada(t, p, emBaixa, luz)
           c == SubSeq(t.caixa, q + 1, Len(t.caixa))
           S == {t.caixa[i] : i \in 1..q}
           r == [x \in S |-> [orientacao |-> 0, vaga |-> Nada, alvo |-> alvo]]
<1>2. q \in 0 .. Len(t.caixa) /\ Len(t.caixa) \in Nat /\ t.caixa \in Seq(PecasDaCaixa)
  BY QuantidadeCabe, LenProperties DEF Bom, Tabuleiros
<1>3. n = [t EXCEPT !.caixa = c, !.recebidas = r]
  BY <1>1, Zenon DEF GerarRecebidas
<1> HIDE DEF q
<1>4. DOMAIN t.caixa = 1 .. Len(t.caixa)
  BY <1>2, LenProperties
<1>5. /\ Len(c) = Len(t.caixa) - q /\ DOMAIN c = 1 .. Len(t.caixa) - q
      /\ \A i \in 1 .. Len(t.caixa) - q : c[i] = t.caixa[q + i]
  BY <1>2, <1>4
<1>6. S \subseteq PecasDa(t.caixa)
  BY <1>2, <1>4 DEF PecasDa
<1>7. PecasDa(c) \subseteq PecasDa(t.caixa)
  <2>1. \A i \in DOMAIN c : q + i \in DOMAIN t.caixa
    BY <1>2, <1>4, <1>5
  <2>2. QED
    BY <1>5, <2>1 DEF PecasDa
<1>8. Cardinality(S) = q
  <2> DEFINE f == [i \in 1..q |-> t.caixa[i]]
  <2>1. IsFiniteSet(1..q) /\ Cardinality(1..q) = q
    <3>1. 1 \in Int /\ q \in Int
      BY <1>2
    <3>2. IsFiniteSet(1..q) /\ Cardinality(1..q) = IF 1 > q THEN 0 ELSE q - 1 + 1
      BY <3>1, FS_Interval, Zenon
    <3>3. QED
      BY <1>2, <3>2
  <2>2. f \in Surjection(1..q, S)
    BY DEF Surjection
  <2>3. f \in Injection(1..q, S)
    <3>1. SemRepeticao(t.caixa)
      BY DEF Bom, PecasSeparadas
    <3>2. \A i, k \in 1..q : i \in DOMAIN t.caixa /\ k \in DOMAIN t.caixa
      BY <1>2, <1>4
    <3>3. QED
      BY <3>1, <3>2 DEF Injection, IsInjective, SemRepeticao
  <2> HIDE DEF f, S
  <2>4. QED
    BY <2>1, <2>2, <2>3, FS_Surjection
<1>9. DOMAIN r = S
  OBVIOUS
<1> HIDE DEF c, S, r
<1>10. n.caixa = c /\ n.recebidas = r /\ n.selecionada = t.selecionada
  BY <1>3 DEF Bom, Tabuleiros
<1>11. QED
  BY <1>2, <1>5, <1>6, <1>7, <1>8, <1>9, <1>10 DEF Sorteou, Pendentes

LEMMA SemSorteio ==
  ASSUME NEW t, Bom(t), NEW n, n.caixa = t.caixa, n.recebidas = << >>
  PROVE  Sorteou(t, n)
<1>1. Pendentes(n) = {} /\ Cardinality({}) = 0
  BY ParcialVazia, FS_EmptySet DEF Pendentes
<1>2. Len(t.caixa) \in Nat
  BY LenProperties DEF Bom, Tabuleiros
<1>3. QED
  BY <1>1, <1>2 DEF Sorteou

LEMMA MesmoSorteio ==
  ASSUME NEW t, NEW n, Sorteou(t, n), NEW s, s.caixa = t.caixa,
         NEW m, m.caixa = n.caixa, m.recebidas = n.recebidas
  PROVE  Sorteou(s, m)
BY DEF Sorteou, Pendentes

LEMMA AtravessarMostra ==
  ASSUME Calmo, NEW j, NEW c \in Celulas, AtravessarOEscuro(j, c)
  PROVE  Mostrado(IF turno'.atravessou
                  THEN << [tipo |-> "ATRAVESSOU_O_ESCURO", peao |-> j] >> \o Sorteio ELSE << >>)
<1> DEFINE ev == [tipo |-> "ATRAVESSOU_O_ESCURO", peao |-> j]
           g == GerarRecebidas(tab, NaPeca(j), TRUE, Luz(tab, jogadores), c)
<1>1. /\ Tipos /\ NaVez /\ Bom(tab) /\ tab \in Tabuleiros /\ SelecaoFora(tab) /\ IniciaisDoElenco(tab)
      /\ ViradaNoLugar(tab, jogadores, turno) /\ turno \in Turno
  BY CalmoDiz DEF Tipos
<1>2. /\ Tipos' /\ Bom(tab') /\ tab'.peoes = tab.peoes /\ tab'.posicionadas = tab.posicionadas
      /\ tab'.manipulacao = tab.manipulacao /\ PodeAtravessar(j, c)
      /\ turno' = [turno EXCEPT !.atravessou = tab'.recebidas # << >>]
      /\ UNCHANGED <<jogadores, iluminadas, geradores, cartao>>
  BY <1>1, AtravessarTipos DEF Tipos
<1>3. j = Ativo /\ ~Comecando /\ ~turno.confirmada /\ ~turno.atravessou /\ NaPeca(j) \in Mesa(tab)
  BY <1>2 DEF PodeAtravessar, SemPassoDefinitivo, DaVez, Ativo, Comecando
<1>4. Pendentes(tab) = {} /\ tab.recebidas = << >>
  BY <1>1, <1>3, MesaDe DEF NaVez, Definida
<1>5. tab' = ComSelecao(g, j)
  BY DEF AtravessarOEscuro
<1>6. Sorteou(tab, g) /\ g.selecionada = tab.selecionada
  <2>1. \E e, l, a : g = GerarRecebidas(tab, NaPeca(j), e, l, a)
    BY Zenon
  <2> HIDE DEF g
  <2>2. QED
    BY <1>1, <1>3, <2>1, SorteioContado
<1>7. Bom(g) /\ g.peao = tab.peao /\ g.iniciais = tab.iniciais
  <2>1. \A e, l : LET n == GerarRecebidas(tab, NaPeca(j), e, l, c)
                  IN  /\ Bom(n) /\ n.peoes = tab.peoes /\ n.posicionadas = tab.posicionadas
                      /\ n.iniciais = tab.iniciais /\ n.peao = tab.peao
                      /\ n.manipulacao = tab.manipulacao
                      /\ Pendentes(n) \subseteq PecasDa(tab.caixa)
                      /\ PecasDa(n.caixa) \subseteq PecasDa(tab.caixa)
                      /\ \A r \in Pendentes(n) :
                           n.recebidas[r] = [orientacao |-> 0, vaga |-> Nada, alvo |-> c]
    BY <1>1, <1>3, SorteioBom
  <2>2. QED
    BY <2>1, Zenon
<1> HIDE DEF g
<1>8. /\ tab'.caixa = g.caixa /\ tab'.recebidas = g.recebidas /\ tab'.selecionada = tab.selecionada
      /\ tab'.iniciais = tab.iniciais /\ (tab.peao # Nada => tab'.peao = tab.peao)
  BY <1>5, <1>6, <1>7 DEF ComSelecao, Bom, Tabuleiros
<1>9. Sorteou(tab, tab')
  BY <1>6, <1>8, MesmoSorteio
<1>10. /\ turno'.ativo = turno.ativo /\ turno'.rodada = turno.rodada /\ turno'.inicio = turno.inicio
       /\ turno'.confirmada = turno.confirmada /\ turno'.travessia = turno.travessia
       /\ turno'.atravessou = (tab'.recebidas # << >>)
  BY <1>1, <1>2 DEF Turno
<1>11. tab'.recebidas = << >> <=> Pendentes(tab') = {}
  BY <1>2, MesaDe DEF Bom
<1>12. Apresentavel(tab', jogadores', turno')
  <2>1. SelecaoFora(tab') /\ IniciaisDoElenco(tab')
    BY <1>1, <1>4, <1>8 DEF SelecaoFora, IniciaisDoElenco
  <2>2. AlvosComVaga(tab', turno')
    BY <1>3, <1>10, <1>11 DEF AlvosComVaga
  <2>3. ViradaNoLugar(tab', jogadores', turno')
    BY <1>1, <1>2, <1>10 DEF ViradaNoLugar
  <2>4. QED
    BY <2>1, <2>2, <2>3 DEF Apresentavel
<1>13. \A q \in Mesa(tab) : CelulaDe(tab', q) = CelulaDe(tab, q)
  BY <1>2 DEF CelulaDe
<1>14. ASSUME NEW e, Fiel(e)
       PROVE  FielApos(ReduzirEventos(e, IF turno'.atravessou THEN << ev >> \o Sorteio ELSE << >>))
  <2>1. Molde(e) /\ RetratoDaMesa(e, tab) /\ RetratoDoTurno(e, turno)
    BY <1>14 DEF Fiel, Retrato
  <2>2. CASE ~turno'.atravessou
    <3>1. ReduzirEventos(e, IF turno'.atravessou THEN << ev >> \o Sorteio ELSE << >>) = e
      BY <2>2, DobraVazia
    <3>2. RetratoDaMesa(e, tab')
      <4>1. Len(tab'.caixa) = Len(tab.caixa) /\ PecasDa(tab'.caixa) \subseteq PecasDa(tab.caixa)
        <5>1. Cardinality(Pendentes(tab')) = 0
          BY <1>10, <1>11, <2>2, FS_EmptySet
        <5>2. QED
          BY <1>9, <5>1 DEF Sorteou
      <4>2. tab'.recebidas = << >>
        BY <1>10, <2>2
      <4>3. QED
        BY <1>2, <1>4, <1>8, <2>1, <4>1, <4>2 DEF RetratoDaMesa
    <3>3. RetratoDoTurno(e, turno')
      BY <1>1, <1>3, <1>10, <2>1, <2>2 DEF RetratoDoTurno, Turno
    <3>4. Intocados(e, e, {}) /\ {} \subseteq CamposDaMesa
      BY <2>1, Nenhum
    <3>5. QED
      BY <1>2, <1>13, <1>14, <3>1, <3>2, <3>3, <3>4, SoAMesa
  <2>3. CASE turno'.atravessou
    <3>1. PICK r : r = ReduzirEventos(e, IF turno'.atravessou THEN << ev >> \o Sorteio ELSE << >>)
      OBVIOUS
    <3>2. PICK f : f = ReduzirEvento(e, ev)
      OBVIOUS
    <3>3. Intocados(e, f, {"atravessou"}) /\ f.atravessou = TRUE /\ Molde(f)
      <4>1. Intocados(e, f, {"atravessou"}) /\ f.atravessou = TRUE
        BY <2>1, <3>2, AoAtravessar
      <4>2. QED
        BY <4>1 DEF Intocados
    <3> HIDE DEF ev
    <3>4. /\ f.restam = Len(tab.caixa) /\ f.recebidas = << >>
          /\ f.conhecidas \cap PecasDa(tab.caixa) = {}
      BY <1>4, <2>1, <3>3 DEF Intocados, Campos, RetratoDaMesa
    <3>5. PICK s : s = ReduzirEventos(f, Sorteio)
      OBVIOUS
    <3>6. /\ EhLote(Sorteio) /\ Intocados(f, s, {"conhecidas", "restam", "recebidas"})
          /\ s.recebidas = tab'.recebidas /\ s.restam = Len(tab'.caixa)
          /\ s.conhecidas = f.conhecidas \cup Pendentes(tab')
      BY <1>4, <1>9, <1>11, <3>3, <3>4, <3>5, AoGerar
    <3>7. r = s
      <4>0. PICK u, z : u = << ev >> /\ z = Sorteio
        OBVIOUS
      <4>1. EhLote(u) /\ EhLote(z) /\ ReduzirEventos(e, u) = f
        BY <3>2, <3>6, <4>0, DobraUm
      <4>2. r = ReduzirEventos(e, u \o z)
        BY <2>3, <3>1, <4>0
      <4>3. ReduzirEventos(e, u \o z) = ReduzirEventos(ReduzirEventos(e, u), z)
        BY <4>1, DobraJunta
      <4>4. QED
        BY <3>5, <4>0, <4>1, <4>2, <4>3
    <3>8. Intocados(e, r, {"atravessou", "conhecidas", "restam", "recebidas"}) /\ r.atravessou = TRUE
      BY <3>3, <3>6, <3>7 DEF Intocados, Campos
    <3>9. RetratoDaMesa(r, tab')
      <4>1. r.conhecidas = e.conhecidas \cup Pendentes(tab')
        BY <3>3, <3>6, <3>7 DEF Intocados, Campos
      <4>2. Pendentes(tab') \cap PecasDa(tab'.caixa) = {} /\ PecasDa(tab'.caixa) \subseteq PecasDa(tab.caixa)
        BY <1>2, <1>9 DEF Bom, PecasSeparadas, Sorteou
      <4>3. r.conhecidas \cap PecasDa(tab'.caixa) = {}
        BY <2>1, <4>1, <4>2 DEF RetratoDaMesa
      <4>4. QED
        BY <1>2, <1>8, <2>1, <3>6, <3>7, <3>8, <4>3 DEF RetratoDaMesa, Intocados, Campos
    <3>10. RetratoDoTurno(r, turno')
      BY <1>10, <2>1, <2>3, <3>8 DEF RetratoDoTurno, Intocados, Campos, Tipos, Turno
    <3>11. {"atravessou", "conhecidas", "restam", "recebidas"} \subseteq CamposDaMesa
      BY DEF CamposDaMesa
    <3>12. FielApos(r)
      BY <1>2, <1>13, <1>14, <3>8, <3>9, <3>10, <3>11, SoAMesa
    <3>13. QED
      BY <3>1, <3>12
  <2>4. QED
    BY <2>2, <2>3
<1>15. PecasDa(tab'.caixa) \subseteq PecasDa(tab.caixa)
  BY <1>9 DEF Sorteou
<1>16. QED
  BY <1>12, <1>14, <1>15 DEF Mostrado

(* The turn passes on: it begins on the piece under the pawn of its Player.*)
LEMMA InicioVisto ==
  ASSUME NEW t, Bom(t), NEW e, e.posicionadas = t.posicionadas, NEW D, D = DOMAIN t.peoes,
         e.peoes = [k \in D |-> CelulaDoPeao(t, k)], e.dono = [k \in D |-> k], NEW j \in D
  PROVE  SobOPeao(e, DonoDe(e, j)) = t.peoes[j]
<1> DEFINE c == CelulaDoPeao(t, j)
<1>1. DonoDe(e, j) = j
  BY DEF DonoDe
<1>2. SobOPeao(e, j) = PecaEm(e, c)
  BY DEF SobOPeao
<1>3. c = IF t.peoes[j] = Nada THEN Nada ELSE CelulaDe(t, t.peoes[j])
  BY CelulaSob
<1> HIDE DEF c
<1>4. CASE t.peoes[j] = Nada
  <2>1. PecasEm(e, c) = {}
    BY <1>3, <1>4 DEF PecasEm
  <2>2. QED
    BY <1>1, <1>2, <1>4, <2>1 DEF PecaEm
<1>5. CASE t.peoes[j] # Nada
  <2> DEFINE p == t.peoes[j]
  <2>1. p \in Mesa(t) /\ c = CelulaDe(t, p)
    BY <1>3, <1>5 DEF Bom, PeoesSobrePecas
  <2>2. c \in Celulas /\ c # Nada
    BY <2>1, MesaDe, TiposDistintos DEF Bom
  <2>3. PecasEm(e, c) = {p}
    <3>1. \A q \in Mesa(t) : q # p => CelulaDe(t, q) # CelulaDe(t, p)
      BY <2>1 DEF Bom, PecasSeparadas
    <3>2. PecasEm(e, c) = {q \in Mesa(t) : CelulaDe(t, q) = c}
      BY <2>2 DEF PecasEm, Mesa, CelulaDe
    <3>3. QED
      BY <2>1, <3>1, <3>2
  <2>4. QED
    BY <1>1, <1>2, <2>3 DEF PecaEm
<1>6. QED
  BY <1>4, <1>5

LEMMA AlguemAcordado ==
  ASSUME AvaliarTermino, resultado' = Nada, Tipos'
  PROVE  Acordados(jogadores') # {}
<1>1. jogadores' \in Elencos /\ \A j \in DOMAIN jogadores' : Sadio(jogadores'[j])
  BY DEF Tipos
<1>2. PICK j \in DOMAIN jogadores' : jogadores'[j].sanidade # 0
  BY <1>1, Avaliado
<1>3. QED
  BY <1>1, <1>2 DEF Acordados, Sadio

LEMMA VezApresentavel ==
  ASSUME Calmo, Bom(tab'), tab' = SemSequencia(tab'), tab'.iniciais = tab.iniciais
  PROVE  Apresentavel(tab', jogadores', turno')
<1>1. PICK n : n = tab'
  OBVIOUS
<1>2. /\ n.selecionada = Nada /\ n.manipulacao = Nada /\ Pendentes(n) = {}
      /\ n.iniciais = tab.iniciais
  <2>1. Bom(n) /\ n = SemSequencia(n) /\ n.iniciais = tab.iniciais
    BY <1>1
  <2>2. QED
    BY <2>1, ParcialVazia DEF SemSequencia, Bom, Tabuleiros, Pendentes
<1>3. IniciaisDoElenco(tab)
  BY CalmoDiz
<1>4. SelecaoFora(n) /\ IniciaisDoElenco(n) /\ AlvosComVaga(n, turno') /\ ViradaNoLugar(n, jogadores', turno')
  BY <1>2, <1>3 DEF SelecaoFora, IniciaisDoElenco, AlvosComVaga, ViradaNoLugar
<1>5. QED
  BY <1>1, <1>4 DEF Apresentavel

(* What the mirror e before the passing on must be a picture of.           *)
VezPorPassar(e) ==
  /\ Molde(e) /\ e.iniciais = tab'.iniciais /\ e.posicionadas = tab'.posicionadas
  /\ e.restam = Len(tab'.caixa) /\ e.conhecidas \cap PecasDa(tab'.caixa) = {}
  /\ RetratoDosPeoes(e, tab', jogadores') /\ RetratoDoElenco(e, jogadores')
  /\ RetratoDosBens(e, iluminadas', geradores', cartao')

LEMMA VezMostrada ==
  ASSUME Tipos', resultado' = Nada, AvaliarTermino, tab' = SemSequencia(tab'),
         turno'.inicio = tab'.peoes[turno'.ativo], turno'.confirmada = FALSE,
         turno'.atravessou = FALSE, turno'.travessia = Nada,
         NEW e, VezPorPassar(e), NEW j, NEW r, r = ReduzirEventos(e, Passagem(j))
  PROVE  EhLote(Passagem(j)) /\ FielApos(r)
<1>1. Acordados(jogadores') # {}
  BY AlguemAcordado
<1>2. /\ Bom(tab') /\ turno'.ativo \in DOMAIN jogadores' /\ DOMAIN tab'.peoes = DOMAIN jogadores'
      /\ turno'.ativo # Nada
  BY PartidaAssumption DEF Tipos, Turno, Jogadores
<1>3. PICK n : n = tab'
  OBVIOUS
<1>4. /\ n.selecionada = Nada /\ n.manipulacao = Nada /\ n.recebidas = << >>
  <2>1. Bom(n) /\ n = SemSequencia(n)
    BY <1>2, <1>3
  <2>2. QED
    BY <2>1 DEF SemSequencia, Bom, Tabuleiros
<1>5. Molde(e)
  BY DEF VezPorPassar
<1>6. /\ EhLote(Passagem(j))
      /\ Intocados(e, r, CamposDaFase \cup {"ativo", "rodada", "inicio"})
      /\ SemNadaNaFase(r) /\ r.ativo = turno'.ativo /\ r.rodada = turno'.rodada
      /\ r.inicio = SobOPeao(e, DonoDe(e, turno'.ativo))
  BY <1>1, <1>2, <1>5, AoPassar
<1>7. r.inicio = turno'.inicio
  <2>1. PICK D, k : D = DOMAIN tab'.peoes /\ k = turno'.ativo
    OBVIOUS
  <2>2. e.posicionadas = n.posicionadas /\ D = DOMAIN n.peoes /\ k \in D /\ Bom(n)
    BY <1>2, <1>3, <2>1 DEF VezPorPassar
  <2>3. e.peoes = [x \in D |-> CelulaDoPeao(n, x)] /\ e.dono = [x \in D |-> x]
    BY <1>2, <1>3, <2>1 DEF VezPorPassar, RetratoDosPeoes, RetratoDoElenco
  <2>4. SobOPeao(e, DonoDe(e, k)) = n.peoes[k]
    BY <2>2, <2>3, InicioVisto
  <2>5. QED
    BY <1>3, <1>6, <2>1, <2>4
<1>8. Molde(r) /\ \A c \in {"iniciais", "posicionadas", "restam", "conhecidas", "peoes", "dono",
                            "jogadores", "iluminadas", "geradores", "cartao"} : r[c] = e[c]
  BY <1>6 DEF Intocados, Campos, CamposDaFase
<1>9. RetratoDaMesa(r, tab')
  BY <1>3, <1>4, <1>6, <1>8 DEF RetratoDaMesa, VezPorPassar, SemNadaNaFase
<1>10. RetratoDoTurno(r, turno')
  BY <1>6, <1>7 DEF RetratoDoTurno, SemNadaNaFase
<1>11. /\ RetratoDosPeoes(r, tab', jogadores') /\ RetratoDoElenco(r, jogadores')
       /\ RetratoDosBens(r, iluminadas', geradores', cartao')
  BY <1>8 DEF RetratoDosPeoes, RetratoDoElenco, RetratoDosBens, VezPorPassar
<1>12. QED
  BY <1>6, <1>8, <1>9, <1>10, <1>11 DEF FielApos, Retrato

LEMMA EncerrarMostra ==
  ASSUME Calmo, NEW j, EncerrarTurno(j), resultado' = Nada
  PROVE  Mostrado(Passagem(j))
<1>1. /\ Tipos /\ tab \in Tabuleiros /\ Bom(tab) /\ DOMAIN tab.peoes = DOMAIN jogadores
      /\ jogadores \in Elencos
  BY CalmoDiz DEF Tipos
<1>2. /\ Tipos' /\ j = turno.ativo /\ tab'.peoes = tab.peoes
      /\ tab' = SemSequencia(tab') /\ tab'.posicionadas = tab.posicionadas
      /\ DOMAIN jogadores' = DOMAIN jogadores
      /\ turno'.inicio = tab'.peoes[turno'.ativo]
      /\ ~turno'.confirmada /\ ~turno'.atravessou /\ turno'.travessia = Nada
      /\ UNCHANGED <<iluminadas, graca, geradores, cartao>>
      /\ tab'.iniciais = tab.iniciais /\ AvaliarTermino
  BY <1>1, EncerrarTurnoTipos
<1>3. turno'.confirmada = FALSE /\ turno'.atravessou = FALSE /\ Bom(tab')
  BY <1>2 DEF Tipos, Turno
<1>4. tab'.caixa = tab.caixa
  <2>1. tab' = SemSequencia(tab)
    BY DEF EncerrarTurno
  <2>2. QED
    BY <1>1, <2>1, SemSequenciaBom
<1>5. \A k \in DOMAIN jogadores : /\ jogadores'[k].sanidade = jogadores[k].sanidade
                                  /\ jogadores'[k].baixa = jogadores[k].baixa
                                  /\ jogadores'[k].amedrontado = jogadores[k].amedrontado
  <2>1. jogadores' = [jogadores EXCEPT ![j].primeiroTurno = FALSE]
    BY DEF EncerrarTurno
  <2>2. QED
    BY <1>1, <2>1, ElencoDe DEF Jogador
<1>6. j \in DOMAIN jogadores
  BY <1>1, <1>2 DEF Tipos
<1>7. ASSUME NEW e, Fiel(e)
      PROVE  FielApos(ReduzirEventos(e, Passagem(j)))
  <2>1. VezPorPassar(e)
    <3>1. /\ Molde(e) /\ RetratoDaMesa(e, tab) /\ RetratoDosPeoes(e, tab, jogadores)
          /\ RetratoDoElenco(e, jogadores) /\ RetratoDosBens(e, iluminadas, geradores, cartao)
      BY <1>7 DEF Fiel, Retrato
    <3>2. RetratoDosPeoes(e, tab', jogadores')
      <4>1. PICK n : n = tab'
        OBVIOUS
      <4>2. /\ Bom(n) /\ n.peoes = tab.peoes /\ \A q \in Mesa(tab) : CelulaDe(n, q) = CelulaDe(tab, q)
        BY <1>2, <1>3, <4>1 DEF CelulaDe
      <4>3. [k \in DOMAIN jogadores |-> CelulaDoPeao(n, k)]
              = [k \in DOMAIN jogadores |-> CelulaDoPeao(tab, k)]
        BY <1>1, <4>2, PeoesParados
      <4>4. QED
        BY <1>2, <3>1, <4>1, <4>3 DEF RetratoDosPeoes
    <3>3. RetratoDoElenco(e, jogadores')
      <4>1. MesmoElenco(e.jogadores, jogadores)
        BY <3>1 DEF RetratoDoElenco
      <4>2. PICK ks : ks = jogadores'
        OBVIOUS
      <4>3. MesmoElenco(e.jogadores, ks)
        BY <1>2, <1>5, <1>6, <4>1, <4>2, ProtecaoIgnorada
      <4>4. QED
        BY <1>2, <3>1, <4>2, <4>3 DEF RetratoDoElenco
    <3>4. QED
      BY <1>2, <1>4, <3>1, <3>2, <3>3 DEF VezPorPassar, RetratoDaMesa, RetratoDosBens
  <2>2. QED
    BY <1>2, <1>3, <2>1, VezMostrada
<1>8. Apresentavel(tab', jogadores', turno')
  BY <1>2, <1>3, VezApresentavel
<1>9. QED
  BY <1>4, <1>7, <1>8 DEF Mostrado

(* Parts of a lot, one after the other.                                    *)
LEMMA QuatroPartes ==
  ASSUME NEW e, NEW a, NEW b, NEW c, NEW d, EhLote(a), EhLote(b), EhLote(c), EhLote(d)
  PROVE  /\ EhLote(((a \o b) \o c) \o d)
         /\ ReduzirEventos(e, ((a \o b) \o c) \o d)
              = ReduzirEventos(ReduzirEventos(ReduzirEventos(ReduzirEventos(e, a), b), c), d)
<1>1. PICK x : x = a \o b
  OBVIOUS
<1>2. EhLote(x) /\ ReduzirEventos(e, x) = ReduzirEventos(ReduzirEventos(e, a), b)
  BY <1>1, DobraJunta
<1>3. PICK y : y = x \o c
  OBVIOUS
<1>4. EhLote(y) /\ ReduzirEventos(e, y) = ReduzirEventos(ReduzirEventos(e, x), c)
  BY <1>2, <1>3, DobraJunta
<1>5. EhLote(y \o d) /\ ReduzirEventos(e, y \o d) = ReduzirEventos(ReduzirEventos(e, y), d)
  BY <1>4, DobraJunta
<1>6. QED
  BY <1>1, <1>2, <1>3, <1>4, <1>5

LEMMA CincoPartes ==
  ASSUME NEW e, NEW a, NEW b, NEW c, NEW d, NEW f,
         EhLote(a), EhLote(b), EhLote(c), EhLote(d), EhLote(f)
  PROVE  ReduzirEventos(e, (((a \o b) \o c) \o d) \o f)
           = ReduzirEventos(ReduzirEventos(ReduzirEventos(ReduzirEventos(
               ReduzirEventos(e, a), b), c), d), f)
<1>1. PICK x : x = ((a \o b) \o c) \o d
  OBVIOUS
<1>2. EhLote(x) /\ ReduzirEventos(e, x)
                     = ReduzirEventos(ReduzirEventos(ReduzirEventos(ReduzirEventos(e, a), b), c), d)
  BY <1>1, QuatroPartes
<1>3. ReduzirEventos(e, x \o f) = ReduzirEventos(ReduzirEventos(e, x), f)
  BY <1>2, DobraJunta
<1>4. QED
  BY <1>1, <1>2, <1>3

(* A cleaning takes pieces away and leaves the others.                     *)
LEMMA MesaLimpa ==
  ASSUME NEW t, Bom(t), NEW n, Bom(n), Mesa(n) \subseteq Mesa(t),
         \A q \in Mesa(n) : n.posicionadas[q] = t.posicionadas[q]
  PROVE  /\ Restringir(t.posicionadas, Mesa(n)) = n.posicionadas
         /\ t.posicionadas = [p \in Mesa(t) |-> t.posicionadas[p]]
<1>1. /\ n.posicionadas = [p \in Mesa(n) |-> n.posicionadas[p]]
      /\ t.posicionadas = [p \in Mesa(t) |-> t.posicionadas[p]]
  BY ParcialDe DEF Bom, Tabuleiros, Mesa
<1>2. QED
  BY <1>1 DEF Restringir

(* The light and the cleaning that end a command, in the mirror.           *)
LEMMA LuzMostrada ==
  ASSUME Bom(tab), Bom(tab'), Mesa(tab') \subseteq Mesa(tab),
         \A q \in Mesa(tab') : tab'.posicionadas[q] = tab.posicionadas[q],
         NEW e, Molde(e), e.iluminadas = iluminadas, e.posicionadas = tab.posicionadas,
         e.selecionada \notin Mesa(tab) \ Mesa(tab'), e.manipulacao \notin Mesa(tab) \ Mesa(tab'),
         NEW r, r = ReduzirEventos(e, LuzELimpeza)
  PROVE  /\ EhLote(LuzELimpeza) /\ Intocados(e, r, {"iluminadas", "posicionadas"})
         /\ r.iluminadas = iluminadas' /\ r.posicionadas = tab'.posicionadas
<1> DEFINE S == Mesa(tab) \ Mesa(tab')
<1>1. PICK n : n = tab'
  OBVIOUS
<1>2. /\ Restringir(tab.posicionadas, Mesa(n)) = n.posicionadas
      /\ tab.posicionadas = [p \in Mesa(tab) |-> tab.posicionadas[p]]
  <2>1. Bom(n) /\ Mesa(n) \subseteq Mesa(tab) /\ \A q \in Mesa(n) : n.posicionadas[q] = tab.posicionadas[q]
    BY <1>1
  <2>2. QED
    BY <2>1, MesaLimpa
<1>3. /\ EhLote(LuzELimpeza)
      /\ Intocados(e, r, {"iluminadas", "posicionadas", "selecionada", "manipulacao"})
      /\ r.iluminadas = iluminadas' /\ r.posicionadas = Restringir(tab.posicionadas, Mesa(tab'))
      /\ r.selecionada = (IF e.selecionada \in S THEN Nada ELSE e.selecionada)
      /\ r.manipulacao = (IF e.manipulacao \in S THEN Nada ELSE e.manipulacao)
  BY <1>2, AoIluminar
<1>4. r.selecionada = e.selecionada /\ r.manipulacao = e.manipulacao
  BY <1>3
<1>5. Intocados(e, r, {"iluminadas", "posicionadas"})
  BY <1>3, <1>4 DEF Intocados, Campos
<1>6. QED
  BY <1>1, <1>2, <1>3, <1>5

LEMMA CaixaDaPermanencia ==
  ASSUME Calmo, NEW j, Permanecer(j)
  PROVE  /\ tab'.caixa = tab.caixa /\ tab'.iniciais = tab.iniciais
         /\ jogadores' = Atacados(tab, jogadores, NaPeca(j), NaPeca(j))
<1> DEFINE feridos == Atacados(tab, jogadores, NaPeca(j), NaPeca(j))
           limpo == IF TravessiaEmMonstro THEN AplicarLimpeza(tab, Luz(tab, feridos))
                    ELSE MesaReaplicada(tab, jogadores, feridos)
<1>1. Bom(tab)
  BY CalmoDiz
<1>2. tab' = SemSequencia(limpo) /\ jogadores' = feridos
  BY DEF Permanecer
<1>3. Bom(limpo) /\ limpo.caixa = tab.caixa /\ limpo.iniciais = tab.iniciais
  <2> HIDE DEF feridos
  <2>1. CASE TravessiaEmMonstro
    BY <1>1, <2>1, LimpezaBom
  <2>2. CASE ~TravessiaEmMonstro
    BY <1>1, <2>2, MesaReaplicadaBom
  <2>3. QED
    BY <2>1, <2>2
<1> HIDE DEF limpo
<1>4. QED
  BY <1>2, <1>3, SemSequenciaBom

LEMMA PermanecerMostra ==
  ASSUME Calmo, NEW j, Permanecer(j), resultado' = Nada
  PROVE  Mostrado(LoteDaPermanencia(j))
<1> DEFINE ev == [tipo |-> "PEAO_PERMANECEU", peao |-> j]
           ataque == Ataque(tab, jogadores, NaPeca(j), NaPeca(j))
<1>1. /\ Tipos /\ tab \in Tabuleiros /\ Bom(tab) /\ DOMAIN tab.peoes = DOMAIN jogadores
      /\ jogadores \in Elencos /\ Ativo # Nada
  BY CalmoDiz DEF Tipos
<1>2. /\ Tipos' /\ j = turno.ativo /\ tab'.peoes = tab.peoes
      /\ tab' = SemSequencia(tab') /\ Mesa(tab') \subseteq Mesa(tab)
      /\ \A q \in Mesa(tab') : tab'.posicionadas[q] = tab.posicionadas[q]
      /\ DOMAIN jogadores' = DOMAIN jogadores
      /\ turno'.inicio = tab'.peoes[turno'.ativo]
      /\ ~turno'.confirmada /\ ~turno'.atravessou /\ turno'.travessia = Nada
      /\ UNCHANGED <<geradores, cartao>> /\ AvaliarTermino
  BY <1>1, PermanecerTipos
<1>3. turno'.confirmada = FALSE /\ turno'.atravessou = FALSE /\ Bom(tab') /\ j \in DOMAIN jogadores
      /\ j # Nada
  BY <1>1, <1>2 DEF Tipos, Turno, Ativo
<1>4. /\ tab'.caixa = tab.caixa /\ tab'.iniciais = tab.iniciais
      /\ jogadores' = Atacados(tab, jogadores, NaPeca(j), NaPeca(j))
  BY CaixaDaPermanencia
<1>5. ASSUME NEW e, Fiel(e)
      PROVE  FielApos(ReduzirEventos(e, LoteDaPermanencia(j)))
  <2>1. /\ Molde(e) /\ RetratoDaMesa(e, tab) /\ RetratoDosPeoes(e, tab, jogadores)
        /\ RetratoDoElenco(e, jogadores) /\ RetratoDosBens(e, iluminadas, geradores, cartao)
        /\ RetratoDoTurno(e, turno)
    BY <1>5 DEF Fiel, Retrato
  <2>2. PICK f : f = ReduzirEvento(e, ev)
    OBVIOUS
  <2>3. ev.tipo = "PEAO_PERMANECEU" /\ ev.peao = j
    OBVIOUS
  <2>4. PICK a, b, c, d : a = << ev >> /\ b = ataque /\ c = LuzELimpeza /\ d = Passagem(j)
    OBVIOUS
  <2>5. LoteDaPermanencia(j) = ((a \o b) \o c) \o d
    BY <2>4 DEF LoteDaPermanencia
  <2> HIDE DEF ev
  <2>6. Intocados(e, f, {"peao"}) /\ Molde(f)
    <3>1. e.dono = [k \in DOMAIN jogadores |-> k] /\ e.ativo = j
      BY <1>2, <2>1 DEF RetratoDoElenco, RetratoDoTurno
    <3>2. Intocados(e, f, {"peao"})
      BY <1>3, <2>1, <2>2, <2>3, <3>1, AoPisar
    <3>3. QED
      BY <3>2 DEF Intocados
  <2>7. EhLote(a) /\ ReduzirEventos(e, a) = f
    BY <2>2, <2>4, DobraUm
  <2>8. PICK g : g = ReduzirEventos(f, ataque)
    OBVIOUS
  <2>9. Intocados(f, g, {"jogadores"}) /\ MesmoElenco(g.jogadores, jogadores') /\ Molde(g)
    <3>1. MesmoElenco(f.jogadores, jogadores)
      BY <2>1, <2>6 DEF RetratoDoElenco, Intocados, Campos
    <3>2. /\ Intocados(f, g, {"jogadores"})
          /\ MesmoElenco(g.jogadores, Atacados(tab, jogadores, NaPeca(j), NaPeca(j)))
      BY <1>1, <2>6, <2>8, <3>1, AoAtacar
    <3>3. QED
      BY <1>4, <3>2 DEF Intocados
  <2>10. EhLote(b)
    BY <2>4, AtaqueTipado DEF LoteTipado
  <2> HIDE DEF ataque
  <2>11. PICK h : h = ReduzirEventos(g, LuzELimpeza)
    OBVIOUS
  <2>12. /\ EhLote(LuzELimpeza)
         /\ Intocados(g, h, {"iluminadas", "posicionadas", "selecionada", "manipulacao"})
         /\ h.iluminadas = iluminadas' /\ h.posicionadas = tab'.posicionadas
    <3>1. g.iluminadas = iluminadas /\ g.posicionadas = tab.posicionadas
      BY <2>1, <2>6, <2>9 DEF Intocados, Campos, RetratoDosBens, RetratoDaMesa
    <3>2. PICK n : n = tab'
      OBVIOUS
    <3>3. /\ Restringir(tab.posicionadas, Mesa(n)) = n.posicionadas
          /\ tab.posicionadas = [p \in Mesa(tab) |-> tab.posicionadas[p]]
      <4>1. /\ Bom(n) /\ Mesa(n) \subseteq Mesa(tab)
            /\ \A q \in Mesa(n) : n.posicionadas[q] = tab.posicionadas[q]
        BY <1>2, <1>3, <3>2
      <4>2. QED
        BY <1>1, <4>1, MesaLimpa
    <3>4. /\ EhLote(LuzELimpeza)
          /\ Intocados(g, h, {"iluminadas", "posicionadas", "selecionada", "manipulacao"})
          /\ h.iluminadas = iluminadas' /\ h.posicionadas = Restringir(tab.posicionadas, Mesa(tab'))
      BY <1>2, <2>9, <2>11, <3>1, <3>3, AoIluminar
    <3>5. QED
      BY <3>2, <3>3, <3>4
  <2>13. VezPorPassar(h)
    <3>1. Molde(h) /\ \A k \in Campos \ {"iluminadas", "posicionadas", "selecionada", "manipulacao",
                                         "jogadores", "peao"} : h[k] = e[k]
      BY <2>6, <2>9, <2>12 DEF Intocados
    <3>2. h.jogadores = g.jogadores
      BY <2>12 DEF Intocados, Campos
    <3>3. RetratoDosPeoes(h, tab', jogadores')
      <4>1. PICK n : n = tab'
        OBVIOUS
      <4>2. Bom(n) /\ n.peoes = tab.peoes
        BY <1>2, <1>3, <4>1
      <4>3. \A q \in Mesa(tab) : (\E k \in DOMAIN tab.peoes : tab.peoes[k] = q)
                                   => CelulaDe(n, q) = CelulaDe(tab, q)
        <5>0. Nada \notin Mesa(tab)
          BY <1>1, MesaDe, TiposDistintos
        <5>1. \A q \in Mesa(tab) : (\E k \in DOMAIN tab.peoes : tab.peoes[k] = q) => q \in Mesa(n)
          BY <4>2, <5>0 DEF Bom, PeoesSobrePecas
        <5>2. QED
          BY <1>2, <4>1, <5>1 DEF CelulaDe
      <4>4. [k \in DOMAIN jogadores |-> CelulaDoPeao(n, k)]
              = [k \in DOMAIN jogadores |-> CelulaDoPeao(tab, k)]
        BY <1>1, <4>2, <4>3, PeoesParados
      <4>5. h.peoes = e.peoes
        BY <3>1 DEF Campos
      <4>6. QED
        BY <1>2, <2>1, <4>1, <4>4, <4>5 DEF RetratoDosPeoes
    <3>4. RetratoDoElenco(h, jogadores')
      BY <1>2, <2>1, <2>9, <3>1, <3>2 DEF RetratoDoElenco, Campos
    <3>5. RetratoDosBens(h, iluminadas', geradores', cartao')
      BY <1>2, <2>1, <2>12, <3>1 DEF RetratoDosBens, Campos
    <3>6. QED
      BY <1>4, <2>1, <2>12, <3>1, <3>3, <3>4, <3>5 DEF VezPorPassar, RetratoDaMesa, Campos
  <2>14. PICK r : r = ReduzirEventos(h, Passagem(j))
    OBVIOUS
  <2>15. EhLote(Passagem(j)) /\ FielApos(r)
    BY <1>2, <1>3, <2>13, <2>14, VezMostrada
  <2>16. ReduzirEventos(e, ((a \o b) \o c) \o d) = r
    <3>1. EhLote(a) /\ EhLote(b) /\ EhLote(c) /\ EhLote(d)
      BY <2>4, <2>7, <2>10, <2>12, <2>15
    <3>2. ReduzirEventos(e, ((a \o b) \o c) \o d)
            = ReduzirEventos(ReduzirEventos(ReduzirEventos(ReduzirEventos(e, a), b), c), d)
      BY <3>1, QuatroPartes
    <3>3. QED
      BY <2>4, <2>7, <2>8, <2>11, <2>14, <3>2
  <2>17. QED
    BY <2>5, <2>15, <2>16
<1>6. Apresentavel(tab', jogadores', turno')
  BY <1>2, <1>3, <1>4, VezApresentavel
<1>7. QED
  BY <1>4, <1>5, <1>6 DEF Mostrado

(* An attack looks at the pieces of the board and at the pawns only.       *)
LEMMA AtaqueMesmo ==
  ASSUME NEW t, NEW n, n.posicionadas = t.posicionadas, n.peoes = t.peoes,
         NEW js, NEW inicio, NEW decidida
  PROVE  /\ Atacados(n, js, inicio, decidida) = Atacados(t, js, inicio, decidida)
         /\ Luz(n, js) = Luz(t, js)
<1>1. /\ Mesa(n) = Mesa(t) /\ \A p : CelulaDe(n, p) = CelulaDe(t, p)
      /\ \A p : Aberturas(n, p) = Aberturas(t, p)
  BY DEF Mesa, CelulaDe, Aberturas
<1>2. \A p, b, q : LigadaPela(n, p, b, q) <=> LigadaPela(t, p, b, q)
  BY <1>1 DEF LigadaPela
<1>3. \A p : VizinhasConectadas(n, p) = VizinhasConectadas(t, p)
  BY <1>1, <1>2 DEF VizinhasConectadas
<1>4. \A m, b, q : NoRaio(n, m, b, q) <=> NoRaio(t, m, b, q)
  BY <1>1, <1>2, Zenon DEF NoRaio
<1>5. \A m : CalcularAlcance(n, m) = CalcularAlcance(t, m)
  BY <1>1, <1>3, <1>4, Zenon DEF CalcularAlcance
<1>6. Atacantes(n, inicio, decidida) = Atacantes(t, inicio, decidida)
  <2>1. \A m : {inicio, decidida} \cap CalcularAlcance(n, m) # {}
                <=> {inicio, decidida} \cap CalcularAlcance(t, m) # {}
    BY <1>5
  <2>2. QED
    BY <1>1, <2>1 DEF Atacantes
<1>7. PICK A : A = Atacantes(t, inicio, decidida)
  OBVIOUS
<1> DEFINE Alvos(x, tipo) == {j \in DOMAIN js : \E m \in A :
                                Tipo(m) = tipo /\ x.peoes[j] \in CalcularAlcance(x, m)}
           ComVulto(x, j) == IF j \in Alvos(x, "vulto") THEN [js[j] EXCEPT !.baixa = TRUE] ELSE js[j]
           R(x) == [j \in DOMAIN js |->
                      IF js[j].protegido
                      THEN [js[j] EXCEPT !.protegido = j \notin Alvos(x, "vulto") \cup Alvos(x, "espectro")]
                      ELSE IF j \in Alvos(x, "espectro") THEN AposEspectro(ComVulto(x, j))
                      ELSE ComVulto(x, j)]
<1>8. Atacados(n, js, inicio, decidida) = R(n)
  BY <1>6, <1>7, Zenon DEF Atacados
<1>9. Atacados(t, js, inicio, decidida) = R(t)
  BY <1>7, Zenon DEF Atacados
<1>10. Alvos(n, "vulto") = Alvos(t, "vulto") /\ Alvos(n, "espectro") = Alvos(t, "espectro")
  BY <1>5
<1> HIDE DEF Alvos
<1>11. \A j : ComVulto(n, j) = ComVulto(t, j)
  BY <1>10, Zenon
<1> HIDE DEF ComVulto
<1>12. R(n) = R(t)
  BY <1>10, <1>11, Zenon
<1>13. Luz(n, js) = Luz(t, js)
  <2>1. \A j, escuros : IluminadasPor(n, j, escuros) = IluminadasPor(t, j, escuros)
    BY <1>1, Zenon DEF IluminadasPor
  <2>2. QED
    BY <2>1, Zenon DEF Luz, CalcularIluminacao
<1>14. QED
  BY <1>8, <1>9, <1>12, <1>13

(* What a pawn that comes to the board leaves of it.                       *)
LEMMA PosicionarOPeaoFatos ==
  ASSUME Calmo, NEW j, NEW p \in Mesa(tab), PosicionarOPeao(j, p),
         NEW noLugar, noLugar = PosicionarPeao(tab, j, p),
         NEW limpo, limpo = AplicarLimpeza(noLugar, Luz(noLugar, jogadores))
  PROVE  /\ Sorteou(tab, tab') /\ tab'.selecionada = tab.selecionada
         /\ \A r \in Pendentes(tab') : tab'.recebidas[r].alvo = Nada
         /\ jogadores' = Atacados(limpo, jogadores, Nada, p)
<1> DEFINE gerado   == GerarRecebidas(noLugar, p, jogadores[j].baixa, Luz(noLugar, jogadores), Nada)
           sorteado == [gerado EXCEPT !.peao = j]
           claro    == AplicarLimpeza(sorteado, Luz(sorteado, jogadores))
           feridos  == Atacados(claro, jogadores, Nada, p)
           mesa     == MesaReaplicada(claro, jogadores, feridos)
<1>1. /\ DaVez(j) /\ PodePosicionarPeao(tab, j, p)
      /\ jogadores' = feridos /\ tab' = Devolvida(mesa, j, feridos)
  BY DEF PosicionarOPeao, PodePosicionarOPeao
<1>2. /\ Bom(tab) /\ j \in DOMAIN tab.peoes /\ j \in Jogadores
  BY <1>1, CalmoDiz DEF DaVez, Ativo
<1>3. /\ Bom(noLugar) /\ noLugar.posicionadas = tab.posicionadas /\ noLugar.caixa = tab.caixa
      /\ noLugar.recebidas = << >> /\ p \in Mesa(noLugar)
  <2>1. /\ Bom(noLugar) /\ noLugar.posicionadas = tab.posicionadas /\ noLugar.caixa = tab.caixa
        /\ noLugar.recebidas = << >>
    <3> DEFINE n == PosicionarPeao(tab, j, p)
    <3>1. /\ Bom(n) /\ n.posicionadas = tab.posicionadas /\ n.caixa = tab.caixa
          /\ n.recebidas = << >> /\ n.iniciais = tab.iniciais /\ n.peao = Nada
          /\ n.manipulacao = tab.manipulacao
          /\ n.peoes = [tab.peoes EXCEPT ![j] = p]
      BY <1>1, <1>2, PosicionarPeaoBom
    <3>2. n = noLugar
      OBVIOUS
    <3> HIDE DEF n
    <3>3. QED
      BY <3>1, <3>2
  <2>2. QED
    BY <2>1 DEF Mesa
<1>4. noLugar.selecionada = tab.selecionada
  BY <1>2 DEF PosicionarPeao, Bom, Tabuleiros
<1>5. \E e, l : gerado = GerarRecebidas(noLugar, p, e, l, Nada)
  BY Zenon
<1>6. \E e, l, a : gerado = GerarRecebidas(noLugar, p, e, l, a)
  BY Zenon
<1> HIDE DEF gerado
<1>7. Sorteou(noLugar, gerado) /\ gerado.selecionada = noLugar.selecionada
  BY <1>3, <1>6, SorteioContado
<1>8. /\ Bom(gerado) /\ gerado.peoes = noLugar.peoes /\ gerado.posicionadas = noLugar.posicionadas
      /\ \A r \in Pendentes(gerado) :
           gerado.recebidas[r] = [orientacao |-> 0, vaga |-> Nada, alvo |-> Nada]
  BY <1>3, <1>5, SorteioLivre
<1>9. /\ Bom(sorteado) /\ sorteado.peoes = gerado.peoes /\ sorteado.posicionadas = gerado.posicionadas
      /\ sorteado.recebidas = gerado.recebidas /\ sorteado.caixa = gerado.caixa
      /\ sorteado.selecionada = gerado.selecionada
  <2>1. sorteado.selecionada = gerado.selecionada
    BY <1>8 DEF Bom, Tabuleiros
  <2>2. QED
    BY <1>2, <1>8, <2>1, EscolhidoBom
<1> HIDE DEF sorteado
<1>10. /\ Bom(claro) /\ claro.caixa = gerado.caixa /\ claro.recebidas = gerado.recebidas
       /\ claro.selecionada = tab.selecionada /\ claro.peoes = noLugar.peoes
  BY <1>4, <1>7, <1>8, <1>9, LimpezaBom
<1>11. feridos = Atacados(limpo, jogadores, Nada, p)
  <2>1. Luz(sorteado, jogadores) = Luz(noLugar, jogadores)
    BY <1>8, <1>9, AtaqueMesmo
  <2>2. claro.posicionadas = limpo.posicionadas
    <3>1. PICK luz : luz = Luz(noLugar, jogadores)
      OBVIOUS
    <3>2. claro = AplicarLimpeza(sorteado, luz) /\ limpo = AplicarLimpeza(noLugar, luz)
      BY <2>1, <3>1
    <3>3. sorteado.posicionadas = noLugar.posicionadas /\ sorteado.peoes = noLugar.peoes
      BY <1>8, <1>9
    <3> HIDE DEF claro
    <3>4. /\ Mesa(sorteado) = Mesa(noLugar)
          /\ \A x : CelulaDe(sorteado, x) = CelulaDe(noLugar, x)
          /\ \A x : Ocupantes(sorteado, x) = Ocupantes(noLugar, x)
      BY <3>3 DEF Mesa, CelulaDe, Ocupantes
    <3>5. {x \in Mesa(sorteado) : CelulaDe(sorteado, x) \in luz \/ Ocupantes(sorteado, x) # {}}
            = {x \in Mesa(noLugar) : CelulaDe(noLugar, x) \in luz \/ Ocupantes(noLugar, x) # {}}
      BY <3>4
    <3>6. PICK S : S = {x \in Mesa(noLugar) : CelulaDe(noLugar, x) \in luz \/ Ocupantes(noLugar, x) # {}}
      OBVIOUS
    <3>7. claro = [sorteado EXCEPT !.posicionadas = Restringir(@, S)]
      BY <3>2, <3>5, <3>6, Zenon DEF AplicarLimpeza
    <3>8. limpo = [noLugar EXCEPT !.posicionadas = Restringir(@, S)]
      BY <3>2, <3>6, Zenon DEF AplicarLimpeza
    <3>9. QED
      BY <1>3, <1>9, <3>3, <3>7, <3>8 DEF Bom, Tabuleiros
  <2>3. limpo.peoes = noLugar.peoes
    BY <1>3, LimpezaBom
  <2> HIDE DEF claro
  <2>4. QED
    BY <1>10, <2>2, <2>3, AtaqueMesmo
<1> HIDE DEF claro
<1>12. /\ Bom(mesa) /\ mesa.caixa = gerado.caixa /\ mesa.recebidas = gerado.recebidas
       /\ mesa.selecionada = tab.selecionada
  <2> HIDE DEF feridos
  <2>1. mesa = claro \/ mesa = AplicarLimpeza(claro, Luz(claro, feridos))
    BY DEF MesaReaplicada
  <2> HIDE DEF mesa
  <2>2. QED
    BY <1>10, <2>1, LimpezaBom
<1> HIDE DEF mesa, feridos
<1>13. tab'.selecionada = tab.selecionada
  BY <1>1, <1>12 DEF Devolvida, Bom, Tabuleiros
<1>14. \/ tab'.caixa = mesa.caixa /\ tab'.recebidas = mesa.recebidas
       \/ tab'.caixa = tab.caixa /\ tab'.recebidas = << >>
  BY <1>1, <1>12 DEF Devolvida, Bom, Tabuleiros
<1>15. Sorteou(tab, tab')
  <2>1. PICK n : n = tab'
    OBVIOUS
  <2>2. CASE n.caixa = mesa.caixa /\ n.recebidas = mesa.recebidas
    <3>1. Sorteou(tab, n)
      BY <1>3, <1>7, <1>12, <2>2, MesmoSorteio
    <3>2. QED
      BY <2>1, <3>1 DEF Sorteou, Pendentes
  <2>3. CASE n.caixa = tab.caixa /\ n.recebidas = << >>
    <3>1. Sorteou(tab, n)
      BY <1>2, <2>3, SemSorteio
    <3>2. QED
      BY <2>1, <3>1 DEF Sorteou, Pendentes
  <2>4. QED
    BY <1>14, <2>1, <2>2, <2>3
<1>16. \A r \in Pendentes(tab') : tab'.recebidas[r].alvo = Nada
  BY <1>8, <1>12, <1>14, ParcialVazia DEF Pendentes
<1>17. QED
  BY <1>1, <1>11, <1>13, <1>15, <1>16

(* What is selected, or can be turned, is never what a cleaning removes.   *)
LEMMA SelecaoNaoCai ==
  ASSUME Bom(tab), SelecaoFora(tab), NEW S, S \subseteq Mesa(tab)
  PROVE  tab.selecionada \notin S
<1>1. Nada \notin Mesa(tab)
  BY MesaDe, TiposDistintos DEF Bom
<1>2. QED
  BY <1>1 DEF SelecaoFora, Bom, PecasSeparadas

LEMMA PosicionarOPeaoMostra ==
  ASSUME Calmo, NEW j, NEW p \in Mesa(tab), PosicionarOPeao(j, p)
  PROVE  Mostrado(LoteDoPeaoPosicionado(j, p))
<1> DEFINE ev == [tipo |-> "PEAO_POSICIONADO", peao |-> j, peca |-> p, celula |-> CelulaDe(tab, p)]
           noLugar == PosicionarPeao(tab, j, p)
           limpo == AplicarLimpeza(noLugar, Luz(noLugar, jogadores))
           ataque == Ataque(limpo, jogadores, Nada, p)
<1>1. /\ Tipos /\ Ordem /\ tab \in Tabuleiros /\ Bom(tab) /\ DOMAIN tab.peoes = DOMAIN jogadores
      /\ jogadores \in Elencos /\ Ativo # Nada /\ ElencoCompleto
      /\ SelecaoFora(tab) /\ IniciaisDoElenco(tab) /\ ViradaNoLugar(tab, jogadores, turno)
  BY CalmoDiz DEF Tipos, Calmo
<1>2. /\ Tipos' /\ Bom(tab') /\ j = turno.ativo /\ jogadores[j].primeiroTurno /\ tab.peoes[j] = Nada
      /\ tab'.peoes = [tab.peoes EXCEPT ![j] = p]
      /\ DOMAIN jogadores' = DOMAIN jogadores
      /\ \A k \in DOMAIN jogadores : jogadores'[k].primeiroTurno = jogadores[k].primeiroTurno
      /\ Mesa(tab') \subseteq Mesa(tab)
      /\ \A q \in Mesa(tab') : tab'.posicionadas[q] = tab.posicionadas[q]
      /\ tab'.manipulacao = tab.manipulacao /\ tab'.peao = j
      /\ UNCHANGED <<turno, geradores, cartao>> /\ tab'.iniciais = tab.iniciais
  <2>1. /\ Tipos'
        /\ j = turno.ativo /\ jogadores[j].primeiroTurno /\ tab.peoes[j] = Nada
        /\ Ocupantes(tab, p) = {} /\ EhInicial(p)
        /\ tab'.peoes = [tab.peoes EXCEPT ![j] = p]
        /\ DOMAIN jogadores' = DOMAIN jogadores
        /\ \A k \in DOMAIN jogadores :
             /\ jogadores'[k].primeiroTurno = jogadores[k].primeiroTurno
             /\ jogadores[k].baixa => jogadores'[k].baixa
             /\ jogadores[k].amedrontado => jogadores'[k].amedrontado
        /\ Mesa(tab') \subseteq Mesa(tab)
        /\ \A q \in Mesa(tab') : tab'.posicionadas[q] = tab.posicionadas[q]
        /\ tab'.manipulacao = tab.manipulacao /\ tab'.peao = j /\ Fora(tab') \subseteq Fora(tab)
        /\ \A r \in Pendentes(tab') : tab'.recebidas[r].vaga = Nada
        /\ UNCHANGED <<turno, graca, geradores, cartao>>
        /\ tab'.iniciais = tab.iniciais
        /\ Clareada(tab', jogadores', iluminadas')
        /\ tab'.recebidas # <<>> => jogadores[j].baixa \/ ~jogadores'[j].baixa
        /\ \A k \in DOMAIN jogadores \ {j} : tab.peoes[k] = Nada =>
             /\ jogadores'[k].baixa = jogadores[k].baixa
             /\ jogadores'[k].amedrontado = jogadores[k].amedrontado
    BY <1>1, PosicionarOPeaoTipos
  <2>2. Bom(tab')
    BY <2>1 DEF Tipos
  <2>3. QED
    BY <2>1, <2>2
<1>3. /\ Sorteou(tab, tab') /\ tab'.selecionada = tab.selecionada
      /\ \A r \in Pendentes(tab') : tab'.recebidas[r].alvo = Nada
      /\ jogadores' = Atacados(limpo, jogadores, Nada, p)
  BY PosicionarOPeaoFatos
<1>4. p = <<"inicial", Ativo>> /\ tab.recebidas = << >> /\ Pendentes(tab) = {}
  <2>1. PoePeao(p)
    BY <1>1, PoePeaoFatos
  <2>2. tab.recebidas = << >>
    BY DEF PosicionarOPeao, PodePosicionarOPeao, PodePosicionarPeao
  <2>3. QED
    BY <1>1, <2>1, <2>2, PeaoNaSuaInicial, ParcialVazia DEF Pendentes
<1>5. j \in DOMAIN tab.peoes /\ j # Nada /\ j \in DOMAIN jogadores /\ Nada \notin Mesa(tab) /\ p # Nada
  BY <1>1, <1>2, MesaDe, TiposDistintos DEF Tipos, Ativo
<1>6. p \in Mesa(tab')
  <2>1. tab'.peoes[j] = p /\ j \in DOMAIN tab'.peoes
    BY <1>2, <1>5
  <2>2. QED
    BY <1>2, <1>5, <2>1 DEF Bom, PeoesSobrePecas
<1>7. tab.manipulacao \in {Nada, p}
  BY <1>1, <1>2, <1>4 DEF ViradaNoLugar, Ativo
<1>8. tab.manipulacao \notin Mesa(tab) \ Mesa(tab') /\ tab.selecionada \notin Mesa(tab) \ Mesa(tab')
  BY <1>1, <1>5, <1>6, <1>7, SelecaoNaoCai
<1>9. Apresentavel(tab', jogadores', turno')
  <2>1. SelecaoFora(tab') /\ IniciaisDoElenco(tab')
    BY <1>1, <1>2, <1>3, <1>4 DEF SelecaoFora, IniciaisDoElenco
  <2>2. AlvosComVaga(tab', turno')
    BY <1>3 DEF AlvosComVaga
  <2>3. ViradaNoLugar(tab', jogadores', turno')
    BY <1>2, <1>5 DEF ViradaNoLugar
  <2>4. QED
    BY <2>1, <2>2, <2>3 DEF Apresentavel
<1> HIDE DEF limpo, noLugar
<1>10. ASSUME NEW e, Fiel(e)
       PROVE  FielApos(ReduzirEventos(e, (( << ev >> \o Sorteio) \o ataque) \o LuzELimpeza))
  <2>1. /\ Molde(e) /\ RetratoDaMesa(e, tab) /\ RetratoDosPeoes(e, tab, jogadores)
        /\ RetratoDoElenco(e, jogadores) /\ RetratoDosBens(e, iluminadas, geradores, cartao)
        /\ RetratoDoTurno(e, turno)
    BY <1>10 DEF Fiel, Retrato
  <2>2. PICK f : f = ReduzirEvento(e, ev)
    OBVIOUS
  <2>3. ev.tipo = "PEAO_POSICIONADO" /\ ev.peao = j /\ ev.celula = CelulaDe(tab, p)
    OBVIOUS
  <2>4. PICK a, b, c, d : a = << ev >> /\ b = Sorteio /\ c = ataque /\ d = LuzELimpeza
    OBVIOUS
  <2>5. EhLote(c)
    BY <2>4, AtaqueTipado DEF LoteTipado
  <2> HIDE DEF ev
  <2>6. /\ Intocados(e, f, {"peoes", "peao"}) /\ Molde(f) /\ f.peao = j
        /\ f.peoes = [e.peoes EXCEPT ![j] = CelulaDe(tab, p)]
    <3>1. e.dono = [k \in DOMAIN jogadores |-> k] /\ e.ativo = j /\ j \in DOMAIN e.peoes
      BY <1>1, <1>2, <1>5, <2>1 DEF RetratoDoElenco, RetratoDoTurno, RetratoDosPeoes
    <3>2. Intocados(e, f, {"peoes", "peao"})
          /\ f.peoes = [e.peoes EXCEPT ![j] = ev.celula] /\ f.peao = j
      BY <1>5, <2>1, <2>2, <2>3, <3>1, AoPisar
    <3>3. QED
      BY <2>3, <3>2 DEF Intocados
  <2>7. EhLote(a) /\ ReduzirEventos(e, a) = f
    BY <2>2, <2>4, DobraUm
  <2>8. PICK g : g = ReduzirEventos(f, Sorteio)
    OBVIOUS
  <2>9. /\ EhLote(Sorteio) /\ Intocados(f, g, {"conhecidas", "restam", "recebidas"}) /\ Molde(g)
        /\ g.recebidas = tab'.recebidas /\ g.restam = Len(tab'.caixa)
        /\ g.conhecidas = f.conhecidas \cup Pendentes(tab')
    <3>1. /\ f.restam = Len(tab.caixa) /\ f.recebidas = << >>
          /\ f.conhecidas \cap PecasDa(tab.caixa) = {}
      BY <1>4, <2>1, <2>6 DEF Intocados, Campos, RetratoDaMesa
    <3>2. Pendentes(tab') = {} => tab'.recebidas = << >>
      BY <1>2, MesaDe DEF Bom
    <3>3. /\ EhLote(Sorteio) /\ Intocados(f, g, {"conhecidas", "restam", "recebidas"})
          /\ g.recebidas = tab'.recebidas /\ g.restam = Len(tab'.caixa)
          /\ g.conhecidas = f.conhecidas \cup Pendentes(tab')
      BY <1>3, <1>4, <2>6, <2>8, <3>1, <3>2, AoGerar
    <3>4. QED
      BY <3>3 DEF Intocados
  <2>10. PICK h : h = ReduzirEventos(g, ataque)
    OBVIOUS
  <2>11. Intocados(g, h, {"jogadores"}) /\ MesmoElenco(h.jogadores, jogadores') /\ Molde(h)
    <3>1. MesmoElenco(g.jogadores, jogadores)
      BY <2>1, <2>6, <2>9 DEF RetratoDoElenco, Intocados, Campos
    <3>2. /\ Intocados(g, h, {"jogadores"})
          /\ MesmoElenco(h.jogadores, Atacados(limpo, jogadores, Nada, p))
      BY <1>1, <2>9, <2>10, <3>1, AoAtacar
    <3>3. QED
      BY <1>3, <3>2 DEF Intocados
  <2> HIDE DEF ataque
  <2>12. PICK r : r = ReduzirEventos(h, LuzELimpeza)
    OBVIOUS
  <2>13. /\ EhLote(LuzELimpeza) /\ Intocados(h, r, {"iluminadas", "posicionadas"}) /\ Molde(r)
         /\ r.iluminadas = iluminadas' /\ r.posicionadas = tab'.posicionadas
    <3>1. /\ h.iluminadas = iluminadas /\ h.posicionadas = tab.posicionadas
          /\ h.selecionada = tab.selecionada /\ h.manipulacao = tab.manipulacao
      BY <2>1, <2>6, <2>9, <2>11 DEF Intocados, Campos, RetratoDosBens, RetratoDaMesa
    <3>2. /\ EhLote(LuzELimpeza) /\ Intocados(h, r, {"iluminadas", "posicionadas"})
          /\ r.iluminadas = iluminadas' /\ r.posicionadas = tab'.posicionadas
      BY <1>1, <1>2, <1>8, <2>11, <2>12, <3>1, LuzMostrada
    <3>3. QED
      BY <3>2 DEF Intocados
  <2>14. \A k \in Campos \ {"iluminadas", "posicionadas", "jogadores", "conhecidas", "restam",
                            "recebidas", "peoes", "peao"} : r[k] = e[k]
    BY <2>6, <2>9, <2>11, <2>13 DEF Intocados
  <2>15. /\ r.peao = j /\ r.peoes = [e.peoes EXCEPT ![j] = CelulaDe(tab, p)]
         /\ r.jogadores = h.jogadores /\ r.recebidas = tab'.recebidas /\ r.restam = Len(tab'.caixa)
         /\ r.conhecidas = e.conhecidas \cup Pendentes(tab')
    BY <2>6, <2>9, <2>11, <2>13 DEF Intocados, Campos
  <2>16. RetratoDosPeoes(r, tab', jogadores')
    <3>1. PICK n : n = tab'
      OBVIOUS
    <3>2. PICK c0 : c0 = CelulaDe(tab, p)
      OBVIOUS
    <3>3. Bom(n) /\ p \in Mesa(n) /\ n.peoes = [tab.peoes EXCEPT ![j] = p]
      BY <1>2, <1>6, <3>1
    <3>4. c0 = CelulaDe(n, p)
      BY <1>2, <1>6, <3>1, <3>2 DEF CelulaDe
    <3>5. \A q \in Mesa(tab) : (\E k \in DOMAIN tab.peoes : tab.peoes[k] = q)
                                 => CelulaDe(n, q) = CelulaDe(tab, q)
      <4>1. ASSUME NEW q \in Mesa(tab), NEW k \in DOMAIN tab.peoes, tab.peoes[k] = q
            PROVE  CelulaDe(n, q) = CelulaDe(tab, q)
        <5>1. k # j
          BY <1>2, <1>5, <4>1
        <5>2. n.peoes[k] = q /\ k \in DOMAIN n.peoes /\ q # Nada
          BY <1>5, <3>3, <4>1, <5>1
        <5>3. q \in Mesa(n)
          BY <3>3, <5>2 DEF Bom, PeoesSobrePecas
        <5>4. QED
          BY <1>2, <3>1, <5>3 DEF CelulaDe
      <4>2. QED
        BY <4>1
    <3>6. PICK D : D = DOMAIN tab.peoes
      OBVIOUS
    <3>7. [k \in D |-> CelulaDoPeao(n, k)] = [[k \in D |-> CelulaDoPeao(tab, k)] EXCEPT ![j] = c0]
      BY <1>1, <1>5, <3>3, <3>4, <3>5, <3>6, PeaoMudado
    <3>8. QED
      BY <1>1, <1>2, <2>1, <2>15, <3>1, <3>2, <3>6, <3>7 DEF RetratoDosPeoes
  <2>17. RetratoDaMesa(r, tab')
    <3>1. Pendentes(tab') \cap PecasDa(tab'.caixa) = {} /\ PecasDa(tab'.caixa) \subseteq PecasDa(tab.caixa)
      BY <1>2, <1>3 DEF Bom, PecasSeparadas, Sorteou
    <3>2. r.conhecidas \cap PecasDa(tab'.caixa) = {}
      BY <2>1, <2>15, <3>1 DEF RetratoDaMesa
    <3>3. QED
      BY <1>2, <1>3, <2>1, <2>13, <2>14, <2>15, <3>2 DEF RetratoDaMesa, Campos
  <2>18. RetratoDoTurno(r, turno')
    BY <1>2, <2>1, <2>14 DEF RetratoDoTurno, Campos
  <2>19. RetratoDoElenco(r, jogadores')
    BY <1>2, <2>1, <2>11, <2>14, <2>15 DEF RetratoDoElenco, Campos
  <2>20. RetratoDosBens(r, iluminadas', geradores', cartao')
    BY <1>2, <2>1, <2>13, <2>14 DEF RetratoDosBens, Campos
  <2>21. FielApos(r)
    BY <2>13, <2>16, <2>17, <2>18, <2>19, <2>20 DEF FielApos, Retrato
  <2>22. ReduzirEventos(e, ((a \o b) \o c) \o d) = r
    <3>1. EhLote(a) /\ EhLote(b) /\ EhLote(c) /\ EhLote(d)
      BY <2>4, <2>5, <2>7, <2>9, <2>13
    <3>2. ReduzirEventos(e, ((a \o b) \o c) \o d)
            = ReduzirEventos(ReduzirEventos(ReduzirEventos(ReduzirEventos(e, a), b), c), d)
      BY <3>1, QuatroPartes
    <3>3. QED
      BY <2>4, <2>7, <2>8, <2>10, <2>12, <3>2
  <2>23. QED
    BY <2>4, <2>21, <2>22
<1>11. PecasDa(tab'.caixa) \subseteq PecasDa(tab.caixa)
  BY <1>3 DEF Sorteou
<1>12. LoteDoPeaoPosicionado(j, p) = (( << ev >> \o Sorteio) \o ataque) \o LuzELimpeza
  BY Zenon DEF LoteDoPeaoPosicionado, limpo, noLugar
<1>13. QED
  BY <1>9, <1>10, <1>11, <1>12 DEF Mostrado

(* What a confirmation leaves of the board and of the roster: the drawn    *)
(* pieces are counted, and what the attack did to everybody is what it     *)
(* would have done on the board before the drawing.                        *)
LEMMA ConfirmarFatos ==
  ASSUME Calmo, NEW j, ConfirmarPosicao(j),
         NEW curados, curados = Resgatados(tab, jogadores, NaPeca(j), j),
         NEW feridos, feridos = Atacados(tab, curados, turno.inicio, NaPeca(j))
  PROVE  /\ Sorteou(tab, tab') /\ tab'.selecionada = tab.selecionada /\ tab'.iniciais = tab.iniciais
         /\ tab'.peao \in {tab.peao, j}
         /\ \A r \in Pendentes(tab') : tab'.recebidas[r].alvo = Nada
         /\ jogadores' \in {feridos, [feridos EXCEPT ![j].protegido = TRUE]}
         /\ geradores' = (IF Tipo(NaPeca(j)) = "gerador" THEN geradores \cup {NaPeca(j)}
                          ELSE geradores)
         /\ cartao' = (cartao \/ Tipo(NaPeca(j)) = "sala_do_diretor")
<1> DEFINE p        == NaPeca(j)
           gerado   == GerarRecebidas(tab, p, FALSE, {}, Nada)
           sorteado == IF jogadores[j].baixa \/ p = turno.inicio THEN tab ELSE gerado
           limpo    == AplicarLimpeza(sorteado, Luz(sorteado, Atacados(sorteado, curados, turno.inicio, p)))
           mesa     == Devolvida(limpo, j, Atacados(sorteado, curados, turno.inicio, p))
<1>1. /\ PodeConfirmar(j) /\ tab' = Adotada(mesa, j)
      /\ \/ jogadores' = Atacados(sorteado, curados, turno.inicio, p)
         \/ jogadores' = [Atacados(sorteado, curados, turno.inicio, p) EXCEPT ![j].protegido = TRUE]
      /\ geradores' = (IF Tipo(p) = "gerador" THEN geradores \cup {p} ELSE geradores)
      /\ cartao' = (cartao \/ Tipo(p) = "sala_do_diretor")
  BY DEF ConfirmarPosicao
<1>2. /\ Tipos /\ Bom(tab) /\ p \in Mesa(tab) /\ tab.recebidas = << >> /\ j \in Jogadores
      /\ Pendentes(tab) = {}
  BY <1>1, CalmoDiz, ParcialVazia DEF PodeConfirmar, SemPassoDefinitivo, DaVez, Pendentes, Ativo
<1>3. /\ Bom(sorteado) /\ sorteado.posicionadas = tab.posicionadas /\ sorteado.peoes = tab.peoes
      /\ Sorteou(tab, sorteado) /\ sorteado.selecionada = tab.selecionada
      /\ sorteado.iniciais = tab.iniciais /\ sorteado.peao = tab.peao
      /\ \A r \in Pendentes(sorteado) : sorteado.recebidas[r].alvo = Nada
  <2>1. \E e, l : gerado = GerarRecebidas(tab, p, e, l, Nada)
    BY Zenon
  <2>2. \E e, l, a : gerado = GerarRecebidas(tab, p, e, l, a)
    BY Zenon
  <2>3. sorteado = gerado \/ sorteado = tab
    OBVIOUS
  <2> HIDE DEF gerado, sorteado
  <2>4. Sorteou(tab, gerado) /\ gerado.selecionada = tab.selecionada
    BY <1>2, <2>2, SorteioContado
  <2>5. /\ Bom(gerado) /\ gerado.peoes = tab.peoes /\ gerado.posicionadas = tab.posicionadas
        /\ gerado.iniciais = tab.iniciais /\ gerado.peao = tab.peao
        /\ \A r \in Pendentes(gerado) :
             gerado.recebidas[r] = [orientacao |-> 0, vaga |-> Nada, alvo |-> Nada]
    BY <1>2, <2>1, SorteioLivre
  <2>6. Sorteou(tab, tab)
    BY <1>2, SemSorteio
  <2>7. QED
    BY <1>2, <2>3, <2>4, <2>5, <2>6
<1> HIDE DEF sorteado
<1>4. feridos = Atacados(sorteado, curados, turno.inicio, p)
  BY <1>3, AtaqueMesmo
<1>5. /\ Bom(limpo) /\ limpo.caixa = sorteado.caixa /\ limpo.recebidas = sorteado.recebidas
      /\ limpo.selecionada = tab.selecionada /\ limpo.iniciais = tab.iniciais
      /\ limpo.peao = tab.peao
  BY <1>3, LimpezaBom
<1> HIDE DEF limpo, p
<1>6. /\ mesa.selecionada = tab.selecionada /\ mesa.iniciais = tab.iniciais /\ mesa.peao = tab.peao
      /\ \/ mesa.caixa = sorteado.caixa /\ mesa.recebidas = sorteado.recebidas
         \/ mesa.caixa = tab.caixa /\ mesa.recebidas = << >>
  BY <1>5 DEF Devolvida, Bom, Tabuleiros
<1>7. mesa \in Tabuleiros
  <2>1. mesa = limpo \/ mesa = [limpo EXCEPT !.caixa = tab.caixa, !.recebidas = << >>]
    BY DEF Devolvida
  <2>2. << >> \in Parcial(PecasDaCaixa, Recebida)
    BY ParcialVazia
  <2>3. QED
    BY <1>2, <1>5, <2>1, <2>2 DEF Bom, Tabuleiros
<1>8. /\ tab'.caixa = mesa.caixa /\ tab'.recebidas = mesa.recebidas
      /\ tab'.selecionada = mesa.selecionada /\ tab'.iniciais = mesa.iniciais
      /\ tab'.peao \in {mesa.peao, j}
  <2> HIDE DEF mesa
  <2>1. tab' = mesa \/ tab' = [mesa EXCEPT !.peao = j]
    BY <1>1 DEF Adotada, ComSelecao
  <2>2. QED
    BY <1>7, <2>1 DEF Tabuleiros
<1> HIDE DEF mesa
<1>9. Sorteou(tab, tab')
  <2>1. PICK n : n = tab'
    OBVIOUS
  <2>2. CASE n.caixa = sorteado.caixa /\ n.recebidas = sorteado.recebidas
    <3>1. Sorteou(tab, n)
      BY <1>3, <2>2, MesmoSorteio
    <3>2. QED
      BY <2>1, <3>1 DEF Sorteou, Pendentes
  <2>3. CASE n.caixa = tab.caixa /\ n.recebidas = << >>
    <3>1. Sorteou(tab, n)
      BY <1>2, <2>3, SemSorteio
    <3>2. QED
      BY <2>1, <3>1 DEF Sorteou, Pendentes
  <2>4. QED
    BY <1>6, <1>8, <2>1, <2>2, <2>3
<1>10. \A r \in Pendentes(tab') : tab'.recebidas[r].alvo = Nada
  BY <1>3, <1>6, <1>8, ParcialVazia DEF Pendentes
<1>11. jogadores' \in {feridos, [feridos EXCEPT ![j].protegido = TRUE]}
  <2>1. PICK g : g = Atacados(sorteado, curados, turno.inicio, p)
    OBVIOUS
  <2>2. g = feridos
    BY <1>4, <2>1
  <2>3. jogadores' = g \/ jogadores' = [g EXCEPT ![j].protegido = TRUE]
    BY <1>1, <2>1, Zenon
  <2>4. QED
    BY <2>2, <2>3, Zenon
<1>12. QED
  BY <1>1, <1>6, <1>8, <1>9, <1>10, <1>11 DEF p

LEMMA ConfirmarMostra ==
  ASSUME Calmo, NEW j, ConfirmarPosicao(j)
  PROVE  Mostrado(LoteDaConfirmacao(j))
<1> DEFINE p == NaPeca(j)
           ev == [tipo |-> "POSICAO_CONFIRMADA", jogador |-> j, peca |-> p,
                  protegido |-> jogadores'[j].protegido]
           T == {x \in DOMAIN jogadores : Resgatados(tab, jogadores, p, j)[x] # jogadores[x]}
<1>1. /\ Tipos /\ NaVez /\ tab \in Tabuleiros /\ Bom(tab) /\ DOMAIN tab.peoes = DOMAIN jogadores
      /\ jogadores \in Elencos /\ Ativo # Nada /\ \A k \in DOMAIN jogadores : Sadio(jogadores[k])
      /\ SelecaoFora(tab) /\ IniciaisDoElenco(tab) /\ ViradaNoLugar(tab, jogadores, turno)
  BY CalmoDiz DEF Tipos
<1>2. /\ Tipos' /\ PodeConfirmar(j) /\ j = turno.ativo /\ tab.peoes[j] \in Mesa(tab)
      /\ tab'.peoes = tab.peoes /\ tab'.manipulacao = tab.manipulacao
      /\ Mesa(tab') \subseteq Mesa(tab)
      /\ \A q \in Mesa(tab') : tab'.posicionadas[q] = tab.posicionadas[q]
      /\ \A q \in Mesa(tab) : Ocupantes(tab, q) # {} => q \in Mesa(tab')
      /\ DOMAIN jogadores' = DOMAIN jogadores
      /\ \A k \in DOMAIN jogadores : jogadores'[k].primeiroTurno = jogadores[k].primeiroTurno
      /\ turno' = [turno EXCEPT !.confirmada = TRUE]
  BY <1>1, ConfirmarTipos
<1>3. PICK curados : curados = Resgatados(tab, jogadores, p, j)
  OBVIOUS
<1>4. PICK feridos : feridos = Atacados(tab, curados, turno.inicio, p)
  OBVIOUS
<1>5. /\ Sorteou(tab, tab') /\ tab'.selecionada = tab.selecionada /\ tab'.iniciais = tab.iniciais
      /\ tab'.peao \in {tab.peao, j}
      /\ \A r \in Pendentes(tab') : tab'.recebidas[r].alvo = Nada
      /\ jogadores' \in {feridos, [feridos EXCEPT ![j].protegido = TRUE]}
      /\ geradores' = (IF Tipo(p) = "gerador" THEN geradores \cup {p} ELSE geradores)
      /\ cartao' = (cartao \/ Tipo(p) = "sala_do_diretor")
  BY <1>3, <1>4, ConfirmarFatos
<1>6. /\ j \in DOMAIN jogadores /\ j \in DOMAIN tab.peoes /\ j # Nada
      /\ p \in Mesa(tab) /\ Nada \notin Mesa(tab) /\ p = tab.peoes[j]
      /\ ~jogadores[j].primeiroTurno /\ ~turno.confirmada /\ PousouNaTravessia(j)
      /\ Pendentes(tab) = {} /\ tab.recebidas = << >> /\ tab.peao \in {Nada, j}
      /\ turno \in Turno /\ Bom(tab')
  <2>1. j \in DOMAIN jogadores
    BY <1>1, <1>2, CalmoDiz DEF Ativo
  <2>2. Bom(tab')
    BY <1>2 DEF Tipos
  <2>3. QED
    BY <1>1, <1>2, <2>1, <2>2, MesaDe, TiposDistintos, ParcialVazia
       DEF PodeConfirmar, SemPassoDefinitivo, Pendentes, NaPeca, Ativo, Tipos
<1>7. /\ curados \in Elencos /\ DOMAIN curados = DOMAIN jogadores
      /\ \A k \in DOMAIN curados : Sadio(curados[k])
  BY <1>1, <1>3, <1>6, ResgatadosForma
<1>8. feridos \in Elencos /\ DOMAIN feridos = DOMAIN jogadores
  BY <1>4, <1>7, AtacadosForma
<1>9. \A k \in DOMAIN jogadores :
        /\ jogadores'[k].sanidade = feridos[k].sanidade /\ jogadores'[k].baixa = feridos[k].baixa
        /\ jogadores'[k].amedrontado = feridos[k].amedrontado
  <2>1. \A k \in DOMAIN feridos : feridos[k] \in Jogador
    BY <1>8, ElencoDe
  <2>2. PICK w : w = TRUE
    OBVIOUS
  <2>3. jogadores' \in {feridos, [feridos EXCEPT ![j].protegido = w]}
    BY <1>5, <2>2, Zenon
  <2>4. feridos = [k \in DOMAIN feridos |-> feridos[k]]
    BY <1>8, ParcialDe DEF Elencos
  <2>5. QED
    BY <1>6, <1>8, <2>1, <2>3, <2>4 DEF Jogador
<1>10. Mesa(tab') \subseteq Mesa(tab) /\ p \in Mesa(tab')
  <2>1. j \in Ocupantes(tab, p)
    BY <1>6 DEF Ocupantes
  <2>2. QED
    BY <1>2, <1>6, <2>1
<1>11. tab.manipulacao \notin Mesa(tab) \ Mesa(tab') /\ tab.selecionada \notin Mesa(tab) \ Mesa(tab')
  <2>1. tab.manipulacao \in {Nada, turno.travessia}
    BY <1>1, <1>2, <1>6 DEF ViradaNoLugar
  <2>2. turno.travessia \in {Nada, p}
    BY <1>1, <1>6 DEF NaVez, PousouNaTravessia
  <2>3. QED
    BY <1>1, <1>6, <1>10, <2>1, <2>2, SelecaoNaoCai
<1>12. /\ turno'.confirmada = TRUE /\ turno'.ativo = turno.ativo /\ turno'.rodada = turno.rodada
       /\ turno'.inicio = turno.inicio /\ turno'.atravessou = turno.atravessou
       /\ turno'.travessia = turno.travessia
  BY <1>2, <1>6 DEF Turno
<1>13. Apresentavel(tab', jogadores', turno')
  <2>1. SelecaoFora(tab') /\ IniciaisDoElenco(tab')
    BY <1>1, <1>5, <1>6 DEF SelecaoFora, IniciaisDoElenco
  <2>2. AlvosComVaga(tab', turno')
    BY <1>5 DEF AlvosComVaga
  <2>3. ViradaNoLugar(tab', jogadores', turno')
    BY <1>2, <1>6, <1>12 DEF ViradaNoLugar
  <2>4. QED
    BY <2>1, <2>2, <2>3 DEF Apresentavel
<1>14. PICK S : S = ResgatesDe(curados, p, {x \in DOMAIN jogadores : curados[x] # jogadores[x]})
  OBVIOUS
<1>15. PICK ataque : ataque = Ataque(tab, curados, turno.inicio, p)
  OBVIOUS
<1>16. LoteDaConfirmacao(j) = ((( << ev >> \o Sorteio) \o EmOrdem(S)) \o ataque) \o LuzELimpeza
  BY <1>3, <1>14, <1>15, Zenon DEF LoteDaConfirmacao, ResgatesDe
<1>17. EhLote(EmOrdem(S))
  <2> DEFINE X == {x \in DOMAIN jogadores : curados[x] # jogadores[x]}
             v == [k \in X |-> [tipo |-> "RESGATE_REALIZADO", jogador |-> k, peca |-> p,
                                sanidade |-> curados[k].sanidade, baixa |-> curados[k].baixa]]
  <2>1. DOMAIN v = X /\ \A k \in X : v[k].tipo = "RESGATE_REALIZADO"
    OBVIOUS
  <2>2. S = {v[k] : k \in X}
    BY <1>14 DEF ResgatesDe
  <2>3. X \in SUBSET DOMAIN jogadores
    OBVIOUS
  <2> HIDE DEF v, X
  <2>4. LoteTipado(EmOrdem({v[k] : k \in X}))
    BY <1>1, <2>1, <2>3, ResgatesTipados
  <2>5. QED
    BY <2>2, <2>4 DEF LoteTipado
<1>18. EhLote(ataque)
  BY <1>15, AtaqueTipado DEF LoteTipado
<1> HIDE DEF p
<1>19. ASSUME NEW e, Fiel(e)
       PROVE  FielApos(ReduzirEventos(e, ((( << ev >> \o Sorteio) \o EmOrdem(S)) \o ataque) \o LuzELimpeza))
  <2>1. /\ Molde(e) /\ RetratoDaMesa(e, tab) /\ RetratoDosPeoes(e, tab, jogadores)
        /\ RetratoDoElenco(e, jogadores) /\ RetratoDosBens(e, iluminadas, geradores, cartao)
        /\ RetratoDoTurno(e, turno)
    BY <1>19 DEF Fiel, Retrato
  <2>2. PICK w : w = jogadores'[j].protegido
    OBVIOUS
  <2>3. PICK f : f = ReduzirEvento(e, ev)
    OBVIOUS
  <2>4. PICK a, b, c, d : a = << ev >> /\ b = Sorteio /\ c = EmOrdem(S) /\ d = LuzELimpeza
    OBVIOUS
  <2>5. e.jogadores = [k \in DOMAIN jogadores |-> e.jogadores[k]] /\ MesmoElenco(e.jogadores, jogadores)
    BY <2>1 DEF RetratoDoElenco, MesmoElenco
  <2>6. /\ Intocados(e, f, {"confirmada", "geradores", "cartao", "jogadores"}) /\ Molde(f)
        /\ f.confirmada = TRUE /\ f.geradores = geradores' /\ f.cartao = cartao'
        /\ MesmoElenco(f.jogadores, jogadores)
    <3>1. j \in DOMAIN e.jogadores
      BY <1>6, <2>5
    <3>2. f = ReduzirEvento(e, [tipo |-> "POSICAO_CONFIRMADA", jogador |-> j, peca |-> p,
                                protegido |-> w])
      BY <2>2, <2>3
    <3>3. /\ Intocados(e, f, {"confirmada", "geradores", "cartao", "jogadores"})
          /\ f.confirmada = TRUE
          /\ f.geradores = IF Tipo(p) = "gerador" THEN e.geradores \cup {p} ELSE e.geradores
          /\ f.cartao = (e.cartao \/ Tipo(p) = "sala_do_diretor")
          /\ f.jogadores = ProtecaoTrocada(e.jogadores, j, w)
      <4>1. Confirmado(e, f, j, p, w)
        BY <2>1, <3>1, <3>2, AoConfirmar
      <4>2. QED
        BY <4>1 DEF Confirmado
    <3>4. e.geradores = geradores /\ e.cartao = cartao
      BY <2>1 DEF RetratoDosBens
    <3>5. f.geradores = geradores' /\ f.cartao = cartao'
      BY <1>5, <3>3, <3>4 DEF p
    <3>6. MesmoElenco(f.jogadores, jogadores)
      BY <1>6, <2>5, <3>3, ProtecaoIgnorada
    <3>7. QED
      BY <3>3, <3>5, <3>6 DEF Intocados
  <2>7. EhLote(a) /\ ReduzirEventos(e, a) = f
    BY <2>3, <2>4, DobraUm
  <2> HIDE DEF ev
  <2>8. PICK g : g = ReduzirEventos(f, Sorteio)
    OBVIOUS
  <2>9. /\ EhLote(Sorteio) /\ Intocados(f, g, {"conhecidas", "restam", "recebidas"}) /\ Molde(g)
        /\ g.recebidas = tab'.recebidas /\ g.restam = Len(tab'.caixa)
        /\ g.conhecidas = f.conhecidas \cup Pendentes(tab')
    <3>1. /\ f.restam = Len(tab.caixa) /\ f.recebidas = << >>
          /\ f.conhecidas \cap PecasDa(tab.caixa) = {}
      BY <1>6, <2>1, <2>6 DEF Intocados, Campos, RetratoDaMesa
    <3>2. Pendentes(tab') = {} => tab'.recebidas = << >>
      BY <1>6, MesaDe DEF Bom
    <3>3. /\ EhLote(Sorteio) /\ Intocados(f, g, {"conhecidas", "restam", "recebidas"})
          /\ g.recebidas = tab'.recebidas /\ g.restam = Len(tab'.caixa)
          /\ g.conhecidas = f.conhecidas \cup Pendentes(tab')
      BY <1>5, <1>6, <2>6, <2>8, <3>1, <3>2, AoGerar
    <3>4. QED
      BY <3>3 DEF Intocados
  <2>10. PICK h : h = ReduzirEventos(g, EmOrdem(S))
    OBVIOUS
  <2>11. Intocados(g, h, {"jogadores"}) /\ MesmoElenco(h.jogadores, curados) /\ Molde(h)
    <3>1. MesmoElenco(g.jogadores, jogadores)
      BY <2>6, <2>9 DEF Intocados, Campos
    <3>2. Intocados(g, h, {"jogadores"}) /\ MesmoElenco(h.jogadores, curados)
      BY <1>1, <1>7, <1>14, <2>9, <2>10, <3>1, AoResgatar
    <3>3. QED
      BY <3>2 DEF Intocados
  <2>12. PICK i : i = ReduzirEventos(h, ataque)
    OBVIOUS
  <2>13. Intocados(h, i, {"jogadores"}) /\ MesmoElenco(i.jogadores, feridos) /\ Molde(i)
    <3>1. /\ Intocados(h, i, {"jogadores"})
          /\ MesmoElenco(i.jogadores, Atacados(tab, curados, turno.inicio, p))
      BY <1>7, <1>15, <2>11, <2>12, AoAtacar
    <3>2. QED
      BY <1>4, <3>1 DEF Intocados
  <2>14. PICK r : r = ReduzirEventos(i, LuzELimpeza)
    OBVIOUS
  <2>15. /\ EhLote(LuzELimpeza) /\ Intocados(i, r, {"iluminadas", "posicionadas"}) /\ Molde(r)
         /\ r.iluminadas = iluminadas' /\ r.posicionadas = tab'.posicionadas
    <3>1. /\ i.iluminadas = iluminadas /\ i.posicionadas = tab.posicionadas
          /\ i.selecionada = tab.selecionada /\ i.manipulacao = tab.manipulacao
      BY <2>1, <2>6, <2>9, <2>11, <2>13 DEF Intocados, Campos, RetratoDosBens, RetratoDaMesa
    <3>2. /\ EhLote(LuzELimpeza) /\ Intocados(i, r, {"iluminadas", "posicionadas"})
          /\ r.iluminadas = iluminadas' /\ r.posicionadas = tab'.posicionadas
      BY <1>1, <1>2, <1>6, <1>11, <2>13, <2>14, <3>1, LuzMostrada
    <3>3. QED
      BY <3>2 DEF Intocados
  <2>16. \A k \in Campos \ {"iluminadas", "posicionadas", "jogadores", "conhecidas", "restam",
                            "recebidas", "confirmada", "geradores", "cartao"} : r[k] = e[k]
    BY <2>6, <2>9, <2>11, <2>13, <2>15 DEF Intocados
  <2>17. /\ r.confirmada = TRUE /\ r.geradores = geradores' /\ r.cartao = cartao'
         /\ r.jogadores = i.jogadores /\ r.recebidas = tab'.recebidas /\ r.restam = Len(tab'.caixa)
         /\ r.conhecidas = e.conhecidas \cup Pendentes(tab')
    BY <2>6, <2>9, <2>11, <2>13, <2>15 DEF Intocados, Campos
  <2>18. RetratoDosPeoes(r, tab', jogadores')
    <3>1. PICK n : n = tab'
      OBVIOUS
    <3>2. Bom(n) /\ n.peoes = tab.peoes
      BY <1>2, <1>6, <3>1
    <3>3. \A q \in Mesa(tab) : (\E k \in DOMAIN tab.peoes : tab.peoes[k] = q)
                                 => CelulaDe(n, q) = CelulaDe(tab, q)
      <4>1. \A q \in Mesa(tab) : (\E k \in DOMAIN tab.peoes : tab.peoes[k] = q) => q \in Mesa(n)
        BY <1>2, <3>1 DEF Ocupantes
      <4>2. QED
        BY <1>2, <3>1, <4>1 DEF CelulaDe
    <3>4. [k \in DOMAIN jogadores |-> CelulaDoPeao(n, k)]
            = [k \in DOMAIN jogadores |-> CelulaDoPeao(tab, k)]
      BY <1>1, <3>2, <3>3, PeoesParados
    <3>5. r.peoes = e.peoes
      BY <2>16 DEF Campos
    <3>6. QED
      BY <1>2, <2>1, <3>1, <3>4, <3>5 DEF RetratoDosPeoes
  <2>19. RetratoDaMesa(r, tab')
    <3>1. Pendentes(tab') \cap PecasDa(tab'.caixa) = {} /\ PecasDa(tab'.caixa) \subseteq PecasDa(tab.caixa)
      BY <1>5, <1>6 DEF Bom, PecasSeparadas, Sorteou
    <3>2. r.conhecidas \cap PecasDa(tab'.caixa) = {}
      BY <2>1, <2>17, <3>1 DEF RetratoDaMesa
    <3>3. r.peao \in {Nada, tab'.peao}
      BY <1>5, <1>6, <2>1, <2>16 DEF RetratoDaMesa, Campos
    <3>4. QED
      BY <1>2, <1>5, <2>1, <2>15, <2>16, <2>17, <3>2, <3>3 DEF RetratoDaMesa, Campos
  <2>20. RetratoDoTurno(r, turno')
    BY <1>12, <2>1, <2>16, <2>17 DEF RetratoDoTurno, Campos
  <2>21. RetratoDoElenco(r, jogadores')
    <3>1. MesmoElenco(r.jogadores, feridos)
      BY <2>13, <2>17
    <3>2. MesmoElenco(r.jogadores, jogadores')
      <4>1. PICK m, ks : m = r.jogadores /\ ks = jogadores'
        OBVIOUS
      <4>2. /\ DOMAIN ks = DOMAIN feridos /\ j \in DOMAIN feridos
            /\ \A k \in DOMAIN feridos :
                 /\ ks[k].sanidade = feridos[k].sanidade /\ ks[k].baixa = feridos[k].baixa
                 /\ ks[k].amedrontado = feridos[k].amedrontado
        BY <1>2, <1>6, <1>8, <1>9, <4>1
      <4>3. m \in {m, ProtecaoTrocada(m, j, w)} /\ MesmoElenco(m, feridos)
        BY <3>1, <4>1
      <4>4. MesmoElenco(m, ks)
        BY <4>2, <4>3, ProtecaoIgnorada
      <4>5. QED
        BY <4>1, <4>4 DEF MesmoElenco, MesmaPercepcao
    <3>3. QED
      BY <1>2, <2>1, <2>16, <3>2 DEF RetratoDoElenco, Campos
  <2>22. RetratoDosBens(r, iluminadas', geradores', cartao')
    BY <2>15, <2>17 DEF RetratoDosBens
  <2>23. FielApos(r)
    BY <2>15, <2>18, <2>19, <2>20, <2>21, <2>22 DEF FielApos, Retrato
  <2>24. ReduzirEventos(e, (((a \o b) \o c) \o ataque) \o d) = r
    <3>1. EhLote(a) /\ EhLote(b) /\ EhLote(c) /\ EhLote(ataque) /\ EhLote(d)
      BY <1>17, <1>18, <2>4, <2>7, <2>9, <2>15
    <3>2. ReduzirEventos(e, (((a \o b) \o c) \o ataque) \o d)
            = ReduzirEventos(ReduzirEventos(ReduzirEventos(ReduzirEventos(
                ReduzirEventos(e, a), b), c), ataque), d)
      BY <3>1, CincoPartes
    <3>3. QED
      BY <2>4, <2>7, <2>8, <2>10, <2>12, <2>14, <3>2
  <2>25. QED
    BY <2>4, <2>23, <2>24
<1>20. PecasDa(tab'.caixa) \subseteq PecasDa(tab.caixa)
  BY <1>5 DEF Sorteou
<1>21. QED
  BY <1>13, <1>16, <1>19, <1>20 DEF Mostrado

-----------------------------------------------------------------------------
(* Whatever command is taken, its lot shows what it did.                   *)
LEMMA ComandoMostra ==
  ASSUME Calmo, NEW j, NEW a, ComandoTipado(a), ExecutaComando(j, a), resultado' = Nada
  PROVE  Mostrado(Lote(j, a))
<1>1. CASE a[1] = "selecionar_peca"
  <2>1. a[2] # Nada /\ SelecionarAPeca(j, a[2])
    BY <1>1 DEF ExecutaComando, Executa, ComandoTipado
  <2>2. Lote(j, a) = LoteDaSelecao(a[2])
    BY <1>1 DEF Lote
  <2>3. QED
    BY <2>1, <2>2, SelecionarPecaMostra
<1>2. CASE a[1] = "girar_peca"
  <2>1. a[3] \in Giros /\ GirarAPeca(j, a[2], a[3])
    BY <1>2 DEF ExecutaComando, Executa, ComandoTipado
  <2>2. a[2] \in PecasEmJogo
    BY <2>1 DEF GirarAPeca, PodeGirarAPeca, PodeGirarPeca, PodeGirarPosicionada,
                PodeGirarRecebida, PodeGirarDaMesa, PecasEmJogo
  <2>3. Lote(j, a) = << [tipo |-> "PECA_GIRADA", peca |-> a[2],
                         orientacao |-> OrientacaoDe(tab', a[2])] >>
    BY <1>2 DEF Lote
  <2>4. a[3] \in Int
    <3>1. Giros \subseteq {Horario, AntiHorario} /\ Horario \in Int /\ AntiHorario \in Int
      BY PartidaAssumption DEF Horario, AntiHorario
    <3>2. QED
      BY <2>1, <3>1
  <2>5. QED
    BY <2>1, <2>2, <2>3, <2>4, GirarMostra
<1>3. CASE a[1] = "finalizar_manipulacao"
  <2>1. FinalizarManipulacao(j)
    BY <1>3 DEF ExecutaComando, Executa
  <2>2. Lote(j, a) = Finalizada
    BY <1>3 DEF Lote
  <2>3. QED
    BY <2>1, <2>2, FinalizarMostra
<1>4. CASE a[1] = "posicionar_peca"
  <2>1. Lote(j, a) = LoteDoEncaixe(a[2])
    BY <1>4 DEF Lote
  <2>2. PosicionarAInicial(j, a[2], a[3]) \/ PosicionarARecebida(j, a[2], a[3])
    BY <1>4 DEF ExecutaComando
  <2>3. CASE PosicionarAInicial(j, a[2], a[3])
    <3>1. a[2] \in DOMAIN tab.iniciais
      BY <2>3 DEF PosicionarAInicial, PodePosicionarAInicial, PodePosicionarInicial
    <3>2. a[2] \notin PecasDaCaixa
      BY <3>1, CalmoDiz, MesaDe, TiposDistintos DEF PecasIniciais, PecasDaCaixa
    <3>3. a[3] \in Celulas
      BY <1>4, <3>2, PartidaAssumption DEF ComandoTipado
    <3>4. QED
      BY <2>1, <2>3, <3>3, PosicionarInicialMostra
  <2>4. QED
    BY <2>1, <2>2, <2>3, PosicionarRecebidaMostra
<1>5. CASE a[1] = "selecionar_peao"
  <2>1. SelecionarOPeao(j)
    BY <1>5 DEF ExecutaComando, Executa
  <2>2. Lote(j, a) = IF tab.peao = j THEN << >>
                     ELSE Finalizada \o << [tipo |-> "PEAO_SELECIONADO", peao |-> j] >>
    BY <1>5 DEF Lote
  <2>3. QED
    BY <2>1, <2>2, SelecionarPeaoMostra
<1>6. CASE a[1] = "desselecionar_peao"
  <2>1. DesselecionarOPeao(j)
    BY <1>6 DEF ExecutaComando, Executa
  <2>2. Lote(j, a) = (IF tab.peao = j THEN Finalizada ELSE << >>)
                     \o << [tipo |-> "PEAO_DESELECIONADO", peao |-> j] >>
    BY <1>6 DEF Lote
  <2>3. QED
    BY <2>1, <2>2, DesselecionarPeaoMostra
<1>7. CASE a[1] = "escolher_vaga_da_peca_recebida"
  <2>1. EscolherAVaga(j, a[2], a[3])
    BY <1>7 DEF ExecutaComando, Executa
  <2>2. Lote(j, a) = LoteDaVaga(a[2])
    BY <1>7 DEF Lote
  <2>3. QED
    BY <2>1, <2>2, EscolherVagaMostra
<1>8. CASE a[1] = "posicionar_peao"
  <2>1. PosicionarOPeao(j, a[2])
    BY <1>8 DEF ExecutaComando, Executa
  <2>2. a[2] \in Mesa(tab)
    BY <2>1 DEF PosicionarOPeao, PodePosicionarOPeao, PodePosicionarPeao
  <2>3. Lote(j, a) = LoteDoPeaoPosicionado(j, a[2])
    BY <1>8 DEF Lote
  <2>4. QED
    BY <2>1, <2>2, <2>3, PosicionarOPeaoMostra
<1>9. CASE a[1] = "mover_peao"
  <2>1. MoverOPeao(j, a[2])
    BY <1>9 DEF ExecutaComando, Executa
  <2>2. Lote(j, a) = << [tipo |-> "PEAO_MOVIDO", peao |-> j, de |-> NaPeca(j), para |-> a[2],
                         celula |-> CelulaDe(tab, a[2])] >>
    BY <1>9 DEF Lote
  <2>3. QED
    BY <2>1, <2>2, MoverMostra
<1>10. CASE a[1] = "atravessar_o_escuro"
  <2>1. AtravessarOEscuro(j, a[2])
    BY <1>10 DEF ExecutaComando, Executa
  <2>2. a[2] \in Celulas
    BY <2>1, CalmoDiz, VagaBorda DEF AtravessarOEscuro, PodeAtravessar
  <2>3. Lote(j, a) = IF turno'.atravessou
                     THEN << [tipo |-> "ATRAVESSOU_O_ESCURO", peao |-> j] >> \o Sorteio ELSE << >>
    BY <1>10 DEF Lote
  <2>4. QED
    BY <2>1, <2>2, <2>3, AtravessarMostra
<1>11. CASE a[1] = "permanecer"
  <2>1. Permanecer(j)
    BY <1>11 DEF ExecutaComando, Executa
  <2>2. Lote(j, a) = LoteDaPermanencia(j)
    BY <1>11 DEF Lote
  <2>3. QED
    BY <2>1, <2>2, PermanecerMostra
<1>12. CASE a[1] = "confirmar_posicao_do_peao"
  <2>1. ConfirmarPosicao(j)
    BY <1>12 DEF ExecutaComando, Executa
  <2>2. Lote(j, a) = LoteDaConfirmacao(j)
    BY <1>12 DEF Lote
  <2>3. QED
    BY <2>1, <2>2, ConfirmarMostra
<1>13. CASE a[1] = "encerrar_turno"
  <2>1. EncerrarTurno(j)
    BY <1>13 DEF ExecutaComando, Executa
  <2>2. Lote(j, a) = Passagem(j)
    BY <1>13 DEF Lote
  <2>3. QED
    BY <2>1, <2>2, EncerrarMostra
<1>14. QED
  BY <1>1, <1>2, <1>3, <1>4, <1>5, <1>6, <1>7, <1>8, <1>9, <1>10, <1>11, <1>12, <1>13
     DEF ComandoTipado, Comandos

-----------------------------------------------------------------------------
(* The mirror of the page, through whatever happens at the table.          *)

(***************************************************************************)
(* The inductive invariant behind EspelhoFiel: as long as the match runs   *)
(* with everybody in it, the state is one a mirror can show, the pieces the*)
(* page remembers, off line too, have left the Caixa, and on line its      *)
(* mirror is a picture of the state.                                       *)
(***************************************************************************)
Lembrada ==
  /\ Apresentavel(tab, jogadores, turno) /\ espelho.conhecidas \cap PecasDa(tab.caixa) = {}
  /\ conectado => Fiel(espelho)

Retratada == Mesas /\ (resultado = Nada /\ ElencoCompleto => Lembrada)

LEMMA ElencoNaoCresce ==
  ASSUME Mesas, NEW j, NEW a, ComandoTipado(a), ExecutaComando(j, a)
  PROVE  /\ resultado = Nada /\ (ElencoCompleto' => ElencoCompleto)
<1>1. /\ Tipos /\ Turnos
  BY MesasTipos
<1>2. Passo /\ Tipos'
  BY <1>1, ComandoSegue
<1>3. DOMAIN jogadores' \subseteq DOMAIN jogadores
  <2>1. tab.peao \in {Nada, Ativo}
    BY <1>1 DEF Turnos, NaVez
  <2>2. NaMesmaVez \/ Passa
    BY <1>1, <1>2, <2>1, PassoPorTipo
  <2>3. QED
    BY <1>1, <1>2, <2>2, MesmaVezSegue DEF Segue, Passa
<1>4. ElencoCompleto' => ElencoCompleto
  BY <1>1, <1>3, ElencoDe DEF ElencoCompleto, Tipos
<1>5. resultado = Nada
  <2>1. a[1] # "posicionar_peca" \/ PosicionarAInicial(j, a[2], a[3]) \/ PosicionarARecebida(j, a[2], a[3])
    BY DEF ExecutaComando
  <2>2. DaVez(j)
    BY <2>1 DEF ExecutaComando, Executa, PosicionarAInicial, PodePosicionarAInicial,
       PosicionarARecebida, PodePosicionarARecebida, DesselecionarOPeao, FinalizarManipulacao,
       GirarAPeca, PodeGirarAPeca, EscolherAVaga, PodeEscolherAVaga, SelecionarAPeca,
       PodeSelecionarAPeca, SelecionarOPeao, PodeSelecionarOPeao, PosicionarOPeao,
       PodePosicionarOPeao, MoverOPeao, PodeMoverOPeao, AtravessarOEscuro, PodeAtravessar,
       Permanecer, PodePermanecerNaPeca, ConfirmarPosicao, PodeConfirmar, EncerrarTurno,
       PodeEncerrar, SemPassoDefinitivo
  <2>3. QED
    BY <2>2 DEF DaVez
<1>6. QED
  BY <1>4, <1>5

(* A command at a table that is remembered.                                *)
LEMMA ComandoVisto ==
  ASSUME Retratada, NEW j, NEW a, ComandoTipado(a), ExecutaComando(j, a),
         resultado' = Nada, ElencoCompleto'
  PROVE  Lembrada /\ Mostrado(Lote(j, a))
<1>1. Mesas /\ resultado = Nada /\ ElencoCompleto
  BY ElencoNaoCresce DEF Retratada
<1>2. Lembrada
  BY <1>1 DEF Retratada
<1>3. Calmo
  BY <1>1, <1>2, MesasTipos DEF Calmo, Lembrada
<1>4. QED
  BY <1>2, <1>3, ComandoMostra

(* What a lot does to the page that receives it, or is away.               *)
LEMMA LoteVisto ==
  ASSUME Lembrada, NEW lote, Mostrado(lote), NEW a, NEW fila, Receber(lote, a, fila)
  PROVE  Lembrada'
<1>1. /\ Apresentavel(tab', jogadores', turno') /\ PecasDa(tab'.caixa) \subseteq PecasDa(tab.caixa)
      /\ \A e : Fiel(e) => FielApos(ReduzirEventos(e, lote))
  BY DEF Mostrado
<1>2. conectado' = conectado
  BY DEF Receber
<1>3. CASE conectado
  <2>1. espelho' = ReduzirEventos(espelho, lote) /\ Fiel(espelho)
    BY <1>3 DEF Receber, Lembrada
  <2>2. FielApos(espelho')
    BY <1>1, <2>1
  <2>3. espelho'.conhecidas \cap PecasDa(tab'.caixa) = {}
    BY <2>2 DEF FielApos, Retrato, RetratoDaMesa
  <2>4. QED
    BY <1>1, <2>2, <2>3 DEF Lembrada, Fiel, FielApos
<1>4. CASE ~conectado
  <2>1. espelho' = espelho
    BY <1>4 DEF Receber
  <2>2. espelho'.conhecidas \cap PecasDa(tab'.caixa) = {}
    BY <1>1, <2>1 DEF Lembrada
  <2>3. QED
    BY <1>1, <1>2, <1>4, <2>2 DEF Lembrada
<1>5. QED
  BY <1>3, <1>4

LEMMA NadaVisto ==
  ASSUME Retratada, UNCHANGED varsDaPartida, conectado' = conectado, espelho' = espelho,
         resultado' = Nada, ElencoCompleto'
  PROVE  Lembrada'
<1>1. /\ tab' = tab /\ jogadores' = jogadores /\ turno' = turno /\ iluminadas' = iluminadas
      /\ geradores' = geradores /\ cartao' = cartao /\ resultado' = resultado
  BY DEF varsDaPartida
<1>2. Lembrada
  BY <1>1 DEF Retratada, ElencoCompleto
<1>3. QED
  BY <1>1, <1>2 DEF Lembrada, Fiel

(* The page comes back, with what it remembers or with nothing.            *)
LEMMA HidratarVisto ==
  ASSUME Retratada, NEW e, e \in {espelho, SemFoto}, NEW c, NEW fila, Hidratar(e, c, fila),
         resultado' = Nada, ElencoCompleto'
  PROVE  Lembrada'
<1>1. /\ UNCHANGED vars /\ conectado' = TRUE
      /\ espelho' = TurnoIniciado(AplicarSnapshot(e), [jogador |-> turno.ativo, rodada |-> turno.rodada])
  BY DEF Hidratar
<1>2. /\ tab' = tab /\ jogadores' = jogadores /\ turno' = turno /\ iluminadas' = iluminadas
      /\ geradores' = geradores /\ cartao' = cartao /\ resultado' = resultado
  BY <1>1 DEF vars, varsDaPartida
<1>3. Lembrada /\ ElencoCompleto /\ Tipos
  BY <1>2, MesasTipos DEF Retratada, ElencoCompleto
<1>4. espelho' = AplicarSnapshot(e)
  BY <1>1, <1>3, FotoTipada DEF TurnoIniciado
<1>5. e.conhecidas \cap PecasDa(tab.caixa) = {}
  BY <1>3 DEF Lembrada, SemFoto
<1>6. Fiel(AplicarSnapshot(e))
  BY <1>3, <1>5, FotoFiel DEF Lembrada
<1>7. PICK f : f = AplicarSnapshot(e)
  OBVIOUS
<1>8. Fiel(f) /\ espelho' = f
  BY <1>4, <1>6, <1>7
<1>9. f.conhecidas \cap PecasDa(tab.caixa) = {}
  BY <1>8 DEF Fiel, Retrato, RetratoDaMesa
<1>10. QED
  BY <1>2, <1>3, <1>8, <1>9 DEF Lembrada, Fiel

LEMMA PessoaVista ==
  ASSUME Retratada, Pessoa, resultado' = Nada, ElencoCompleto'
  PROVE  Lembrada'
<1> DEFINE a == Head(pedidos)
<1>1. Mesas /\ FilaTipada(pedidos)
  BY DEF Retratada, Mesas
<1>2. CASE Clicar /\ SemNovidade
  <2>1. UNCHANGED varsDaPartida /\ conectado' = conectado /\ espelho' = espelho
    BY <1>2 DEF Clicar, vars
  <2>2. QED
    BY <2>1, NadaVisto
<1>3. CASE (Religar \/ Recarregar) /\ SemNovidade
  BY <1>3, HidratarVisto DEF Religar, Recarregar
<1>4. CASE Atender /\ ~AceitaDoCliente(a) /\ SemNovidade
  <2>1. UNCHANGED varsDaPartida /\ conectado' = conectado /\ espelho' = espelho
    BY <1>4 DEF Atender, vars
  <2>2. QED
    BY <2>1, NadaVisto
<1>5. CASE Atender /\ AceitaDoCliente(a) /\ BotsOuvem(Lote(Eu, a))
  <2>1. ExecutaComando(Eu, a) /\ Receber(Lote(Eu, a), a, Tail(pedidos)) /\ pedidos # << >>
    BY <1>5 DEF Atender, ExecutaDoCliente
  <2>2. ComandoTipado(a)
    BY <1>1, <2>1, FilaAnda
  <2> HIDE DEF a
  <2>3. Lembrada /\ Mostrado(Lote(Eu, a))
    BY <2>1, <2>2, ComandoVisto
  <2>4. QED
    BY <2>1, <2>3, LoteVisto
<1>6. CASE Cair /\ (IF vars' = vars THEN SemNovidade ELSE BotsOuvem(Lote(Eu, a)))
  <2>1. /\ conectado' = FALSE /\ espelho' = LembradoDe(espelho)
        /\ vars' = vars \/ (pedidos # << >> /\ ExecutaComando(Eu, a))
    BY <1>6 DEF Cair, ExecutaDoCliente
  <2>2. espelho'.conhecidas = espelho.conhecidas
    BY <2>1 DEF LembradoDe
  <2>3. CASE vars' = vars
    <3>1. tab' = tab /\ jogadores' = jogadores /\ turno' = turno /\ resultado' = resultado
      BY <2>3 DEF vars, varsDaPartida
    <3>2. Lembrada
      BY <3>1 DEF Retratada, ElencoCompleto
    <3>3. QED
      BY <2>1, <2>2, <3>1, <3>2 DEF Lembrada
  <2>4. CASE pedidos # << >> /\ ExecutaComando(Eu, a)
    <3>1. ComandoTipado(a)
      BY <1>1, <2>4, FilaAnda
    <3> HIDE DEF a
    <3>2. Lembrada /\ Mostrado(Lote(Eu, a))
      BY <2>4, <3>1, ComandoVisto
    <3>3. /\ Apresentavel(tab', jogadores', turno')
          /\ PecasDa(tab'.caixa) \subseteq PecasDa(tab.caixa)
      BY <3>2 DEF Mostrado
    <3>4. espelho'.conhecidas \cap PecasDa(tab'.caixa) = {}
      BY <2>2, <3>2, <3>3 DEF Lembrada
    <3>5. QED
      BY <2>1, <3>3, <3>4 DEF Lembrada
  <2>5. QED
    BY <2>1, <2>3, <2>4
<1>7. QED
  BY <1>2, <1>3, <1>4, <1>5, <1>6 DEF Pessoa

LEMMA EnviarVisto ==
  ASSUME Retratada, NEW b \in Bots, NEW l, NEW comandos, FilaTipada(comandos), comandos # << >>,
         Enviar(b, l, comandos), resultado' = Nada, ElencoCompleto'
  PROVE  Lembrada'
<1> DEFINE a == Head(comandos)
<1>1. ComandoTipado(a)
  BY FilaAnda
<1>2. CASE AceitaComando(b, a)
  <2>1. ExecutaComando(b, a) /\ Receber(Lote(b, a), a, pedidos)
    BY <1>2 DEF Enviar
  <2> HIDE DEF a
  <2>2. Lembrada /\ Mostrado(Lote(b, a))
    BY <1>1, <2>1, ComandoVisto
  <2>3. QED
    BY <2>1, <2>2, LoteVisto
<1>3. CASE ~AceitaComando(b, a)
  <2>1. UNCHANGED varsDoCliente
    BY <1>3 DEF Enviar
  <2>2. UNCHANGED varsDaPartida /\ conectado' = conectado /\ espelho' = espelho
    BY <2>1 DEF varsDoCliente, vars
  <2>3. QED
    BY <2>2, NadaVisto
<1>4. QED
  BY <1>2, <1>3

LEMMA PilotoVisto ==
  ASSUME Retratada, NEW b \in Bots, Piloto(b), resultado' = Nada, ElencoCompleto'
  PROVE  Lembrada'
<1> DEFINE l == laco[b]
           maisUma == [l EXCEPT !.acoes = @ + 1]
           desistente == [l EXCEPT !.desiste = TRUE]
<1>1. LacoTipado(l) /\ VistoTipado(visto[b])
  BY DEF Retratada, Mesas
<1>2. CASE l.fila # << >> /\ Enviar(b, l, l.fila)
  BY <1>1, <1>2, EnviarVisto DEF LacoTipado
<1>3. CASE \E a \in Candidatas(b) : \E s \in Expansoes(visto[b], a) : Enviar(b, maisUma, s)
  <2>1. PICK a \in Candidatas(b) : \E s \in Expansoes(visto[b], a) : Enviar(b, maisUma, s)
    BY <1>3
  <2>2. PICK s \in Expansoes(visto[b], a) : Enviar(b, maisUma, s)
    BY <2>1
  <2>3. FilaTipada(s) /\ s # << >>
    BY <1>1, CandidataTipada, ExpansaoTipada
  <2> HIDE DEF maisUma
  <2>4. QED
    BY <2>2, <2>3, EnviarVisto
<1>4. CASE Enviar(b, desistente, << <<"encerrar_turno">> >>)
  <2>1. FilaTipada(<< <<"encerrar_turno">> >>) /\ << <<"encerrar_turno">> >> # << >>
    BY ComandosDoTurno, FilaUma
  <2> HIDE DEF desistente
  <2>2. QED
    BY <1>4, <2>1, EnviarVisto
<1>5. QED
  BY <1>2, <1>3, <1>4 DEF Piloto

LEMMA RetratadaSegue ==
  ASSUME Retratada, [NextDaMesa]_varsDaMesa
  PROVE  Retratada'
<1>1. Mesas' /\ Mesas
  BY MesasSegue DEF Retratada
<1>2. ASSUME resultado' = Nada, ElencoCompleto'
      PROVE  Lembrada'
  <2>1. CASE Pessoa
    BY <1>2, <2>1, PessoaVista
  <2>2. CASE \E j \in Desistentes \ {Eu} : DesistenciaOuvida(j)
    <3>1. PICK j : Desistir(j)
      BY <2>2 DEF DesistenciaOuvida, DesistenciaVista
    <3>2. j \in DOMAIN jogadores /\ DOMAIN jogadores' = DOMAIN jogadores \ {j}
      BY <1>1, <3>1, MesasTipos, DesistirTipos
    <3>3. DOMAIN jogadores \subseteq Jogadores
      BY <1>1, MesasTipos, ElencoDe DEF Tipos
    <3>4. QED
      BY <1>2, <3>2, <3>3 DEF ElencoCompleto
  <2>3. CASE \E b \in Bots : Piloto(b)
    BY <1>2, <2>3, PilotoVisto
  <2>4. CASE UNCHANGED varsDaMesa
    <3>1. UNCHANGED varsDaPartida /\ conectado' = conectado /\ espelho' = espelho
      BY <2>4 DEF varsDaMesa, varsDoCliente, vars
    <3>2. QED
      BY <1>2, <3>1, NadaVisto
  <2>5. QED
    BY <2>1, <2>2, <2>3, <2>4 DEF NextDaMesa
<1>3. QED
  BY <1>1, <1>2 DEF Retratada

LEMMA RetratadaNoInicio ==
  ASSUME InitDaMesa
  PROVE  Retratada
<1>1. Mesas /\ Init /\ espelho = AplicarSnapshot(SemFoto)
  BY MesasNoInicio DEF InitDaMesa, InitDoCliente
<1>2. ASSUME ElencoCompleto
      PROVE  Lembrada
  <2>1. PICK c \in Caixas : tab = TabuleiroInicial(Jogadores, c)
    BY <1>1 DEF Init
  <2>2. /\ tab.selecionada = Nada /\ tab.manipulacao = Nada /\ tab.recebidas = << >>
        /\ DOMAIN tab.iniciais = {"inicial"} \X Jogadores
    BY <2>1 DEF TabuleiroInicial
  <2>3. turno \in Turno /\ turno.travessia = Nada
    BY <1>1 DEF Init, Mesas, TurnosDosBots, TurnosComSaida, TurnosComLuz, Turnos, Tipos
  <2>4. Apresentavel(tab, jogadores, turno)
    BY <2>2, <2>3, ParcialVazia DEF Apresentavel, SelecaoFora, IniciaisDoElenco, AlvosComVaga,
       ViradaNoLugar, Pendentes
  <2>5. SemFoto.conhecidas = {}
    BY DEF SemFoto
  <2>6. Fiel(AplicarSnapshot(SemFoto))
    BY <1>1, <1>2, <2>4, <2>5, MesasTipos, FotoFiel
  <2>7. PICK f : f = AplicarSnapshot(SemFoto)
    OBVIOUS
  <2>8. Fiel(f) /\ espelho = f
    BY <1>1, <2>6, <2>7
  <2>9. QED
    BY <2>4, <2>8 DEF Lembrada, Fiel, Retrato, RetratoDaMesa
<1>3. QED
  BY <1>1, <1>2 DEF Retratada

LEMMA RetratadaBasta ==
  ASSUME Retratada
  PROVE  EspelhoFiel
<1>1. ASSUME resultado = Nada, conectado, ElencoCompleto
      PROVE  /\ Visivel(espelho) = Visivel(AplicarSnapshot(espelho))
             /\ espelho.peao \in {Nada, tab.peao}
  <2>1. Lembrada /\ Tipos
    BY <1>1, MesasTipos DEF Retratada
  <2>2. Fiel(espelho)
    BY <1>1, <2>1 DEF Lembrada
  <2>3. Fiel(AplicarSnapshot(espelho))
    BY <1>1, <2>1, FotoFiel DEF Lembrada
  <2>4. PICK f : f = AplicarSnapshot(espelho)
    OBVIOUS
  <2>5. Visivel(espelho) = Visivel(f) /\ espelho.peao \in {Nada, tab.peao}
    BY <2>2, <2>3, <2>4, MesmaFoto
  <2>6. QED
    BY <2>4, <2>5
<1>2. QED
  BY <1>1 DEF EspelhoFiel

(***************************************************************************)
(* The mirror of the page is the state of the match: what the events of    *)
(* the lots, one after another, whoever played and whatever they were lots *)
(* of, have made of it (estadoDoTabuleiroNoCliente.ts, reduzirEventos) is  *)
(* what a snapshot taken now would make of it, Proteção and the selected   *)
(* pawn of another apart; through lots lost off line, the snapshot of an   *)
(* admission and the page reloaded.                                        *)
(***************************************************************************)
THEOREM EspelhoSempreFiel == SpecDaMesa => []EspelhoFiel
<1>1. InitDaMesa => Retratada
  BY RetratadaNoInicio
<1>2. Retratada /\ [NextDaMesa]_varsDaMesa => Retratada'
  BY RetratadaSegue
<1>3. Retratada => EspelhoFiel
  BY RetratadaBasta
<1>4. QED
  BY <1>1, <1>2, <1>3, PTL DEF SpecDaMesa

-----------------------------------------------------------------------------
(* What the page offers is accepted.  Beside the mirror it takes what the  *)
(* page reads in the state after the first turn: nobody's Peça Inicial     *)
(* waits on the table any more, and the piece that can still be turned     *)
(* lies on the board.                                                      *)

SemIniciaisDosQueJogaram ==
  \A k \in Jogadores : ~jogadores[k].primeiroTurno => <<"inicial", k>> \notin DOMAIN tab.iniciais
ViradaNaMesa == ~Comecando => tab.manipulacao \in Mesa(tab) \cup {Nada}
Assentada == SemIniciaisDosQueJogaram /\ ViradaNaMesa

LEMMA IniciaisNaoVoltam ==
  ASSUME Bom(tab), Bom(tab'), Fora(tab') \subseteq Fora(tab), NEW k, <<"inicial", k>> \in PecasIniciais,
         <<"inicial", k>> \notin DOMAIN tab.iniciais
  PROVE  <<"inicial", k>> \notin DOMAIN tab'.iniciais
<1>1. <<"inicial", k>> \notin Pendentes(tab) /\ <<"inicial", k>> \notin PecasDa(tab.caixa)
  <2>1. Pendentes(tab) \subseteq PecasDaCaixa /\ tab.caixa \in Seq(PecasDaCaixa)
    BY MesaDe DEF Bom, Tabuleiros
  <2>2. PecasDa(tab.caixa) \subseteq PecasDaCaixa
    BY <2>1 DEF PecasDa
  <2>3. QED
    BY <2>1, <2>2, TiposDistintos
<1>2. QED
  BY <1>1 DEF Fora

(* Whoever confirms leaves the piece of the crossing under the pawn.       *)
LEMMA ViradaConfirmada ==
  ASSUME Calmo, Tipos', Confirma
  PROVE  tab'.manipulacao \in Mesa(tab') \cup {Nada}
<1>1. /\ NaVez /\ ViradaNoLugar(tab, jogadores, turno) /\ tab'.manipulacao = tab.manipulacao
      /\ tab'.peoes = tab.peoes /\ NoPeao \in Mesa(tab) /\ ~Comecando /\ ~turno.confirmada
      /\ PousouNaTravessia(Ativo) /\ Ativo \in DOMAIN tab.peoes /\ Bom(tab') /\ Bom(tab)
  BY CalmoDiz DEF Confirma, Tipos
<1>2. tab.manipulacao \in {Nada, turno.travessia}
  BY <1>1 DEF ViradaNoLugar, Comecando, Ativo
<1>3. NoPeao # Nada
  BY <1>1, MesaDe, TiposDistintos DEF Bom
<1>4. tab'.peoes[Ativo] \in Mesa(tab')
  BY <1>1, <1>3 DEF Bom, PeoesSobrePecas, NoPeao
<1>5. turno.travessia # Nada => NoPeao = turno.travessia
  BY <1>1 DEF NaVez, PousouNaTravessia, NaPeca, NoPeao
<1>6. QED
  BY <1>1, <1>2, <1>4, <1>5 DEF NoPeao

LEMMA AssentadaSegue ==
  ASSUME Calmo, Assentada, Passo, ElencoCompleto'
  PROVE  Assentada'
<1>1. /\ Tipos /\ NaVez /\ Ordem /\ Espelhado /\ ElencoCompleto /\ Bom(tab)
      /\ DOMAIN jogadores = Jogadores /\ Ativo \in Jogadores /\ tab.peao \in {Nada, Ativo}
  BY CalmoDiz DEF Calmo, NaVez
<1>2. Tipos' /\ Bom(tab')
  BY <1>1, TiposSegue DEF Tipos
<1>3. DOMAIN jogadores' = Jogadores
  BY DEF ElencoCompleto, Jogadores
<1>4. \A k \in Jogadores : <<"inicial", k>> \in PecasIniciais
  BY PartidaAssumption DEF Jogadores, PecasIniciais
<1>5. CASE NaMesmaVez
  <2>1. Segue
    BY <1>1, <1>2, <1>5, MesmaVezSegue
  <2>2. \A k \in Jogadores : jogadores'[k].primeiroTurno = jogadores[k].primeiroTurno
    BY <1>3, <2>1 DEF Segue
  <2>3. SemIniciaisDosQueJogaram'
    <3>1. ASSUME NEW k \in Jogadores, ~jogadores'[k].primeiroTurno
          PROVE  <<"inicial", k>> \notin DOMAIN tab'.iniciais
      BY <1>1, <1>2, <1>4, <2>1, <2>2, <3>1, IniciaisNaoVoltam DEF Segue, Assentada, SemIniciaisDosQueJogaram
    <3>2. QED
      BY <3>1 DEF SemIniciaisDosQueJogaram, Jogadores
  <2>4. ASSUME ~Comecando
        PROVE  tab'.manipulacao \in Mesa(tab') \cup {Nada}
    <3>1. NoMeio
      BY <1>1, <1>2, <1>5, <2>4, PassosDoMeio
    <3>2. tab.manipulacao \in Mesa(tab) \cup {Nada}
      BY <2>4 DEF Assentada, ViradaNaMesa
    <3>3. CASE Seleciona \/ Gira \/ (\E p : Move(p)) \/ (\E r, b : EscolheVaga(r, b)) \/ \E c : Atravessa(c)
      <4>1. Mesa(tab') = Mesa(tab)
        BY <3>3, CelulasParadas
      <4>2. tab'.manipulacao \in {tab.manipulacao, Nada}
        BY <3>3 DEF Seleciona, Gira, Move, EscolheVaga, Atravessa
      <4>3. QED
        BY <3>2, <4>1, <4>2
    <3>4. CASE \E p : PoeRecebida(p)
      BY <3>4 DEF PoeRecebida
    <3>5. CASE Confirma
      BY <1>2, <3>5, ViradaConfirmada
    <3>6. QED
      BY <3>1, <3>3, <3>4, <3>5 DEF NoMeio
  <2>5. (Comecando)' <=> Comecando
    BY <1>1, <2>1, <2>2 DEF Segue, Comecando, Ativo
  <2>6. QED
    BY <2>3, <2>4, <2>5 DEF Assentada, ViradaNaMesa
<1>6. CASE Passa /\ PassaCompleta
  <2>1. /\ tab'.manipulacao = Nada /\ Fora(tab') \subseteq Fora(tab) /\ (Encerra \/ Fica)
    BY <1>1, <1>3, <1>6 DEF Passa, PassaCompleta
  <2>2. ASSUME NEW k \in Jogadores, ~jogadores'[k].primeiroTurno
        PROVE  <<"inicial", k>> \notin DOMAIN tab.iniciais
    <3>1. CASE ~jogadores[k].primeiroTurno
      BY <3>1 DEF Assentada, SemIniciaisDosQueJogaram
    <3>2. CASE jogadores[k].primeiroTurno
      <4>1. Encerra /\ k = Ativo
        BY <1>1, <2>1, <2>2, <3>2 DEF Encerra, Fica
      <4>2. Comecando /\ NoPeao # Nada
        BY <3>2, <4>1 DEF Comecando, Encerra
      <4>3. QED
        BY <1>1, <4>1, <4>2, InicialNoLugar
    <3>3. QED
      BY <3>1, <3>2
  <2>3. SemIniciaisDosQueJogaram'
    <3>1. ASSUME NEW k \in Jogadores, ~jogadores'[k].primeiroTurno
          PROVE  <<"inicial", k>> \notin DOMAIN tab'.iniciais
      BY <1>1, <1>2, <1>4, <2>1, <2>2, <3>1, IniciaisNaoVoltam
    <3>2. QED
      BY <3>1 DEF SemIniciaisDosQueJogaram, Jogadores
  <2>4. QED
    BY <2>1, <2>3 DEF Assentada, ViradaNaMesa
<1>7. QED
  BY <1>1, <1>5, <1>6, PassoPorTipo

Servida == Retratada /\ (resultado = Nada /\ ElencoCompleto => Assentada)

LEMMA ServidaSegue ==
  ASSUME Servida, [NextDaMesa]_varsDaMesa
  PROVE  Servida'
<1>1. Retratada' /\ Mesas /\ PassoDaMesa
  BY RetratadaSegue, MesasSegue DEF Servida, Retratada
<1>2. /\ TurnosDosBots /\ Tipos /\ NaVez /\ tab.peao \in {Nada, Ativo}
  BY <1>1, MesasTipos DEF Turnos, NaVez
<1>3. ASSUME resultado' = Nada, ElencoCompleto'
      PROVE  Assentada'
  <2>1. CASE UNCHANGED varsDaPartida
    <3>1. tab' = tab /\ turno' = turno /\ jogadores' = jogadores /\ resultado' = resultado
      BY <2>1 DEF varsDaPartida
    <3>2. Assentada
      BY <1>3, <3>1 DEF Servida, ElencoCompleto
    <3>3. QED
      BY <3>1, <3>2 DEF Assentada, SemIniciaisDosQueJogaram, ViradaNaMesa, Comecando, Ativo, Mesa
  <2>2. CASE Passo
    <3>1. resultado = Nada /\ (NaMesmaVez \/ (Passa /\ PassaCompleta)) /\ Tipos'
      BY <1>2, <2>2, PassoAberto, PassoPorTipo, TiposSegue
    <3>2. ElencoCompleto
      <4>1. DOMAIN jogadores' \subseteq DOMAIN jogadores
        BY <1>2, <3>1, MesmaVezSegue DEF Segue, Passa
      <4>2. DOMAIN jogadores \subseteq Jogadores
        BY <1>2, ElencoDe DEF Tipos
      <4>3. QED
        BY <1>3, <4>1, <4>2 DEF ElencoCompleto
    <3>3. Calmo /\ Assentada
      BY <1>2, <3>1, <3>2 DEF Servida, Retratada, Lembrada, Calmo
    <3>4. QED
      BY <1>3, <2>2, <3>3, AssentadaSegue
  <2>3. QED
    BY <1>1, <1>2, <2>1, <2>2, PartidaAssumption DEF PassoDaMesa, Passo, Jogadores
<1>4. QED
  BY <1>1, <1>3 DEF Servida

LEMMA ServidaNoInicio ==
  ASSUME InitDaMesa
  PROVE  Servida
<1>1. Retratada /\ Init
  BY RetratadaNoInicio, MesasNoInicio
<1>2. \A k \in Jogadores : jogadores[k].primeiroTurno
  BY <1>1 DEF Init
<1>3. Ativo \in Jogadores
  BY <1>1, PartidaAssumption DEF Init, Ativo, Jogadores
<1>4. Assentada
  BY <1>2, <1>3 DEF Assentada, SemIniciaisDosQueJogaram, ViradaNaMesa, Comecando
<1>5. QED
  BY <1>1, <1>4 DEF Servida

(* The state after the first turn with the page of Eu before it.           *)
Servido ==
  /\ Calmo /\ Assentada /\ Fiel(espelho) /\ Ativo = Eu /\ ~Comecando

LEMMA ServidoDiz ==
  ASSUME Servido
  PROVE  /\ Calmo /\ Tipos /\ NaVez /\ Bom(tab) /\ resultado = Nada /\ Encaixada /\ EmAberto /\ Espelhado
         /\ Eu \in Jogadores /\ Eu # Nada /\ turno.ativo = Eu /\ Eu \in DOMAIN tab.peoes
         /\ ~jogadores[Eu].primeiroTurno /\ DOMAIN tab.peoes = Jogadores
         /\ NoPeao = tab.peoes[Eu] /\ NoPeao \in Mesa(tab) /\ NoPeao # Nada /\ ~EhMonstro(NoPeao)
         /\ turno.rodada # 1 /\ tab.peao \in {Nada, Eu}
         /\ DOMAIN tab.iniciais = {} /\ tab.selecionada \in {Nada} \cup Pendentes(tab)
         /\ tab.manipulacao \in Mesa(tab) \cup {Nada}
         /\ \A k \in Jogadores : tab.peoes[k] \in Mesa(tab)
<1>1. /\ Calmo /\ Tipos /\ NaVez /\ Encaixada /\ Ordem /\ Espelhado /\ EmAberto /\ Bom(tab)
      /\ Ativo \in Jogadores /\ Ativo # Nada /\ DOMAIN jogadores = Jogadores
      /\ DOMAIN tab.peoes = Jogadores /\ SelecaoFora(tab) /\ IniciaisDoElenco(tab)
      /\ resultado = Nada /\ ~Comecando /\ Ativo = Eu
  BY CalmoDiz DEF Servido, Calmo
<1>2. turno.rodada # 1 /\ \A k \in Jogadores : ~jogadores[k].primeiroTurno
  BY <1>1, NinguemComecando
<1>3. DOMAIN tab.iniciais = {}
  <2>1. \A k \in Jogadores : <<"inicial", k>> \notin DOMAIN tab.iniciais
    BY <1>2 DEF Servido, Assentada, SemIniciaisDosQueJogaram
  <2>2. DOMAIN tab.iniciais \subseteq {"inicial"} \X Jogadores
    BY <1>1 DEF IniciaisDoElenco
  <2>3. QED
    BY <2>1, <2>2
<1>4. tab.selecionada \in {Nada} \cup Pendentes(tab)
  BY <1>1, <1>3 DEF SelecaoFora
<1>5. tab.manipulacao \in Mesa(tab) \cup {Nada}
  BY <1>1 DEF Servido, Assentada, ViradaNaMesa
<1>6. \A k \in Jogadores : tab.peoes[k] \in Mesa(tab)
  BY <1>1, <1>2 DEF NaVez, Bom, PeoesSobrePecas
<1>7. /\ turno.ativo = Eu /\ NoPeao = tab.peoes[Eu] /\ ~jogadores[Eu].primeiroTurno
      /\ tab.peao \in {Nada, Eu}
  BY <1>1 DEF Ativo, NoPeao, Comecando, NaVez
<1>8. NoPeao \in Mesa(tab) /\ NoPeao # Nada /\ ~EhMonstro(NoPeao)
  BY <1>1, DepoisDoPrimeiro
<1>9. QED
  BY <1>1, <1>2, <1>3, <1>4, <1>5, <1>6, <1>7, <1>8

(* What the page reads of it.                                              *)
LEMMA PaginaDiz ==
  ASSUME Servido
  PROVE  /\ espelho.posicionadas = tab.posicionadas /\ espelho.recebidas = tab.recebidas
         /\ DOMAIN espelho.iniciais = {} /\ espelho.selecionada = tab.selecionada
         /\ espelho.manipulacao = tab.manipulacao /\ espelho.peao \in {Nada, tab.peao}
         /\ espelho.iluminadas = iluminadas /\ espelho.ativo = Eu /\ espelho.rodada = turno.rodada
         /\ espelho.inicio = turno.inicio /\ espelho.confirmada = turno.confirmada
         /\ espelho.atravessou = turno.atravessou /\ espelho.travessia = turno.travessia
         /\ MeuPeao = Eu /\ SobMeuPeao = NoPeao /\ DonoDe(espelho, Eu) = Eu
         /\ SobOPeao(espelho, Eu) = NoPeao /\ SobOPeao(espelho, Nada) = Nada
         /\ DOMAIN espelho.peoes = Jogadores
         /\ \A k \in Jogadores : espelho.peoes[k] = CelulaDe(tab, tab.peoes[k]) /\ ~NaMesa(k)
         /\ ~NaMesa(Nada)
<1>1. /\ Calmo /\ Tipos /\ Bom(tab) /\ Eu \in Jogadores /\ Eu # Nada /\ DOMAIN tab.peoes = Jogadores
      /\ NoPeao = tab.peoes[Eu] /\ turno.ativo = Eu /\ DOMAIN tab.iniciais = {}
      /\ \A k \in Jogadores : tab.peoes[k] \in Mesa(tab)
  BY ServidoDiz
<1>2. DOMAIN jogadores = Jogadores /\ Nada \notin Jogadores
  BY <1>1, CalmoDiz, PartidaAssumption DEF Jogadores
<1>3. /\ RetratoDaMesa(espelho, tab) /\ RetratoDosPeoes(espelho, tab, jogadores)
      /\ RetratoDoTurno(espelho, turno) /\ RetratoDoElenco(espelho, jogadores)
      /\ RetratoDosBens(espelho, iluminadas, geradores, cartao)
  BY DEF Servido, Fiel, Retrato
<1>4. /\ espelho.posicionadas = tab.posicionadas /\ espelho.recebidas = tab.recebidas
      /\ DOMAIN espelho.iniciais = {} /\ espelho.selecionada = tab.selecionada
      /\ espelho.manipulacao = tab.manipulacao /\ espelho.peao \in {Nada, tab.peao}
  BY <1>1, <1>3 DEF RetratoDaMesa
<1>5. /\ espelho.iluminadas = iluminadas /\ espelho.ativo = Eu /\ espelho.rodada = turno.rodada
      /\ espelho.inicio = turno.inicio /\ espelho.confirmada = turno.confirmada
      /\ espelho.atravessou = turno.atravessou /\ espelho.travessia = turno.travessia
  BY <1>1, <1>3 DEF RetratoDoTurno, RetratoDosBens
<1>6. /\ espelho.peoes = [j \in Jogadores |-> CelulaDoPeao(tab, j)]
      /\ espelho.dono = [j \in Jogadores |-> j]
  BY <1>2, <1>3 DEF RetratoDosPeoes, RetratoDoElenco
<1>7. DonoDe(espelho, Eu) = Eu
  BY <1>1, <1>6 DEF DonoDe
<1>8. SobOPeao(espelho, Eu) = NoPeao /\ SobOPeao(espelho, Nada) = Nada
  <2>1. SobOPeao(espelho, DonoDe(espelho, Eu)) = tab.peoes[Eu]
    BY <1>1, <1>4, <1>6, InicioVisto
  <2>2. QED
    BY <1>1, <1>2, <1>6, <1>7, <2>1 DEF SobOPeao
<1>9. \A k \in Jogadores : espelho.peoes[k] = CelulaDe(tab, tab.peoes[k]) /\ ~NaMesa(k)
  <2>1. ASSUME NEW k \in Jogadores
        PROVE  espelho.peoes[k] = CelulaDe(tab, tab.peoes[k]) /\ espelho.peoes[k] # Nada
    <3>1. tab.peoes[k] \in Mesa(tab) /\ tab.peoes[k] # Nada /\ CelulaDe(tab, tab.peoes[k]) \in Celulas
      BY <1>1, MesaDe, TiposDistintos DEF Bom
    <3>2. CelulaDoPeao(tab, k) = CelulaDe(tab, tab.peoes[k])
      BY <1>1, <3>1, CelulaSob
    <3>3. QED
      BY <1>6, <3>1, <3>2, TiposDistintos
  <2>2. QED
    BY <2>1 DEF NaMesa
<1>10. ~NaMesa(Nada) /\ DOMAIN espelho.peoes = Jogadores
  BY <1>2, <1>6 DEF NaMesa
<1>11. MeuPeao = Eu /\ SobMeuPeao = NoPeao
  BY <1>7, <1>8 DEF MeuPeao, SobMeuPeao
<1>12. QED
  BY <1>4, <1>5, <1>7, <1>8, <1>9, <1>10, <1>11

LEMMA PecasVistas ==
  ASSUME Servido
  PROVE  /\ \A c \in Celulas : VaziaNoEspelho(c) <=> Vazia(tab, c)
         /\ \A p \in Mesa(tab) : AberturasNoEspelho(p) = Aberturas(tab, p)
         /\ \A p \in Mesa(tab) : VizinhasNoEspelho(p) = VizinhasConectadas(tab, p)
         /\ \A p \in Mesa(tab) : OcupantesNoEspelho(p) = Ocupantes(tab, p)
         /\ \A p \in Mesa(tab) : TetoNoEspelho(p) = TetoOcupacao(tab, jogadores, p)
         /\ DOMAIN espelho.jogadores = Jogadores
         /\ \A k \in Jogadores : espelho.jogadores[k].baixa = jogadores[k].baixa
<1>1. /\ Calmo /\ Tipos /\ Bom(tab) /\ tab \in Tabuleiros /\ DOMAIN tab.peoes = Jogadores
      /\ \A k \in Jogadores : tab.peoes[k] \in Mesa(tab)
  BY ServidoDiz DEF Bom
<1>2. /\ espelho.posicionadas = tab.posicionadas /\ DOMAIN espelho.peoes = Jogadores
      /\ \A k \in Jogadores : espelho.peoes[k] = CelulaDe(tab, tab.peoes[k])
  BY PaginaDiz
<1>3. DOMAIN jogadores = Jogadores /\ Nada \notin Celulas
  BY <1>1, CalmoDiz, TiposDistintos
<1>4. MesmoElenco(espelho.jogadores, jogadores)
  BY DEF Servido, Fiel, Retrato, RetratoDoElenco
<1>5. /\ DOMAIN espelho.jogadores = Jogadores
      /\ \A k \in Jogadores : /\ espelho.jogadores[k].baixa = jogadores[k].baixa
                              /\ espelho.jogadores[k].amedrontado = jogadores[k].amedrontado
  <2>1. PICK m : m = espelho.jogadores
    OBVIOUS
  <2>2. m = [j \in Jogadores |-> m[j]] /\ \A k \in Jogadores : MesmaPercepcao(jogadores[k], m[k])
    BY <1>3, <1>4, <2>1 DEF MesmoElenco
  <2>3. DOMAIN m = Jogadores
    BY <2>2
  <2>4. ASSUME NEW k \in Jogadores
        PROVE  m[k].baixa = jogadores[k].baixa /\ m[k].amedrontado = jogadores[k].amedrontado
    <3>1. MesmaPercepcao(jogadores[k], m[k])
      BY <2>2
    <3>2. PICK s : s = m[k]
      OBVIOUS
    <3>3. s = [sanidade |-> jogadores[k].sanidade, baixa |-> jogadores[k].baixa,
               amedrontado |-> jogadores[k].amedrontado, protegido |-> s.protegido]
      BY <3>1, <3>2 DEF MesmaPercepcao
    <3>4. s.baixa = jogadores[k].baixa /\ s.amedrontado = jogadores[k].amedrontado
      BY <3>3
    <3>5. QED
      BY <3>2, <3>4
  <2>5. QED
    BY <2>1, <2>3, <2>4
<1>6. \A c \in Celulas : VaziaNoEspelho(c) <=> Vazia(tab, c)
  BY <1>2, <1>3 DEF VaziaNoEspelho, PecasEm, Vazia, Mesa, CelulaDe
<1>7. \A p \in Mesa(tab) : AberturasNoEspelho(p) = Aberturas(tab, p)
  BY <1>2 DEF AberturasNoEspelho, Aberturas
<1>8. ASSUME NEW p \in Mesa(tab)
      PROVE  VizinhasNoEspelho(p) = VizinhasConectadas(tab, p)
  <2>1. Aberturas(tab, p) \subseteq Bordas
    BY <1>1, MesaDe
  <2>2. \A q \in Mesa(tab) : AberturasNoEspelho(q) = Aberturas(tab, q)
    BY <1>7
  <2>3. VizinhasNoEspelho(p) =
          {q \in Mesa(tab) : \E b \in Aberturas(tab, p) :
             /\ tab.posicionadas[q].celula = Vizinha(tab.posicionadas[p].celula, b)
             /\ Oposta(b) \in AberturasNoEspelho(q)}
    BY <1>2, <2>2 DEF VizinhasNoEspelho, Mesa
  <2>4. QED
    BY <2>1, <2>2, <2>3 DEF VizinhasConectadas, LigadaPela, CelulaDe
<1>9. ASSUME NEW p \in Mesa(tab)
      PROVE  OcupantesNoEspelho(p) = Ocupantes(tab, p)
  <2>1. \A q \in Mesa(tab) : CelulaDe(tab, q) = CelulaDe(tab, p) => q = p
    BY <1>1 DEF Bom, PecasSeparadas
  <2>2. OcupantesNoEspelho(p) = {k \in Jogadores : CelulaDe(tab, tab.peoes[k]) = CelulaDe(tab, p)}
    BY <1>2 DEF OcupantesNoEspelho, CelulaDe
  <2>3. QED
    BY <1>1, <2>1, <2>2 DEF Ocupantes
<1>10. ASSUME NEW p \in Mesa(tab)
       PROVE  TetoNoEspelho(p) = TetoOcupacao(tab, jogadores, p)
  <2>1. Ocupantes(tab, p) \subseteq Jogadores
    BY <1>1 DEF Ocupantes
  <2>2. \A k \in Jogadores : AfetadoNoEspelho(k) <=> Afetado(jogadores[k])
    BY <1>5 DEF AfetadoNoEspelho, Afetado
  <2>3. (\E k \in OcupantesNoEspelho(p) : AfetadoNoEspelho(k))
          <=> \E k \in Ocupantes(tab, p) : Afetado(jogadores[k])
    BY <1>9, <2>1, <2>2
  <2>4. QED
    BY <1>3, <1>5, <2>3 DEF TetoNoEspelho, TetoOcupacao
<1>11. QED
  BY <1>5, <1>6, <1>7, <1>8, <1>9, <1>10

-----------------------------------------------------------------------------
(* Each kind of offer.                                                     *)

Vale(s) == DeixadaAoServidor(s[Len(s)]) \/ Aceitavel(s)

LEMMA ValeUma ==
  ASSUME NEW a, DeixadaAoServidor(a) \/ AceitaDoCliente(a)
  PROVE  Vale(<< a >>)
<1>1. Len(<< a >>) = 1 /\ << a >>[1] = a
  OBVIOUS
<1>2. QED
  BY <1>1 DEF Vale, Aceitavel

LEMMA ComandoAceito ==
  ASSUME NEW a, a[1] \notin {"desselecionar_peao", "finalizar_manipulacao"}, Aceita(Eu, a)
  PROVE  AceitaDoCliente(a)
BY DEF AceitaDoCliente, AceitaComando

LEMMA ReferenciaVista ==
  ASSUME Servido, tab.recebidas # <<>> \/ espelho.peao = Eu
  PROVE  /\ PeaoDeReferencia = Eu /\ (ReferenciaEmBaixa <=> jogadores[Eu].baixa)
         /\ SobOPeao(espelho, PeaoDeReferencia) = NoPeao
<1>1. /\ espelho.recebidas = tab.recebidas /\ espelho.peao \in {Nada, tab.peao}
      /\ espelho.ativo = Eu /\ DonoDe(espelho, Eu) = Eu /\ SobOPeao(espelho, Eu) = NoPeao
  BY PaginaDiz
<1>2. Eu \in Jogadores /\ Eu # Nada /\ tab.peao \in {Nada, Eu}
  BY ServidoDiz
<1>3. PeaoDeReferencia = Eu
  BY <1>1, <1>2 DEF PeaoDeReferencia
<1>4. DOMAIN espelho.jogadores = Jogadores /\ espelho.jogadores[Eu].baixa = jogadores[Eu].baixa
  BY <1>2, PecasVistas
<1>5. QED
  BY <1>1, <1>2, <1>3, <1>4 DEF ReferenciaEmBaixa

(* An edge the page shows is one the pawn has; where no piece has its cell *)
(* already, it is one that is free.                                        *)
LEMMA VagasVistas ==
  ASSUME Servido, tab.recebidas # <<>> \/ espelho.peao = Eu, NEW b \in VagasDoPeao
  PROVE  LET c == Vizinha(CelulaDe(tab, NoPeao), b)
         IN  /\ b \in Aberturas(tab, NoPeao) /\ b \in Bordas /\ c \in Celulas
             /\ Travadas # {} => \E r \in Travadas : c = tab.recebidas[r].alvo
             /\ Travadas = {} => /\ b \in VagasDisponiveis(tab, NoPeao)
                                 /\ jogadores[Eu].baixa => c \notin iluminadas
<1> DEFINE c == Vizinha(CelulaDe(tab, NoPeao), b)
<1>1. /\ espelho.recebidas = tab.recebidas /\ espelho.posicionadas = tab.posicionadas
      /\ espelho.iluminadas = iluminadas
  BY PaginaDiz
<1>2. NoPeao \in Mesa(tab) /\ NoPeao # Nada /\ tab \in Tabuleiros
  BY ServidoDiz DEF Bom
<1>3. /\ SobOPeao(espelho, PeaoDeReferencia) = NoPeao /\ (ReferenciaEmBaixa <=> jogadores[Eu].baixa)
  BY ReferenciaVista
<1>4. AberturasNoEspelho(NoPeao) = Aberturas(tab, NoPeao)
  BY <1>2, PecasVistas
<1>5. Vizinha(espelho.posicionadas[NoPeao].celula, b) = c
  BY <1>1 DEF CelulaDe
<1>6. b \in Aberturas(tab, NoPeao)
  BY <1>2, <1>3, <1>4 DEF VagasDoPeao
<1>7. b \in Bordas /\ c \in Celulas
  BY <1>2, <1>6, MesaDe, VizinhaCelula
<1>8. ASSUME Travadas # {}
      PROVE  \E r \in Travadas : c = tab.recebidas[r].alvo
  BY <1>1, <1>2, <1>3, <1>5, <1>8 DEF VagasDoPeao
<1>9. ASSUME Travadas = {}
      PROVE  b \in VagasDisponiveis(tab, NoPeao) /\ (jogadores[Eu].baixa => c \notin iluminadas)
  <2>1. /\ \A r \in DOMAIN espelho.recebidas : espelho.recebidas[r].vaga # b
        /\ VaziaNoEspelho(c) /\ (ReferenciaEmBaixa => c \notin espelho.iluminadas)
    BY <1>2, <1>3, <1>5, <1>9 DEF VagasDoPeao
  <2>2. Vazia(tab, c)
    BY <1>7, <2>1, PecasVistas
  <2>3. QED
    BY <1>1, <1>3, <1>6, <2>1, <2>2 DEF VagasDisponiveis, Pendentes
<1> HIDE DEF c
<1>10. QED
  BY <1>6, <1>7, <1>8, <1>9 DEF c

LEMMA CorrenteDe ==
  ASSUME Servido, SemVaga # {}
  PROVE  Corrente \in SemVaga
<1>1. SemVaga \subseteq PecasDaCaixa
  <2>1. Pendentes(tab) \subseteq PecasDaCaixa
    BY ServidoDiz, MesaDe DEF Bom
  <2>2. QED
    BY <2>1, PaginaDiz DEF SemVaga, Pendentes
<1> DEFINE T == {r[2] : r \in SemVaga}
<1>2. T \in SUBSET Nat /\ T # {}
  BY <1>1 DEF PecasDaCaixa
<1>3. PICK x \in T : \A y \in T : x <= y
  BY <1>2, PrimeiroNatural
<1>4. \E r \in SemVaga : \A q \in SemVaga : r[2] <= q[2]
  BY <1>3
<1>5. QED
  BY <1>4 DEF Corrente

LEMMA ValeVaga ==
  ASSUME Servido, NEW s \in CliquesEmVaga
  PROVE  Vale(s)
<1>1. SemVaga # {}
  BY DEF CliquesEmVaga
<1>2. PICK b \in VagasDoPeao : s = << <<"escolher_vaga_da_peca_recebida", Corrente, b>> >>
  BY <1>1 DEF CliquesEmVaga
<1>3. PICK r \in SemVaga : r = Corrente
  BY <1>1, CorrenteDe
<1>4. /\ espelho.recebidas = tab.recebidas /\ r \in Pendentes(tab) /\ tab.recebidas[r].vaga = Nada
  BY PaginaDiz DEF SemVaga, Pendentes
<1>5. /\ Calmo /\ Tipos /\ NaVez /\ resultado = Nada /\ Ativo = Eu /\ EmAberto
      /\ NoPeao \in Mesa(tab) /\ NoPeao # Nada /\ tab \in Tabuleiros /\ turno.ativo = Eu
  BY ServidoDiz DEF Servido, Bom
<1>6. tab.recebidas # <<>>
  BY <1>4, <1>5, MesaDe
<1> DEFINE c == Vizinha(CelulaDe(tab, NoPeao), b)
           a == <<"escolher_vaga_da_peca_recebida", r, b>>
<1>7. CASE Fixadas # {}
  <2>1. DeixadaAoServidor(a)
    BY <1>7 DEF DeixadaAoServidor
  <2>2. QED
    BY <1>2, <1>3, <2>1, ValeUma
<1>8. CASE Fixadas = {}
  <2>1. b \in Aberturas(tab, NoPeao) /\ b \in Bordas /\ c \in Celulas
    BY <1>6, VagasVistas
  <2>2. b \in VagasDisponiveis(tab, NoPeao) /\ VagaElegivel(Eu, r, b)
    <3>1. CASE Travadas # {}
      <4>1. PICK q \in Travadas : c = tab.recebidas[q].alvo
        BY <1>6, <3>1, VagasVistas
      <4>2. q \in Pendentes(tab) /\ tab.recebidas[q].vaga = Nada /\ tab.recebidas[q].alvo # Nada
        BY <1>4 DEF Travadas, SemVaga, Pendentes
      <4>3. turno.atravessou /\ ~turno.confirmada
        BY <1>5, <4>2, CalmoDiz DEF AlvosComVaga
      <4>4. /\ Unica(Pendentes(tab))
            /\ \E d \in Livres(tab, NoPeao) : tab.recebidas[q].alvo = Vizinha(CelulaDe(tab, NoPeao), d)
        BY <1>5, <4>2, <4>3 DEF EmAberto, TravessiaAberta
      <4>5. q = r /\ Vazia(tab, c)
        BY <1>4, <4>1, <4>2, <4>4 DEF Unica, Livres
      <4>6. \A x \in Pendentes(tab) : tab.recebidas[x].vaga # b
        BY <1>8, <2>1, TiposDistintos DEF Fixadas
      <4>7. b \in VagasDisponiveis(tab, NoPeao)
        BY <2>1, <4>5, <4>6 DEF VagasDisponiveis
      <4>8. VagaElegivel(Eu, r, b)
        BY <1>5, <4>1, <4>2, <4>5 DEF VagaElegivel, NaPeca, NoPeao
      <4>9. QED
        BY <4>7, <4>8
    <3>2. CASE Travadas = {}
      <4>1. tab.recebidas[r].alvo = Nada
        BY <1>4, <3>2 DEF Travadas
      <4>2. b \in VagasDisponiveis(tab, NoPeao) /\ (jogadores[Eu].baixa => c \notin iluminadas)
        BY <1>6, <3>2, VagasVistas
      <4>3. VagaElegivel(Eu, r, b)
        BY <1>5, <4>1, <4>2 DEF VagaElegivel, NaPeca, NoPeao
      <4>4. QED
        BY <4>2, <4>3
    <3>3. QED
      BY <3>1, <3>2
  <2>3. a \in AcoesDasPendentes(Ativo)
    <3>1. NaPeca(Ativo) = NoPeao
      BY DEF NaPeca, NoPeao
    <3>2. <<r, b>> \in {y \in Pendentes(tab) \X VagasDisponiveis(tab, NaPeca(Ativo)) :
                          VagaElegivel(Ativo, y[1], y[2])}
      BY <1>4, <1>5, <2>2, <3>1
    <3>3. QED
      BY <3>2 DEF AcoesDasPendentes
  <2>4. Aceita(Eu, a)
    BY <1>5, <1>6, <1>8, <2>3, AceitaPendente
  <2>5. AceitaDoCliente(a)
    BY <2>4, ComandoAceito
  <2>6. QED
    BY <1>2, <1>3, <2>5, ValeUma
<1>9. QED
  BY <1>7, <1>8

LEMMA ValeEncaixe ==
  ASSUME Servido, NEW s \in CliquesDeEncaixe
  PROVE  Vale(s)
<1>1. PICK r \in DOMAIN espelho.recebidas :
         /\ espelho.recebidas[r].vaga # Nada
         /\ s = << <<"posicionar_peca", r, espelho.recebidas[r].alvo>> >>
  BY DEF CliquesDeEncaixe
<1>2. PICK a : a = <<"posicionar_peca", r, tab.recebidas[r].alvo>>
  OBVIOUS
<1>3. s = << a >> /\ r \in Pendentes(tab) /\ r \in Fixadas
  BY <1>1, <1>2, PaginaDiz DEF Pendentes, Fixadas
<1>4. /\ Tipos /\ NaVez /\ resultado = Nada /\ VagasAbertas /\ Escolhidas /\ Ativo = Eu
      /\ ~EhInicial(r)
  <2>1. Pendentes(tab) \subseteq PecasDaCaixa
    BY ServidoDiz, MesaDe DEF Bom
  <2>2. QED
    BY <1>3, <2>1, ServidoDiz, TiposDistintos DEF Servido, Encaixada, Espelhado
<1>5. CASE Conecta(tab, r)
  <2>1. a \in AcoesDaFixada(r)
    BY <1>2, <1>5 DEF AcoesDaFixada
  <2>2. AceitaDoCliente(a)
    BY <1>2, <1>3, <1>4, <2>1, AceitaFixada, ComandoAceito
  <2>3. QED
    BY <1>3, <2>2, ValeUma
<1>6. CASE ~Conecta(tab, r)
  <2>1. DeixadaAoServidor(a)
    BY <1>2, <1>4, <1>6 DEF DeixadaAoServidor
  <2>2. QED
    BY <1>3, <2>1, ValeUma
<1>7. QED
  BY <1>5, <1>6

LEMMA ValeMovimento ==
  ASSUME Servido, espelho.recebidas = <<>>, espelho.peao = Eu, NEW s \in CliquesDeMovimento
  PROVE  Vale(s)
<1>1. /\ tab.recebidas = <<>> /\ tab.peao = Eu /\ SobOPeao(espelho, espelho.peao) = NoPeao
      /\ espelho.posicionadas = tab.posicionadas /\ espelho.inicio = turno.inicio
      /\ espelho.confirmada = turno.confirmada /\ espelho.atravessou = turno.atravessou
      /\ espelho.travessia = turno.travessia
  BY PaginaDiz, ServidoDiz
<1>2. /\ resultado = Nada /\ turno.ativo = Eu /\ ~jogadores[Eu].primeiroTurno
      /\ NoPeao = tab.peoes[Eu] /\ NoPeao \in Mesa(tab)
  BY ServidoDiz
<1>3. ~turno.confirmada
  BY <1>1 DEF CliquesDeMovimento
<1>4. PICK p \in DestinosDoPeao : s = << <<"mover_peao", p>> >>
  BY DEF CliquesDeMovimento
<1>5. /\ p \in VizinhasNoEspelho(NoPeao) /\ NaZonaDoEspelho(p) /\ ~EhMonstro(p)
      /\ Cardinality(OcupantesNoEspelho(p)) < TetoNoEspelho(p)
      /\ turno.atravessou /\ turno.travessia # Nada => p = turno.travessia
  BY <1>1 DEF DestinosDoPeao
<1>6. p \in VizinhasConectadas(tab, NoPeao) /\ p \in Mesa(tab)
  <2>1. VizinhasNoEspelho(NoPeao) = VizinhasConectadas(tab, NoPeao)
    BY <1>2, PecasVistas
  <2>2. QED
    BY <1>5, <2>1 DEF VizinhasConectadas
<1>7. Cardinality(Ocupantes(tab, p)) < TetoOcupacao(tab, jogadores, p)
  <2>1. OcupantesNoEspelho(p) = Ocupantes(tab, p) /\ TetoNoEspelho(p) = TetoOcupacao(tab, jogadores, p)
    BY <1>6, PecasVistas
  <2>2. QED
    BY <1>5, <2>1
<1>8. NaZona(p)
  <2>1. CASE turno.atravessou
    BY <1>5, <2>1 DEF NaZona
  <2>2. CASE ~turno.atravessou /\ turno.inicio \in Mesa(tab)
    <3>1. VizinhasNoEspelho(turno.inicio) = VizinhasConectadas(tab, turno.inicio)
      BY <2>2, PecasVistas
    <3>2. p \in {turno.inicio} \cup VizinhasNoEspelho(turno.inicio)
      BY <1>1, <1>5, <2>2 DEF NaZonaDoEspelho, Mesa
    <3>3. QED
      BY <2>2, <3>1, <3>2 DEF NaZona
  <2>3. QED
    BY <2>1, <2>2 DEF NaZona
<1>9. PodeMoverOPeao(Eu, p)
  BY <1>1, <1>2, <1>3, <1>5, <1>6, <1>7, <1>8 DEF PodeMoverOPeao, SemPassoDefinitivo, DaVez, PodeMoverPeao
<1>10. Aceita(Eu, <<"mover_peao", p>>)
  BY <1>9, AceitaDe
<1>11. AceitaDoCliente(<<"mover_peao", p>>)
  BY <1>10, ComandoAceito
<1>12. QED
  BY <1>4, <1>11, ValeUma

LEMMA ValeTravessia ==
  ASSUME Servido, espelho.recebidas = <<>>, espelho.peao = Eu, NEW s \in CliquesDeTravessia
  PROVE  Vale(s)
<1>1. /\ tab.recebidas = <<>> /\ SobOPeao(espelho, espelho.peao) = NoPeao
      /\ espelho.posicionadas = tab.posicionadas /\ espelho.inicio = turno.inicio
      /\ espelho.confirmada = turno.confirmada /\ espelho.atravessou = turno.atravessou
  BY PaginaDiz
<1>2. /\ Calmo /\ resultado = Nada /\ turno.ativo = Eu /\ ~jogadores[Eu].primeiroTurno
      /\ NoPeao = tab.peoes[Eu] /\ NoPeao \in Mesa(tab) /\ NoPeao # Nada /\ tab.peao \in {Nada, Eu}
      /\ tab \in Tabuleiros /\ Espelhado
  BY ServidoDiz DEF Bom
<1>3. /\ ~turno.atravessou /\ ~turno.confirmada /\ ReferenciaEmBaixa
      /\ turno.inicio \in {Nada, NoPeao}
  BY <1>1 DEF CliquesDeTravessia
<1>4. PICK b \in VagasDoPeao :
         s = << <<"atravessar_o_escuro", Vizinha(espelho.posicionadas[NoPeao].celula, b)>> >>
  BY <1>1 DEF CliquesDeTravessia
<1>5. PICK c : c = Vizinha(CelulaDe(tab, NoPeao), b)
  OBVIOUS
<1>6. s = << <<"atravessar_o_escuro", c>> >>
  BY <1>1, <1>4, <1>5 DEF CelulaDe
<1>7. jogadores[Eu].baixa
  BY <1>3, ReferenciaVista
<1>8. Travadas = {}
  <2>1. DOMAIN espelho.recebidas = {}
    OBVIOUS
  <2>2. QED
    BY <2>1 DEF Travadas, SemVaga
<1>9. b \in VagasDisponiveis(tab, NoPeao) /\ c \notin iluminadas
  BY <1>5, <1>7, <1>8, VagasVistas
<1>10. iluminadas = Luz(tab, jogadores)
  <2>1. ~Comecando /\ turno.inicio # Nada
    BY <1>2 DEF Servido, Espelhado
  <2>2. Clareada(NoInicio, jogadores, iluminadas)
    BY <1>2, <1>3, <2>1
      DEF Calmo, TurnosDosBots, TurnosComSaida, TurnosComLuz, Luzes, ClaraAntes
  <2>3. NoInicio = tab
    BY <1>2, <1>3, <2>1, PeaoNoInicio
  <2>4. QED
    BY <2>2, <2>3 DEF Clareada
<1>11. PodeAtravessar(Eu, c)
  BY <1>2, <1>3, <1>5, <1>7, <1>9, <1>10 DEF PodeAtravessar, SemPassoDefinitivo, DaVez, NaPeca
<1>12. Aceita(Eu, <<"atravessar_o_escuro", c>>)
  BY <1>11, AceitaDe
<1>13. AceitaDoCliente(<<"atravessar_o_escuro", c>>)
  BY <1>12, ComandoAceito
<1>14. QED
  BY <1>6, <1>13, ValeUma

LEMMA ValeMesa ==
  ASSUME Servido, NEW s \in CliquesDaMesa
  PROVE  Vale(s)
<1>1. /\ espelho.posicionadas = tab.posicionadas /\ DOMAIN espelho.iniciais = {}
      /\ espelho.manipulacao = tab.manipulacao
  BY PaginaDiz
<1>2. /\ resultado = Nada /\ turno.ativo = Eu /\ tab.manipulacao \in PecasDaCaixa \cup {Nada}
      /\ tab \in Tabuleiros
  BY ServidoDiz DEF EmAberto, ViraRecebida, Bom
<1>3. PICK p \in Mesa(tab) : p = tab.manipulacao /\ s = << <<"selecionar_peca", p>> >>
  BY <1>1 DEF CliquesDaMesa, Mesa
<1>4. ~EhInicial(p)
  BY <1>2, <1>3, MesaDe, TiposDistintos
<1>5. PodeSelecionarAPeca(Eu, p)
  BY <1>2, <1>3, <1>4 DEF PodeSelecionarAPeca, DaVez, InicialDisponivel, PodeSelecionarPeca
<1>6. Aceita(Eu, <<"selecionar_peca", p>>)
  BY <1>5, AceitaDe
<1>7. AceitaDoCliente(<<"selecionar_peca", p>>)
  BY <1>6, ComandoAceito
<1>8. QED
  BY <1>3, <1>7, ValeUma

LEMMA PeaoSelecionavel ==
  ASSUME Servido, tab.recebidas = <<>>
  PROVE  AceitaDoCliente(<<"selecionar_peao">>) /\ AceitaDoCliente(<<"desselecionar_peao">>)
<1>1. DaVez(Eu)
  BY ServidoDiz DEF DaVez
<1>2. Aceita(Eu, <<"selecionar_peao">>)
  BY <1>1, AceitaDe DEF PodeSelecionarOPeao, PodeSelecionarPeao
<1>3. AceitaDoCliente(<<"selecionar_peao">>)
  BY <1>2, ComandoAceito
<1>4. AceitaDoCliente(<<"desselecionar_peao">>)
  BY <1>1 DEF AceitaDoCliente, AceitaComando, PodeDesselecionarPeao
<1>5. QED
  BY <1>3, <1>4

LEMMA ValePeao ==
  ASSUME Servido, NEW s \in CliquesNoPeao
  PROVE  Vale(s)
<1>1. tab.recebidas = <<>>
  BY PaginaDiz DEF CliquesNoPeao
<1>2. s \in {<< <<"selecionar_peao">> >>, << <<"desselecionar_peao">> >>}
  BY DEF CliquesNoPeao
<1>3. QED
  BY <1>1, <1>2, PeaoSelecionavel, ValeUma

LEMMA ValeTecla ==
  ASSUME Servido, NEW s \in Teclas
  PROVE  Vale(s)
<1>1. espelho.manipulacao = tab.manipulacao /\ espelho.selecionada = tab.selecionada
  BY PaginaDiz
<1>2. /\ resultado = Nada /\ turno.ativo = Eu /\ tab.selecionada \in {Nada} \cup Pendentes(tab)
      /\ tab.manipulacao \in Mesa(tab) \cup {Nada} /\ DaVez(Eu)
  BY ServidoDiz DEF DaVez
<1>3. CASE s \in CliquesDeEncaixe
  BY <1>3, ValeEncaixe
<1>4. CASE s = << <<"finalizar_manipulacao">> >> /\ espelho.manipulacao # Nada
  <2>1. AceitaDoCliente(<<"finalizar_manipulacao">>)
    BY <1>1, <1>2, <1>4 DEF AceitaDoCliente, AceitaComando
  <2>2. QED
    BY <1>4, <2>1, ValeUma
<1>5. ASSUME NEW passo \in Giros, s = << <<"girar_peca", AlvoDeGiro, passo>> >>, AlvoDeGiro # Nada
      PROVE  Vale(s)
  <2>1. PICK p : p = AlvoDeGiro
    OBVIOUS
  <2>2. CASE tab.manipulacao # Nada
    <3>1. p \in Mesa(tab)
      BY <1>1, <1>2, <2>1, <2>2 DEF AlvoDeGiro
    <3>2. DeixadaAoServidor(<<"girar_peca", p, passo>>)
      BY <3>1 DEF DeixadaAoServidor
    <3>3. QED
      BY <1>5, <2>1, <3>2, ValeUma
  <2>3. CASE tab.manipulacao = Nada
    <3>1. p = tab.selecionada /\ p \in Pendentes(tab) /\ p # Nada
      BY <1>1, <1>2, <1>5, <2>1, <2>3 DEF AlvoDeGiro
    <3>2. PodeGirarAPeca(Eu, p, passo)
      BY <1>2, <2>3, <3>1 DEF PodeGirarAPeca, PodeGirarPeca, PodeGirarRecebida
    <3>3. Aceita(Eu, <<"girar_peca", p, passo>>)
      BY <3>2, AceitaDe
    <3>4. AceitaDoCliente(<<"girar_peca", p, passo>>)
      BY <3>3, ComandoAceito
    <3>5. QED
      BY <1>5, <2>1, <3>4, ValeUma
  <2>4. QED
    BY <2>2, <2>3
<1>6. QED
  BY <1>3, <1>4, <1>5 DEF Teclas

(* The button of the turn.                                                 *)
LEMMA ValeEncerrar ==
  ASSUME Servido, turno.confirmada
  PROVE  Vale(<< <<"encerrar_turno">> >>)
<1>1. CASE tab.recebidas # <<>>
  <2>1. DeixadaAoServidor(<<"encerrar_turno">>)
    BY <1>1 DEF DeixadaAoServidor
  <2>2. QED
    BY <2>1, ValeUma
<1>2. CASE tab.recebidas = <<>>
  <2>1. PodeEncerrar(Eu)
    BY <1>2, ServidoDiz DEF PodeEncerrar, DaVez
  <2>2. Aceita(Eu, <<"encerrar_turno">>)
    BY <2>1, AceitaDe
  <2>3. AceitaDoCliente(<<"encerrar_turno">>)
    BY <2>2, ComandoAceito
  <2>4. QED
    BY <2>3, ValeUma
<1>3. QED
  BY <1>1, <1>2

LEMMA ValeConfirmar ==
  ASSUME Servido, ~turno.confirmada, tab.recebidas = <<>>,
         turno.atravessou => NoPeao = turno.travessia
  PROVE  Vale(<< <<"confirmar_posicao_do_peao">> >>)
<1>1. PodeConfirmar(Eu)
  BY ServidoDiz DEF PodeConfirmar, SemPassoDefinitivo, DaVez, NaPeca, TravessiaEmMonstro, PousouNaTravessia
<1>2. Aceita(Eu, <<"confirmar_posicao_do_peao">>)
  BY <1>1, AceitaDe
<1>3. AceitaDoCliente(<<"confirmar_posicao_do_peao">>)
  BY <1>2, ComandoAceito
<1>4. QED
  BY <1>3, ValeUma

LEMMA ValePermanecer ==
  ASSUME Servido, ~turno.confirmada, tab.recebidas = <<>>,
         turno.atravessou => TravessiaEmMonstro,
         ~turno.atravessou /\ espelho.movimentou => NoPeao = turno.inicio
  PROVE  Vale(ComSelecaoAntes(<<"permanecer">>))
<1> DEFINE a == <<"permanecer">>
           e == <<"selecionar_peao">>
<1>1. DeixadaAoServidor(a) \/ AceitaDoCliente(a)
  <2>1. /\ Calmo /\ Tipos /\ NaVez /\ ~Comecando /\ Ativo = Eu /\ resultado = Nada /\ turno.ativo = Eu
        /\ ~jogadores[Eu].primeiroTurno /\ NoPeao = tab.peoes[Eu] /\ NoPeao # Nada
    BY ServidoDiz DEF Servido
  <2>2. CASE NoPeao \in graca \/ (~espelho.movimentou /\ NoPeao # turno.inicio)
    BY <2>1, <2>2 DEF DeixadaAoServidor, NaPeca
  <2>3. CASE NoPeao \notin graca /\ (espelho.movimentou \/ NoPeao = turno.inicio)
    <3>1. NoPeao = turno.inicio \/ TravessiaEmMonstro
      BY <2>3
    <3>2. PodePermanecer(ComSelecao(tab, Eu), Eu)
      BY <2>1, ComSelecaoDe DEF PodePermanecer
    <3>3. PodePermanecerNaPeca(Eu)
      BY <2>1, <2>3, <3>1, <3>2 DEF PodePermanecerNaPeca, SemPassoDefinitivo, DaVez, NaPeca
    <3>4. Aceita(Eu, a)
      BY <3>3, AceitaDe
    <3>5. QED
      BY <3>4, ComandoAceito
  <2>4. QED
    BY <2>2, <2>3
<1>2. AceitaDoCliente(e)
  BY PeaoSelecionavel
<1>3. ComSelecaoAntes(a) \in {<< a >>, << e, a >>}
  BY DEF ComSelecaoAntes
<1> HIDE DEF a, e
<1>4. Vale(<< a >>)
  BY <1>1, ValeUma
<1>5. Vale(<< e, a >>)
  <2>1. Len(<< e, a >>) = 2 /\ << e, a >>[2] = a /\ << e, a >>[1] = e
    OBVIOUS
  <2>2. QED
    BY <1>1, <1>2, <2>1 DEF Vale, Aceitavel
<1>6. QED
  BY <1>3, <1>4, <1>5 DEF a

LEMMA ValeBotao ==
  ASSUME Servido, NEW s \in BotaoDoTurno
  PROVE  Vale(s)
<1>1. /\ espelho.recebidas = tab.recebidas /\ espelho.rodada = turno.rodada
      /\ espelho.inicio = turno.inicio /\ espelho.confirmada = turno.confirmada
      /\ espelho.atravessou = turno.atravessou /\ espelho.travessia = turno.travessia
      /\ espelho.posicionadas = tab.posicionadas /\ SobMeuPeao = NoPeao
  BY PaginaDiz
<1>2. turno.rodada # 1 /\ Nada \notin {"encerrar", "confirmar", "permanecer"}
  BY ServidoDiz, ClienteAssumption
<1>3. CASE FaseDoTurno = "encerrar"
  <2>1. s = << <<"encerrar_turno">> >>
    BY <1>3 DEF BotaoDoTurno
  <2>2. turno.confirmada
    BY <1>1, <1>2, <1>3 DEF FaseDoTurno
  <2>3. QED
    BY <2>1, <2>2, ValeEncerrar
<1>4. CASE FaseDoTurno = "confirmar"
  <2>1. s = << <<"confirmar_posicao_do_peao">> >>
    BY <1>4 DEF BotaoDoTurno
  <2>2. /\ ~turno.confirmada /\ tab.recebidas = <<>>
        /\ turno.atravessou => NoPeao = turno.travessia
    BY <1>1, <1>2, <1>4 DEF FaseDoTurno
  <2>3. QED
    BY <2>1, <2>2, ValeConfirmar
<1>5. CASE FaseDoTurno = "permanecer"
  <2>1. s = ComSelecaoAntes(<<"permanecer">>)
    BY <1>5 DEF BotaoDoTurno
  <2>2. /\ ~turno.confirmada /\ tab.recebidas = <<>>
        /\ turno.atravessou => turno.travessia \in DOMAIN tab.posicionadas /\ EhMonstro(turno.travessia)
        /\ ~turno.atravessou /\ espelho.movimentou => NoPeao = turno.inicio
    BY <1>1, <1>2, <1>5 DEF FaseDoTurno
  <2>3. turno.atravessou => TravessiaEmMonstro
    BY <2>2 DEF TravessiaEmMonstro, Mesa
  <2>4. QED
    BY <2>1, <2>2, <2>3, ValePermanecer
<1>6. FaseDoTurno \in {"encerrar", "confirmar", "permanecer"}
  BY DEF BotaoDoTurno
<1>7. QED
  BY <1>3, <1>4, <1>5, <1>6

LEMMA OfertaVale ==
  ASSUME Servido, NEW s \in Ofertas
  PROVE  Vale(s)
<1>1. CASE s \in CliquesEmCelula
  <2>1. CASE espelho.recebidas # <<>>
    BY <1>1, <2>1, ValeVaga, ValeEncaixe DEF CliquesEmCelula
  <2>2. CASE espelho.recebidas = <<>> /\ espelho.peao # Nada
    <3>1. espelho.peao = Eu
      BY <2>2, PaginaDiz, ServidoDiz
    <3>2. CliquesNaInicial = {}
      <4>1. ~NaMesa(Eu)
        BY PaginaDiz, ServidoDiz
      <4>2. QED
        BY <3>1, <4>1 DEF CliquesNaInicial
    <3>3. QED
      BY <1>1, <2>2, <3>1, <3>2, ValeMovimento, ValeTravessia DEF CliquesEmCelula
  <2>3. CASE espelho.recebidas = <<>> /\ espelho.peao = Nada
    BY <1>1, <2>3, ValeMesa DEF CliquesEmCelula
  <2>4. QED
    BY <2>1, <2>2, <2>3
<1>2. CliquesNaPecaDaMesa = {}
  BY PaginaDiz DEF CliquesNaPecaDaMesa
<1>3. QED
  BY <1>1, <1>2, ValePeao, ValeTecla, ValeBotao DEF Ofertas

LEMMA ServidaBasta ==
  ASSUME Servida
  PROVE  OfertaAceita
<1>1. SUFFICES ASSUME Parado, ElencoCompleto, ~jogadores[Eu].primeiroTurno, NEW s \in Ofertas
               PROVE  Vale(s)
  BY DEF OfertaAceita, Vale
<1>2. /\ resultado = Nada /\ conectado /\ turno.ativo = Eu
  BY <1>1 DEF Parado
<1>3. Mesas /\ Lembrada /\ Assentada
  BY <1>1, <1>2 DEF Servida, Retratada
<1>4. TurnosDosBots
  BY <1>3, MesasTipos
<1>5. Servido
  BY <1>1, <1>2, <1>3, <1>4 DEF Servido, Calmo, Lembrada, Ativo, Comecando
<1>6. QED
  BY <1>5, OfertaVale

(***************************************************************************)
(* What the page offers to a click, a key or the button of the turn, the   *)
(* match accepts (interacao.ts, interacaoPeoes.ts, PartidaPage.tsx against *)
(* partida.ts, peoes.ts and tabuleiro.ts), after any sequence of lots,     *)
(* reloads and reconnections; but for the offers DeixadaAoServidor names.  *)
(***************************************************************************)
THEOREM OfertaSempreAceita == SpecDaMesa => []OfertaAceita
<1>1. InitDaMesa => Servida
  BY ServidaNoInicio
<1>2. Servida /\ [NextDaMesa]_varsDaMesa => Servida'
  BY ServidaSegue
<1>3. Servida => OfertaAceita
  BY ServidaBasta
<1>4. QED
  BY <1>1, <1>2, <1>3, PTL DEF SpecDaMesa
=============================================================================
