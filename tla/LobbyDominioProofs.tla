------------------------- MODULE LobbyDominioProofs -------------------------
(***************************************************************************)
(* What each command of the lobby domain preserves of one Sala, for any    *)
(* Players and limits.  LobbyEngineProofs composes these facts over all    *)
(* the Salas.                                                              *)
(***************************************************************************)
EXTENDS LobbyDominio, FiniteSetTheorems, WellFoundedInduction, TLAPS

(* The integrity of one Sala: the invariant every command preserves.       *)
LimiteDaSala(sala) ==
  /\ IsFiniteSet(Ativos(sala))
  /\ Cardinality(Ativos(sala)) <= LimiteDeMembros
MaisAntigo(o, links) == \A m \in links : o <= m.ordem
AnfitriaoDaSala(sala) ==
  /\ sala.estado \in Viva => TemAnfitriao(sala)
  /\ sala.estado \notin Viva => Ativos(sala) = {} /\ sala.anfitriao = SemAnfitriao
  /\ MaisAntigo(sala.anfitriao, Ativos(sala))
OrdensDaSala(sala) ==
  \A m, n \in sala.membros :
    /\ m.ordem < sala.proxima
    /\ m.ordem = n.ordem => m = n
VinculosDaSala(sala) ==
  /\ \A m, n \in Ativos(sala) : m.jogador = n.jogador => m = n
  /\ sala.bloqueados \cap JogadoresAtivos(sala) = {}

SalaIntegra(sala) ==
  /\ sala \in Sala
  /\ LimiteDaSala(sala)
  /\ AnfitriaoDaSala(sala)
  /\ OrdensDaSala(sala)
  /\ VinculosDaSala(sala)

-----------------------------------------------------------------------------
(* Succession.                                                             *)

(* A non-empty set of orders of entry has a first one.                     *)
LEMMA MenorNatural ==
  ASSUME NEW T \in SUBSET Nat, T # {}
  PROVE  \E x \in T : \A y \in T : x <= y
<1> DEFINE Menor == {ss \in Nat \X Nat : ss[1] < ss[2]}
<1>1. IsWellFoundedOn(Menor, Nat)
  BY NatLessThanWellFounded DEF OpToRel
<1>2. PICK x \in T : \A y \in T : ~ (<<y, x>> \in Menor)
  BY <1>1, WFMin, Zenon
<1>3. \A y \in T : ~ (y < x)
  BY <1>2
<1>4. QED
  BY <1>3

(* PrimeiraOrdem picks the order of the first of the links.                *)
LEMMA PrimeiraOrdemCorreta ==
  ASSUME NEW A \in SUBSET Membro, A # {}
  PROVE  \E m \in A : /\ PrimeiraOrdem(A) = m.ordem
                      /\ \A n \in A : m.ordem <= n.ordem
<1> DEFINE O == {m.ordem : m \in A}
<1>1. O \in SUBSET Nat /\ O # {}
  BY DEF Membro
<1>2. PICK o \in O : \A p \in O : o <= p
  BY <1>1, MenorNatural
<1>3. \A m \in A : o <= m.ordem
  BY <1>2
<1>4. PrimeiraOrdem(A) \in O /\ \A m \in A : PrimeiraOrdem(A) <= m.ordem
  BY <1>2, <1>3 DEF PrimeiraOrdem
<1>5. QED
  BY <1>4

(* sucederAnfitriao always finds a link that stays, and no other one that  *)
(* stays comes between it and the one that left.                           *)
LEMMA SucessorCorreto ==
  ASSUME NEW A \in SUBSET Membro, A # {}, NEW o \in Nat, \A m \in A : m.ordem # o
  PROVE  \E m \in A : /\ Sucessor(A, o) = m.ordem
                      /\ \A n \in A : ~ EntreNoCiclo(o, n.ordem, m.ordem)
<1> DEFINE depois == {m \in A : m.ordem > o}
<1>1. CASE depois # {}
  <2>1. PICK m \in depois : /\ PrimeiraOrdem(depois) = m.ordem
                            /\ \A n \in depois : m.ordem <= n.ordem
    BY <1>1, PrimeiraOrdemCorreta
  <2>2. Sucessor(A, o) = m.ordem
    BY <1>1, <2>1 DEF Sucessor
  <2>3. \A n \in A : ~ EntreNoCiclo(o, n.ordem, m.ordem)
    BY <2>1 DEF EntreNoCiclo, Membro
  <2>4. QED
    BY <2>2, <2>3
<1>2. CASE depois = {}
  <2>1. PICK m \in A : /\ PrimeiraOrdem(A) = m.ordem
                       /\ \A n \in A : m.ordem <= n.ordem
    BY PrimeiraOrdemCorreta
  <2>2. Sucessor(A, o) = m.ordem
    BY <1>2, <2>1 DEF Sucessor
  <2>3. \A n \in A : n.ordem \in Nat /\ n.ordem < o
    BY <1>2 DEF Membro
  <2>4. \A n \in A : ~ EntreNoCiclo(o, n.ordem, m.ordem)
    BY <2>1, <2>3 DEF EntreNoCiclo
  <2>5. QED
    BY <2>2, <2>4
<1>3. QED
  BY <1>1, <1>2

(* After the links saidas leave, the Anfitrião is null exactly when nobody *)
(* stays and otherwise is one of those that stay, the one of the longest   *)
(* standing if the old one was.                                            *)
LEMMA AnfitriaoAposCorreto ==
  ASSUME NEW sala \in Sala, OrdensDaSala(sala), TemAnfitriao(sala),
         MaisAntigo(sala.anfitriao, Ativos(sala)),
         NEW saidas \in SUBSET Ativos(sala)
  PROVE  /\ Ativos(sala) \ saidas = {} => AnfitriaoApos(sala, saidas) = SemAnfitriao
         /\ Ativos(sala) \ saidas # {} =>
              \E m \in Ativos(sala) \ saidas : AnfitriaoApos(sala, saidas) = m.ordem
         /\ MaisAntigo(AnfitriaoApos(sala, saidas), Ativos(sala) \ saidas)
<1> DEFINE restantes == Ativos(sala) \ saidas
           ordens == {m.ordem : m \in saidas}
<1>1. restantes \in SUBSET Membro /\ sala.anfitriao \in Nat
  BY DEF Sala, Ativos
<1>2. CASE restantes = {}
  BY <1>2 DEF AnfitriaoApos, MaisAntigo
<1>3. CASE restantes # {} /\ sala.anfitriao \in ordens
  <2>1. \A m \in restantes : m.ordem # sala.anfitriao
    BY <1>3 DEF OrdensDaSala, Ativos
  <2>2. \E m \in restantes : Sucessor(restantes, sala.anfitriao) = m.ordem
    BY <1>1, <1>3, <2>1, SucessorCorreto
  <2>3. AnfitriaoApos(sala, saidas) = Sucessor(restantes, sala.anfitriao)
    BY <1>3 DEF AnfitriaoApos
  <2>4. MaisAntigo(Sucessor(restantes, sala.anfitriao), restantes)
    <3>1. \A m \in restantes : m.ordem > sala.anfitriao
      BY <1>1, <2>1 DEF MaisAntigo, Membro
    <3>2. Sucessor(restantes, sala.anfitriao) = PrimeiraOrdem(restantes)
      <4>1. {m \in restantes : m.ordem > sala.anfitriao} = restantes
        BY <3>1
      <4>2. QED
        BY <4>1 DEF Sucessor
    <3>3. QED
      BY <1>1, <1>3, <3>2, PrimeiraOrdemCorreta DEF MaisAntigo
  <2>5. QED
    BY <1>3, <2>2, <2>3, <2>4
<1>4. CASE restantes # {} /\ sala.anfitriao \notin ordens
  <2>1. AnfitriaoApos(sala, saidas) = sala.anfitriao
    BY <1>4 DEF AnfitriaoApos
  <2>2. \E m \in restantes : sala.anfitriao = m.ordem
    BY <1>4 DEF TemAnfitriao, EhAnfitriao
  <2>3. QED
    BY <1>4, <2>1, <2>2 DEF MaisAntigo
<1>5. QED
  BY <1>2, <1>3, <1>4

-----------------------------------------------------------------------------
(* Links.                                                                  *)

(* Ending links keeps every link, its order and its Player.                *)
LEMMA EncerrarCorreto ==
  ASSUME NEW membros \in SUBSET Membro, NEW alvos \in SUBSET membros,
         NEW motivo \in Motivos
  PROVE  /\ Encerrar(membros, alvos, motivo) \in SUBSET Membro
         /\ {m \in Encerrar(membros, alvos, motivo) : m.estado = "ativo"}
              = {m \in membros : m.estado = "ativo"} \ alvos
         /\ \A n \in Encerrar(membros, alvos, motivo) :
              \E m \in membros :
                /\ n = IF m \in alvos THEN EncerrarVinculo(m, motivo) ELSE m
                /\ m.ordem = n.ordem /\ m.jogador = n.jogador
<1>1. \A m \in membros :
        /\ EncerrarVinculo(m, motivo) \in Membro
        /\ EncerrarVinculo(m, motivo).estado = "encerrado"
        /\ EncerrarVinculo(m, motivo).ordem = m.ordem
        /\ EncerrarVinculo(m, motivo).jogador = m.jogador
  BY DEF EncerrarVinculo, Membro, Presencas
<1>2. QED
  BY <1>1 DEF Encerrar

(* An update of each link that keeps orders distinct keeps links distinct. *)
LEMMA OrdensPreservadas ==
  ASSUME NEW sala \in Sala, OrdensDaSala(sala), NEW nova, nova.proxima = sala.proxima,
         NEW alvos \in SUBSET sala.membros, NEW motivo \in Motivos,
         nova.membros = Encerrar(sala.membros, alvos, motivo)
  PROVE  OrdensDaSala(nova)
<1>1. \A n \in nova.membros :
        \E m \in sala.membros :
          /\ n = IF m \in alvos THEN EncerrarVinculo(m, motivo) ELSE m
          /\ m.ordem = n.ordem
  BY EncerrarCorreto DEF Sala
<1>2. QED
  BY <1>1 DEF OrdensDaSala

-----------------------------------------------------------------------------
(* Commands.                                                               *)

(* Closing the links saidas, with a new Anfitrião or a terminal state:     *)
(* what exit, expiration, desistência and closing have in common.          *)
LEMMA SaidaIntegra ==
  ASSUME NEW sala, SalaIntegra(sala), NEW saidas \in SUBSET Ativos(sala),
         NEW motivo \in Motivos, NEW estado \in EstadosDaSala,
         NEW nova, nova \in Sala,
         nova.membros = Encerrar(sala.membros, saidas, motivo),
         nova.proxima = sala.proxima, nova.bloqueados = sala.bloqueados,
         AnfitriaoDaSala(nova)
  PROVE  /\ SalaIntegra(nova)
         /\ Ativos(nova) = Ativos(sala) \ saidas
<1>1. Ativos(nova) = Ativos(sala) \ saidas
  BY EncerrarCorreto DEF SalaIntegra, Sala, Ativos
<1>2. LimiteDaSala(nova)
  <2>1. Ativos(nova) \in SUBSET Ativos(sala)
    BY <1>1
  <2>2. /\ IsFiniteSet(Ativos(nova))
        /\ Cardinality(Ativos(nova)) <= Cardinality(Ativos(sala))
    BY <2>1, FS_Subset DEF SalaIntegra, LimiteDaSala
  <2>3. Cardinality(Ativos(nova)) \in Nat /\ Cardinality(Ativos(sala)) \in Nat
    BY <2>2, FS_CardinalityType DEF SalaIntegra, LimiteDaSala
  <2>4. QED
    BY <2>2, <2>3, LimitesAssumption DEF SalaIntegra, LimiteDaSala
<1>3. OrdensDaSala(nova)
  BY OrdensPreservadas DEF SalaIntegra, Sala, Ativos
<1>4. VinculosDaSala(nova)
  BY <1>1 DEF SalaIntegra, VinculosDaSala, JogadoresAtivos
<1>5. QED
  BY <1>1, <1>2, <1>3, <1>4 DEF SalaIntegra

(* ComSaida: exit and expiration of one active link of a living Sala.      *)
LEMMA ComSaidaIntegra ==
  ASSUME NEW sala, SalaIntegra(sala), NEW m \in Ativos(sala),
         NEW motivo \in Motivos, NEW final \in Terminal
  PROVE  /\ SalaIntegra(ComSaida(sala, m, motivo, final))
         /\ Ativos(ComSaida(sala, m, motivo, final)) = Ativos(sala) \ {m}
<1> DEFINE nova == ComSaida(sala, m, motivo, final)
           restantes == Ativos(sala) \ {m}
<1>1. /\ sala \in Sala /\ sala.estado \in Viva /\ TemAnfitriao(sala)
      /\ OrdensDaSala(sala) /\ MaisAntigo(sala.anfitriao, Ativos(sala))
  BY DEF SalaIntegra, AnfitriaoDaSala
<1>2. m \in sala.membros /\ sala.membros \in SUBSET Membro
  BY <1>1 DEF Ativos, Sala
<1>3. /\ restantes = {} => AnfitriaoApos(sala, {m}) = SemAnfitriao
      /\ restantes # {} => \E n \in restantes : AnfitriaoApos(sala, {m}) = n.ordem
      /\ MaisAntigo(AnfitriaoApos(sala, {m}), restantes)
  BY <1>1, AnfitriaoAposCorreto
<1>4. AnfitriaoApos(sala, {m}) \in Nat
  <2>1. \A n \in restantes : n.ordem \in Nat
    BY <1>2 DEF Ativos, Membro
  <2> HIDE DEF restantes
  <2>2. QED
    BY <1>3, <2>1 DEF SemAnfitriao
<1>5. Encerrar(sala.membros, {m}, motivo) \in SUBSET Membro
  BY <1>2, EncerrarCorreto
<1>6. /\ nova.membros = Encerrar(sala.membros, {m}, motivo)
      /\ nova.estado = IF restantes = {} THEN final ELSE sala.estado
      /\ nova.anfitriao = AnfitriaoApos(sala, {m})
      /\ nova.proxima = sala.proxima /\ nova.bloqueados = sala.bloqueados
  BY <1>1 DEF ComSaida, Sala
<1>7. nova \in Sala
  BY <1>1, <1>4, <1>5 DEF ComSaida, Sala, EstadosDaSala, Terminal
<1>8. Ativos(nova) = restantes
  BY <1>2, <1>6, EncerrarCorreto DEF Ativos
<1>9. AnfitriaoDaSala(nova)
  <2>1. MaisAntigo(nova.anfitriao, Ativos(nova))
    BY <1>3, <1>6, <1>8 DEF MaisAntigo
  <2>2. nova.estado \in Viva => TemAnfitriao(nova)
    BY <1>3, <1>6, <1>8 DEF TemAnfitriao, EhAnfitriao, Viva, Terminal
  <2>3. nova.estado \notin Viva => Ativos(nova) = {} /\ nova.anfitriao = SemAnfitriao
    BY <1>1, <1>3, <1>6, <1>8
  <2>4. QED
    BY <2>1, <2>2, <2>3 DEF AnfitriaoDaSala
<1>10. QED
  BY <1>1, <1>6, <1>7, <1>8, <1>9, SaidaIntegra DEF Sala

(* An update g of each link that keeps its order, its Player and whether   *)
(* it is active (presence, readiness, restart) keeps a Sala intact.        *)
LEMMA AtualizacaoIntegra ==
  ASSUME NEW sala, SalaIntegra(sala), NEW nova, nova \in Sala,
         NEW g \in [sala.membros -> Membro],
         \A m \in sala.membros : /\ g[m].ordem = m.ordem
                                 /\ g[m].jogador = m.jogador
                                 /\ g[m].estado = m.estado,
         nova.membros = {g[m] : m \in sala.membros},
         nova.proxima = sala.proxima, nova.anfitriao = sala.anfitriao,
         nova.bloqueados = sala.bloqueados,
         nova.estado \in Viva <=> sala.estado \in Viva
  PROVE  /\ SalaIntegra(nova)
         /\ JogadoresAtivos(nova) = JogadoresAtivos(sala)
<1> DEFINE h == [m \in Ativos(sala) |-> g[m]]
<1>1. Ativos(nova) = {g[m] : m \in Ativos(sala)}
  BY DEF Ativos
<1>2. LimiteDaSala(nova)
  <2>1. h \in Surjection(Ativos(sala), Ativos(nova))
    BY <1>1 DEF Surjection, Ativos
  <2>2. /\ IsFiniteSet(Ativos(nova))
        /\ Cardinality(Ativos(nova)) <= Cardinality(Ativos(sala))
    BY <2>1, FS_Surjection, Zenon DEF SalaIntegra, LimiteDaSala
  <2>3. Cardinality(Ativos(nova)) \in Nat /\ Cardinality(Ativos(sala)) \in Nat
    BY <2>2, FS_CardinalityType DEF SalaIntegra, LimiteDaSala
  <2>4. QED
    BY <2>2, <2>3, LimitesAssumption DEF SalaIntegra, LimiteDaSala
<1>3. AnfitriaoDaSala(nova)
  <2>1. TemAnfitriao(nova) <=> TemAnfitriao(sala)
    BY <1>1 DEF TemAnfitriao, EhAnfitriao, Ativos
  <2>2. Ativos(sala) = {} => Ativos(nova) = {}
    BY <1>1
  <2>3. MaisAntigo(nova.anfitriao, Ativos(nova))
    BY <1>1 DEF SalaIntegra, AnfitriaoDaSala, MaisAntigo, Ativos
  <2>4. QED
    BY <2>1, <2>2, <2>3 DEF SalaIntegra, AnfitriaoDaSala
<1>4. OrdensDaSala(nova)
  BY DEF SalaIntegra, OrdensDaSala
<1>5. JogadoresAtivos(nova) = JogadoresAtivos(sala)
  BY <1>1 DEF JogadoresAtivos, Ativos
<1>6. VinculosDaSala(nova)
  BY <1>1, <1>5 DEF SalaIntegra, VinculosDaSala, Ativos
<1>7. QED
  BY <1>2, <1>3, <1>4, <1>5, <1>6 DEF SalaIntegra

(* A Sala that was never created is intact.                                *)
LEMMA SalaInexistenteIntegra ==
  SalaIntegra(SalaInexistente) /\ JogadoresAtivos(SalaInexistente) = {}
<1> DEFINE sala == SalaInexistente
<1>1. /\ sala.estado = "inexistente" /\ sala.membros = {}
      /\ sala.anfitriao = SemAnfitriao /\ sala.bloqueados = {}
  BY DEF SalaInexistente
<1>2. sala \in Sala
  BY DEF SalaInexistente, Sala, EstadosDaSala, SemAnfitriao
<1> HIDE DEF sala
<1>3. Ativos(sala) = {} /\ JogadoresAtivos(sala) = {}
  BY <1>1 DEF Ativos, JogadoresAtivos
<1>4. IsFiniteSet({}) /\ Cardinality({}) = 0
  BY FS_EmptySet, Zenon
<1>5. LimiteDaSala(sala)
  BY <1>3, <1>4, LimitesAssumption DEF LimiteDaSala
<1>6. AnfitriaoDaSala(sala) /\ OrdensDaSala(sala) /\ VinculosDaSala(sala)
  BY <1>1, <1>3 DEF AnfitriaoDaSala, MaisAntigo, OrdensDaSala, VinculosDaSala, Viva
<1>7. QED
  BY <1>2, <1>3, <1>5, <1>6 DEF SalaIntegra, sala

(* criarSala returns an intact Sala, with its creator alone and Anfitrião. *)
LEMMA SalaCriadaIntegra ==
  ASSUME NEW j \in Jogadores
  PROVE  /\ SalaIntegra(SalaCriada(j))
         /\ JogadoresAtivos(SalaCriada(j)) = {j}
<1> DEFINE nova == SalaCriada(j)
           novo == MembroAtivo(j, 1)
<1>1. /\ nova.estado = "aberta" /\ nova.membros = {novo} /\ nova.proxima = 2
      /\ nova.anfitriao = 1 /\ nova.bloqueados = {}
  BY DEF SalaCriada
<1>2. novo \in Membro /\ novo.ordem = 1 /\ novo.jogador = j /\ novo.estado = "ativo"
  BY DEF MembroAtivo, Membro, Motivos, Presencas
<1>3. nova \in Sala
  BY <1>2 DEF SalaCriada, Sala, EstadosDaSala
<1> HIDE DEF nova, novo
<1>4. Ativos(nova) = {novo}
  BY <1>1, <1>2 DEF Ativos
<1>5. LimiteDaSala(nova)
  <2>1. IsFiniteSet({novo}) /\ Cardinality({novo}) = 1
    BY FS_Singleton, Zenon
  <2>2. QED
    BY <1>4, <2>1, LimitesAssumption DEF LimiteDaSala
<1>6. AnfitriaoDaSala(nova)
  BY <1>1, <1>2, <1>4 DEF AnfitriaoDaSala, TemAnfitriao, EhAnfitriao, MaisAntigo, Viva
<1>7. OrdensDaSala(nova)
  BY <1>1, <1>2 DEF OrdensDaSala
<1>8. JogadoresAtivos(nova) = {j}
  BY <1>2, <1>4 DEF JogadoresAtivos
<1>9. VinculosDaSala(nova)
  BY <1>1, <1>4 DEF VinculosDaSala
<1>10. QED
  BY <1>3, <1>5, <1>6, <1>7, <1>8, <1>9 DEF SalaIntegra, nova

(* entrarNaSala: a Player that may enter takes the next order, which no    *)
(* link has, and a place that was free.                                    *)
LEMMA ComEntradaIntegra ==
  ASSUME NEW sala, SalaIntegra(sala), NEW j \in Jogadores, PodeEntrar(sala, j),
         j \notin JogadoresAtivos(sala)
  PROVE  /\ SalaIntegra(ComEntrada(sala, j))
         /\ JogadoresAtivos(ComEntrada(sala, j)) = JogadoresAtivos(sala) \cup {j}
<1> DEFINE nova == ComEntrada(sala, j)
           novo == MembroAtivo(j, sala.proxima)
<1>1. sala \in Sala /\ sala.estado = "aberta"
  BY DEF SalaIntegra, PodeEntrar, AbertaConsistente
<1>2. PICK a \in Ativos(sala) : EhAnfitriao(sala, a)
  BY <1>1 DEF SalaIntegra, AnfitriaoDaSala, TemAnfitriao, Viva
<1>3. sala.proxima \in Nat \ {0}
  BY <1>1, <1>2 DEF SalaIntegra, OrdensDaSala, Ativos, Sala, Membro
<1>4. novo \in Membro
  BY <1>3 DEF MembroAtivo, Membro, Motivos, Presencas
<1>5. /\ nova.membros = sala.membros \cup {novo}
      /\ nova.proxima = sala.proxima + 1
      /\ nova.estado = sala.estado
      /\ nova.anfitriao = sala.anfitriao
      /\ nova.bloqueados = sala.bloqueados
  BY <1>1 DEF ComEntrada, Sala
<1>6. nova \in Sala
  <2>1. sala.membros \cup {novo} \in SUBSET Membro /\ sala.proxima + 1 \in Nat
    BY <1>1, <1>4 DEF Sala
  <2>2. QED
    BY <1>1, <2>1 DEF ComEntrada, Sala
<1>7. Ativos(nova) = Ativos(sala) \cup {novo} /\ novo \notin Ativos(sala)
  BY <1>5 DEF Ativos, MembroAtivo, JogadoresAtivos
<1>8. LimiteDaSala(nova)
  <2>1. /\ IsFiniteSet(Ativos(nova))
        /\ Cardinality(Ativos(nova)) = Cardinality(Ativos(sala)) + 1
    BY <1>7, FS_AddElement DEF SalaIntegra, LimiteDaSala
  <2>2. Cardinality(Ativos(sala)) \in Nat
    BY FS_CardinalityType DEF SalaIntegra, LimiteDaSala
  <2>3. QED
    BY <2>1, <2>2, LimitesAssumption DEF LimiteDaSala, PodeEntrar
<1>9. AnfitriaoDaSala(nova)
  <2>1. TemAnfitriao(nova) /\ nova.estado \in Viva
    BY <1>1, <1>2, <1>5, <1>7 DEF TemAnfitriao, EhAnfitriao, Viva
  <2>2. /\ novo.ordem = sala.proxima /\ sala.proxima \in Nat
        /\ sala.anfitriao \in Nat /\ sala.anfitriao < sala.proxima
    BY <1>1, <1>2 DEF MembroAtivo, SalaIntegra, OrdensDaSala, EhAnfitriao, Ativos, Sala
  <2>3. MaisAntigo(nova.anfitriao, Ativos(nova))
    BY <1>5, <1>7, <2>2 DEF SalaIntegra, AnfitriaoDaSala, MaisAntigo
  <2>4. QED
    BY <2>1, <2>3 DEF AnfitriaoDaSala
<1>10. OrdensDaSala(nova)
  <2>1. novo.ordem = sala.proxima
    BY DEF MembroAtivo
  <2>2. \A m \in sala.membros : m.ordem \in Nat /\ m.ordem < sala.proxima
    BY <1>1 DEF SalaIntegra, OrdensDaSala, Sala, Membro
  <2>3. QED
    BY <1>3, <1>5, <2>1, <2>2 DEF SalaIntegra, OrdensDaSala
<1>11. JogadoresAtivos(nova) = JogadoresAtivos(sala) \cup {j}
  BY <1>7 DEF JogadoresAtivos, MembroAtivo
<1>12. VinculosDaSala(nova)
  <2>1. novo.jogador = j
    BY DEF MembroAtivo
  <2>2. \A m \in Ativos(sala) : m.jogador # j
    BY DEF JogadoresAtivos
  <2>3. QED
    BY <1>5, <1>7, <1>11, <2>1, <2>2 DEF SalaIntegra, VinculosDaSala, PodeEntrar
<1>13. QED
  BY <1>6, <1>8, <1>9, <1>10, <1>11, <1>12 DEF SalaIntegra

(* Expulsion and removal of a bot: a link other than the Anfitrião's ends, *)
(* and the Player may be blocked.                                          *)
LEMMA ExpulsaoIntegra ==
  ASSUME NEW sala, SalaIntegra(sala), TemAnfitriao(sala),
         NEW alvo \in Ativos(sala), ~ EhAnfitriao(sala, alvo)
  PROVE  /\ SalaIntegra(ComExpulsao(sala, alvo))
         /\ Ativos(ComExpulsao(sala, alvo)) = Ativos(sala) \ {alvo}
         /\ SalaIntegra(ComBotRemovido(sala, alvo))
         /\ Ativos(ComBotRemovido(sala, alvo)) = Ativos(sala) \ {alvo}
<1> DEFINE bot == ComBotRemovido(sala, alvo)
           nova == ComExpulsao(sala, alvo)
           membros == Encerrar(sala.membros, {alvo}, "expulsao")
<1>1. /\ sala \in Sala /\ alvo \in sala.membros /\ alvo \in Membro
      /\ "expulsao" \in Motivos
  BY DEF SalaIntegra, Ativos, Sala, Motivos
<1>2. membros \in SUBSET Membro
  BY <1>1, EncerrarCorreto DEF Sala
<1>3. /\ bot.membros = membros /\ bot.estado = sala.estado
      /\ bot.proxima = sala.proxima /\ bot.anfitriao = sala.anfitriao
      /\ bot.bloqueados = sala.bloqueados
  BY <1>1 DEF ComBotRemovido, Sala
<1>4. bot \in Sala
  BY <1>1, <1>2 DEF ComBotRemovido, Sala
<1>5. Ativos(bot) = Ativos(sala) \ {alvo}
  BY <1>1, <1>3, EncerrarCorreto DEF Ativos, Sala
<1>6. sala.estado \in Viva
  BY DEF SalaIntegra, AnfitriaoDaSala
<1>7. AnfitriaoDaSala(bot)
  BY <1>3, <1>5, <1>6
  DEF SalaIntegra, AnfitriaoDaSala, TemAnfitriao, EhAnfitriao, MaisAntigo
<1>8. SalaIntegra(bot)
  BY <1>1, <1>3, <1>4, <1>7, SaidaIntegra DEF Sala
<1>9. nova = [bot EXCEPT !.bloqueados = @ \cup {alvo.jogador}]
  BY <1>1 DEF ComExpulsao, ComBotRemovido, Sala
<1>10. /\ nova \in Sala /\ nova.membros = bot.membros /\ nova.estado = bot.estado
       /\ nova.proxima = bot.proxima /\ nova.anfitriao = bot.anfitriao
       /\ nova.bloqueados = sala.bloqueados \cup {alvo.jogador}
  BY <1>1, <1>3, <1>4, <1>9 DEF Sala, Membro
<1>11. Ativos(nova) = Ativos(bot)
  BY <1>10 DEF Ativos
<1>12. LimiteDaSala(nova) /\ AnfitriaoDaSala(nova) /\ OrdensDaSala(nova)
  BY <1>8, <1>10, <1>11
  DEF SalaIntegra, LimiteDaSala, AnfitriaoDaSala, TemAnfitriao, EhAnfitriao, OrdensDaSala
<1>13. alvo.jogador \notin JogadoresAtivos(nova)
  BY <1>5, <1>11 DEF SalaIntegra, VinculosDaSala, JogadoresAtivos
<1>14. VinculosDaSala(nova)
  BY <1>3, <1>8, <1>10, <1>11, <1>13 DEF SalaIntegra, VinculosDaSala, JogadoresAtivos
<1>15. QED
  BY <1>5, <1>8, <1>10, <1>11, <1>12, <1>14 DEF SalaIntegra

(* Pardoning a Player, confirming consistency and accepting an offer touch *)
(* no link.                                                                *)
LEMMA MesmosMembrosIntegra ==
  ASSUME NEW sala, SalaIntegra(sala), NEW nova, nova \in Sala,
         nova.membros = sala.membros, nova.proxima = sala.proxima,
         nova.anfitriao = sala.anfitriao,
         nova.bloqueados \subseteq sala.bloqueados,
         nova.estado \in Viva <=> sala.estado \in Viva
  PROVE  /\ SalaIntegra(nova)
         /\ JogadoresAtivos(nova) = JogadoresAtivos(sala)
<1>1. Ativos(nova) = Ativos(sala) /\ JogadoresAtivos(nova) = JogadoresAtivos(sala)
  BY DEF Ativos, JogadoresAtivos
<1>2. AnfitriaoDaSala(nova)
  BY <1>1 DEF SalaIntegra, AnfitriaoDaSala, TemAnfitriao, EhAnfitriao
<1>3. QED
  BY <1>1, <1>2 DEF SalaIntegra, LimiteDaSala, OrdensDaSala, VinculosDaSala

(* Disconnecting and reconnecting an active link touch only its presence.  *)
LEMMA ComPresencaIntegra ==
  ASSUME NEW sala, SalaIntegra(sala), NEW m \in Ativos(sala), NEW p \in Presencas
  PROVE  /\ SalaIntegra(ComPresenca(sala, m, p))
         /\ JogadoresAtivos(ComPresenca(sala, m, p)) = JogadoresAtivos(sala)
<1> DEFINE nova == ComPresenca(sala, m, p)
           g == [n \in sala.membros |-> IF n = m THEN [n EXCEPT !.presenca = p] ELSE n]
<1>1. sala \in Sala /\ m \in sala.membros /\ sala.membros \in SUBSET Membro
  BY DEF SalaIntegra, Ativos, Sala
<1>2. /\ g \in [sala.membros -> Membro]
      /\ \A n \in sala.membros : /\ g[n].ordem = n.ordem /\ g[n].jogador = n.jogador
                                 /\ g[n].estado = n.estado
  BY <1>1 DEF Membro
<1>3. (sala.membros \ {m}) \cup {[m EXCEPT !.presenca = p]} = {g[n] : n \in sala.membros}
  BY <1>1
<1>4. /\ nova \in Sala /\ nova.membros = {g[n] : n \in sala.membros}
      /\ nova.proxima = sala.proxima /\ nova.anfitriao = sala.anfitriao
      /\ nova.bloqueados = sala.bloqueados /\ nova.estado = sala.estado
  BY <1>1, <1>2, <1>3 DEF ComPresenca, Sala
<1> HIDE DEF nova, g
<1>5. QED
  BY <1>2, <1>4, AtualizacaoIntegra DEF nova

(* Toggling readiness touches nothing else of an active link.              *)
LEMMA ComProntidaoAlternadaIntegra ==
  ASSUME NEW sala, SalaIntegra(sala), NEW m \in Ativos(sala)
  PROVE  /\ SalaIntegra(ComProntidaoAlternada(sala, m))
         /\ JogadoresAtivos(ComProntidaoAlternada(sala, m)) = JogadoresAtivos(sala)
<1> DEFINE nova == ComProntidaoAlternada(sala, m)
           g == [n \in sala.membros |-> IF n = m THEN [n EXCEPT !.pronto = ~ @] ELSE n]
<1>1. sala \in Sala /\ m \in sala.membros /\ sala.membros \in SUBSET Membro
  BY DEF SalaIntegra, Ativos, Sala
<1>2. /\ g \in [sala.membros -> Membro]
      /\ \A n \in sala.membros : /\ g[n].ordem = n.ordem /\ g[n].jogador = n.jogador
                                 /\ g[n].estado = n.estado
  BY <1>1 DEF Membro
<1>3. (sala.membros \ {m}) \cup {[m EXCEPT !.pronto = ~ @]} = {g[n] : n \in sala.membros}
  BY <1>1
<1>4. /\ nova \in Sala /\ nova.membros = {g[n] : n \in sala.membros}
      /\ nova.proxima = sala.proxima /\ nova.anfitriao = sala.anfitriao
      /\ nova.bloqueados = sala.bloqueados /\ nova.estado = sala.estado
  BY <1>1, <1>2, <1>3 DEF ComProntidaoAlternada, Sala
<1> HIDE DEF nova, g
<1>5. QED
  BY <1>2, <1>4, AtualizacaoIntegra DEF nova

(* Restarting or clearing readiness changes no link's identity.            *)
LEMMA VinculoReiniciado ==
  ASSUME NEW m \in Membro
  PROVE  /\ Reiniciado(m) \in Membro /\ Reiniciado(m).ordem = m.ordem
         /\ Reiniciado(m).jogador = m.jogador /\ Reiniciado(m).estado = m.estado
         /\ NaoPronto(m) \in Membro /\ NaoPronto(m).ordem = m.ordem
         /\ NaoPronto(m).jogador = m.jogador /\ NaoPronto(m).estado = m.estado
<1>1. CASE m.estado = "ativo"
  BY <1>1 DEF Reiniciado, NaoPronto, Membro, Presencas
<1>2. CASE m.estado # "ativo"
  BY <1>2 DEF Reiniciado, NaoPronto
<1>3. QED
  BY <1>1, <1>2

(* registrarReinicioDaSala keeps every link and makes the Sala wait for its*)
(* consistency to be confirmed.                                            *)
LEMMA ComReinicioIntegra ==
  ASSUME NEW sala, SalaIntegra(sala)
  PROVE  /\ SalaIntegra(ComReinicio(sala))
         /\ JogadoresAtivos(ComReinicio(sala)) = JogadoresAtivos(sala)
<1> DEFINE nova == ComReinicio(sala)
           g == [m \in sala.membros |-> Reiniciado(m)]
<1>1. sala \in Sala /\ sala.membros \in SUBSET Membro
  BY DEF SalaIntegra, Sala
<1>2. /\ g \in [sala.membros -> Membro]
      /\ \A m \in sala.membros : /\ g[m].ordem = m.ordem /\ g[m].jogador = m.jogador
                                 /\ g[m].estado = m.estado
  BY <1>1, VinculoReiniciado
<1>3. {Reiniciado(m) : m \in sala.membros} = {g[m] : m \in sala.membros}
  OBVIOUS
<1>4. {Reiniciado(m) : m \in sala.membros} \in SUBSET Membro
  BY <1>1, VinculoReiniciado
<1>5. /\ nova \in Sala /\ nova.membros = {Reiniciado(m) : m \in sala.membros}
      /\ nova.proxima = sala.proxima /\ nova.anfitriao = sala.anfitriao
      /\ nova.bloqueados = sala.bloqueados /\ nova.estado = sala.estado
  BY <1>1, <1>4 DEF ComReinicio, Sala
<1> HIDE DEF nova, g
<1>6. QED
  BY <1>2, <1>3, <1>5, AtualizacaoIntegra DEF nova

(* encerrarSala ends every link, and nobody is Anfitrião of the Sala.      *)
LEMMA SalaEncerradaIntegra ==
  ASSUME NEW sala, SalaIntegra(sala)
  PROVE  /\ SalaIntegra(SalaEncerrada(sala))
         /\ Ativos(SalaEncerrada(sala)) = {}
<1> DEFINE nova == SalaEncerrada(sala)
           membros == Encerrar(sala.membros, Ativos(sala), "encerramento")
<1>1. /\ sala \in Sala /\ sala.membros \in SUBSET Membro
      /\ Ativos(sala) \in SUBSET sala.membros /\ "encerramento" \in Motivos
  BY DEF SalaIntegra, Sala, Ativos, Motivos
<1>2. membros \in SUBSET Membro
  BY <1>1, EncerrarCorreto
<1>3. /\ nova \in Sala /\ nova.membros = membros /\ nova.estado = "encerrada"
      /\ nova.proxima = sala.proxima /\ nova.anfitriao = SemAnfitriao
      /\ nova.bloqueados = sala.bloqueados
  BY <1>1, <1>2 DEF SalaEncerrada, Sala, EstadosDaSala, SemAnfitriao
<1>4. Ativos(nova) = {}
  BY <1>1, <1>3, EncerrarCorreto DEF Ativos
<1>5. AnfitriaoDaSala(nova)
  BY <1>3, <1>4 DEF AnfitriaoDaSala, MaisAntigo, Viva
<1>6. QED
  BY <1>1, <1>3, <1>4, <1>5, SaidaIntegra DEF Sala

(* Reopening is the exit of the links saidas followed by the loss of       *)
(* readiness of those that stay.                                           *)
LEMMA SalaReabertaIntegra ==
  ASSUME NEW sala, SalaIntegra(sala), NEW saidas, PodeReabrir(sala, saidas)
  PROVE  /\ SalaIntegra(SalaReaberta(sala, saidas))
         /\ JogadoresAtivos(SalaReaberta(sala, saidas))
              = {m.jogador : m \in Ativos(sala) \ saidas}
         /\ \A n \in Ativos(SalaReaberta(sala, saidas)) :
              \E m \in Ativos(sala) : m.ordem = n.ordem
<1> DEFINE membros == Encerrar(sala.membros, saidas, "saida")
           meio == [sala EXCEPT !.membros = membros, !.estado = "aberta",
                                !.anfitriao = AnfitriaoApos(sala, saidas)]
           nova == SalaReaberta(sala, saidas)
           g == [m \in meio.membros |-> NaoPronto(m)]
<1>1. /\ sala \in Sala /\ sala.membros \in SUBSET Membro /\ "saida" \in Motivos
      /\ saidas \in SUBSET Ativos(sala) /\ saidas \in SUBSET sala.membros
      /\ sala.estado = "encaminhada"
  BY DEF SalaIntegra, Sala, Motivos, PodeReabrir, Ativos, EncaminhadaConsistente
<1>2. /\ TemAnfitriao(sala) /\ OrdensDaSala(sala)
      /\ MaisAntigo(sala.anfitriao, Ativos(sala))
  BY <1>1 DEF SalaIntegra, AnfitriaoDaSala, Viva
<1>3. Ativos(sala) \ saidas # {}
  BY <1>1, <1>2 DEF PodeReabrir, TemAnfitriao
<1>4. PICK h \in Ativos(sala) \ saidas :
        /\ AnfitriaoApos(sala, saidas) = h.ordem
        /\ MaisAntigo(AnfitriaoApos(sala, saidas), Ativos(sala) \ saidas)
  BY <1>1, <1>2, <1>3, AnfitriaoAposCorreto
<1>5. AnfitriaoApos(sala, saidas) \in Nat
  BY <1>1, <1>4 DEF Ativos, Membro
<1>6. membros \in SUBSET Membro
  BY <1>1, EncerrarCorreto
<1>7. /\ meio \in Sala /\ meio.membros = membros /\ meio.estado = "aberta"
      /\ meio.anfitriao = AnfitriaoApos(sala, saidas)
      /\ meio.proxima = sala.proxima /\ meio.bloqueados = sala.bloqueados
  BY <1>1, <1>5, <1>6 DEF Sala, EstadosDaSala
<1>8. Ativos(meio) = Ativos(sala) \ saidas
  BY <1>1, <1>7, EncerrarCorreto DEF Ativos
<1>9. AnfitriaoDaSala(meio)
  BY <1>4, <1>7, <1>8 DEF AnfitriaoDaSala, TemAnfitriao, EhAnfitriao, Viva
<1>10. SalaIntegra(meio)
  <2> HIDE DEF meio, membros
  <2>1. meio.membros = Encerrar(sala.membros, saidas, "saida")
    BY <1>7 DEF membros
  <2>2. QED
    BY <1>1, <1>7, <1>9, <2>1, SaidaIntegra DEF Sala
<1>11. /\ g \in [meio.membros -> Membro]
       /\ \A m \in meio.membros : /\ g[m].ordem = m.ordem /\ g[m].jogador = m.jogador
                                  /\ g[m].estado = m.estado
  BY <1>6, <1>7, VinculoReiniciado
<1>12. {NaoPronto(m) : m \in membros} \in SUBSET Membro
  BY <1>6, VinculoReiniciado
<1>13. /\ nova \in Sala /\ nova.membros = {NaoPronto(m) : m \in membros}
       /\ nova.proxima = sala.proxima /\ nova.anfitriao = AnfitriaoApos(sala, saidas)
       /\ nova.bloqueados = sala.bloqueados /\ nova.estado = "aberta"
  BY <1>1, <1>5, <1>12 DEF SalaReaberta, Sala, EstadosDaSala
<1>14. {NaoPronto(m) : m \in membros} = {g[m] : m \in meio.membros}
  BY <1>7
<1> HIDE DEF nova, meio, membros, g
<1>15. SalaIntegra(nova) /\ JogadoresAtivos(nova) = JogadoresAtivos(meio)
  <2>1. /\ nova.membros = {g[m] : m \in meio.membros}
        /\ nova.proxima = meio.proxima /\ nova.anfitriao = meio.anfitriao
        /\ nova.bloqueados = meio.bloqueados /\ nova.estado = meio.estado
    BY <1>7, <1>13, <1>14
  <2>2. QED
    BY <1>10, <1>11, <1>13, <2>1, AtualizacaoIntegra
<1>16. \A n \in Ativos(nova) : \E m \in Ativos(meio) : m.ordem = n.ordem
  BY <1>7, <1>11, <1>13, <1>14 DEF Ativos
<1>17. QED
  BY <1>8, <1>15, <1>16 DEF JogadoresAtivos, nova
=============================================================================
