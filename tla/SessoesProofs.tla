--------------------------- MODULE SessoesProofs ---------------------------
(***************************************************************************)
(* Theorems of Sessoes, for any tabs, browsers and bounds.                 *)
(*                                                                         *)
(* A sweep walks markers that rotations leave while it walks.  What it has *)
(* passed is a set of dead sessions whose markers stay inside it or lead   *)
(* to the session it is about to read; a dead session never lives again    *)
(* and its marker never changes, so the walk ends at a dead end only when  *)
(* nothing alive follows.  The set has one session for each hop, so a walk *)
(* that ends at the limit leaves more rotations behind than the limit.     *)
(*                                                                         *)
(* The cookies of a browser are up to date when no answer is on the way,   *)
(* because a session is brought by one answer only, to the one browser     *)
(* that can ask for its rotation.                                          *)
(***************************************************************************)
EXTENDS Sessoes, FiniteSetTheorems, TLAPS

Sess == {0} \cup Criadas
Fases == {"fora", "caida", "abrindo", "admitida", "aberta"}
Fins == {"nenhum", "sessao", "login", "entrar", "sair", "slide", "reconexao"}
Passos == {"nenhum", "login", "pedido", "refresh", "sonda", "repetido"}
Etapas == {"nada", "ida", "rotacao", "revogar", "mapa", "sessao", "volta"}
Poe(S) == {<<>>} \cup {<<s>> : s \in S}
Chamadas == [fim: Fins, passo: Passos, em: Etapas, sessao: Sess, status: Nat,
             poe: Poe(Sess), tentativa: Nat]

Vistas == [inicio: Sess, sessao: Sess, saltos: Nat]

Loja ==
  /\ proxima \in 1 .. MaxSessoes + 1
  /\ vivas \subseteq Criadas /\ orfas \subseteq Criadas /\ mapa \in Sess
  /\ marcador \in [Ids -> Nat]
  /\ \A s \in Ids : marcador[s] = 0 \/ marcador[s] \in s + 1 .. proxima - 1

Jarras ==
  /\ navegador \in [Abas -> Navegadores]
  /\ acesso \in [Navegadores -> Sess] /\ renovacao \in [Navegadores -> Sess]

Sockets ==
  /\ socket \in [Abas -> [fase: Fases, sessao: Sess]]
  /\ varredura \in [Abas -> Vistas]
  /\ \A a \in Abas : socket[a].fase \in {"admitida", "aberta"} => socket[a].sessao \in Criadas
  /\ \A a \in Abas : Varrendo(a) => varredura[a].inicio \in Criadas /\ varredura[a].sessao \in Criadas

Tipos ==
  /\ Loja /\ Jarras /\ Sockets
  /\ aba \in [Abas -> {"visitante", "carregando", "autenticada"}]
  /\ http \in [Abas -> Chamadas]
  /\ falhas \in 0 .. MaxFalhas

-----------------------------------------------------------------------------
(* The store.                                                              *)

LEMMA CriadasSaoIds ==
  ASSUME Loja
  PROVE  /\ proxima \in Nat /\ proxima \notin Sess /\ proxima # 0
         /\ Criadas \subseteq Ids /\ Sess \subseteq Nat
         /\ \A s \in Criadas : s # proxima /\ s # 0
         /\ proxima <= MaxSessoes => proxima \in Ids /\ marcador[proxima] = 0
  BY SessoesAssumption DEF Loja, Sess, Criadas, Ids

(* Sessions already created stay so.                                       *)
LEMMA Crescem ==
  ASSUME Loja, proxima' = proxima \/ proxima' = proxima + 1
  PROVE  Criadas \subseteq Criadas' /\ Sess \subseteq Sess' /\ Chamadas \subseteq Chamadas'
<1>1. Criadas \subseteq Criadas' /\ Sess \subseteq Sess'
  BY SessoesAssumption DEF Loja, Criadas, Sess
<1>2. Poe(Sess) \subseteq Poe(Sess')
  BY <1>1 DEF Poe
<1>3. Chamadas \subseteq Chamadas'
  <2> DEFINE S == Sess
             T == Sess'
  <2>1. S \subseteq T /\ Poe(S) \subseteq Poe(T)
    BY <1>1, <1>2
  <2>2. Chamadas = [fim: Fins, passo: Passos, em: Etapas, sessao: S, status: Nat,
                    poe: Poe(S), tentativa: Nat]
    BY DEF Chamadas
  <2>3. Chamadas' = [fim: Fins, passo: Passos, em: Etapas, sessao: T, status: Nat,
                     poe: Poe(T), tentativa: Nat]
    BY DEF Chamadas, Fins, Passos, Etapas, Poe
  <2> HIDE DEF S, T
  <2>4. QED
    BY <2>1, <2>2, <2>3
<1>4. QED
  BY <1>1, <1>3

LEMMA NovaCriada ==
  ASSUME Loja, proxima <= MaxSessoes, proxima' = proxima + 1
  PROVE  proxima \in Criadas' /\ proxima \in Sess' /\ proxima' \in 1 .. MaxSessoes + 1
         /\ \A s \in Ids : s + 1 .. proxima - 1 \subseteq s + 1 .. proxima' - 1
  BY SessoesAssumption DEF Loja, Criadas, Sess, Ids

LEMMA CriarSessaoLoja ==
  ASSUME Loja, proxima <= MaxSessoes, CriarSessao
  PROVE  Loja'
<1>1. proxima' = proxima + 1 /\ UNCHANGED <<marcador, orfas>>
  BY DEF CriarSessao
<1>2. QED
  BY <1>1, Crescem, NovaCriada DEF Loja, CriarSessao

LEMMA RotacionarLoja ==
  ASSUME Loja, proxima <= MaxSessoes, NEW s \in vivas, RotacionarSessao(s)
  PROVE  Loja'
<1>1. proxima' = proxima + 1 /\ orfas' = orfas
      /\ marcador' = [marcador EXCEPT ![s] = proxima]
  BY DEF RotacionarSessao
<1>2. s \in Ids /\ s < proxima /\ s \in Nat /\ proxima \in Nat
  BY CriadasSaoIds DEF Loja, Criadas, Ids
<1>3. marcador' \in [Ids -> Nat] /\ proxima \in s + 1 .. proxima' - 1
  BY <1>1, <1>2 DEF Loja
<1>4. \A t \in Ids : marcador'[t] = 0 \/ marcador'[t] \in t + 1 .. proxima' - 1
  <2>1. ASSUME NEW t \in Ids PROVE marcador'[t] = 0 \/ marcador'[t] \in t + 1 .. proxima' - 1
    <3>1. CASE t = s
      BY <1>1, <1>2, <1>3, <3>1 DEF Loja
    <3>2. CASE t # s
      BY <1>1, <3>2, NovaCriada DEF Loja
    <3>3. QED
      BY <3>1, <3>2
  <2>2. QED
    BY <2>1
<1>5. QED
  BY <1>1, <1>3, <1>4, Crescem, NovaCriada DEF Loja, RotacionarSessao

LEMMA RevogarLoja ==
  ASSUME Loja, NEW s, ApagarMapa(s) \/ ApagarSessao(s)
  PROVE  Loja'
<1>1. proxima' = proxima /\ marcador' = marcador
  BY DEF ApagarMapa, ApagarSessao
<1>2. QED
  BY <1>1 DEF Loja, ApagarMapa, ApagarSessao, Criadas, Sess, Ids

LEMMA LojaParada ==
  ASSUME Loja, UNCHANGED redis
  PROVE  Loja'
  BY DEF Loja, redis, Criadas, Sess, Ids

-----------------------------------------------------------------------------
(* Sockets.                                                                *)

LEMMA FecharSockets ==
  ASSUME Sockets, Criadas \subseteq Criadas', Sess \subseteq Sess', NEW S, NEW f \in Fases,
         f \notin {"admitida", "aberta"}, Fechar(S, f)
  PROVE  Sockets'
<1>1. socket' = [a \in Abas |-> IF a \in S THEN [Fora EXCEPT !.fase = f] ELSE socket[a]]
      /\ varredura' = [a \in Abas |-> IF a \in S THEN ForaDaVarredura ELSE varredura[a]]
  BY DEF Fechar, SocketsSem
<1>2. [Fora EXCEPT !.fase = f] \in [fase: Fases, sessao: Sess']
      /\ [Fora EXCEPT !.fase = f].fase = f
      /\ ForaDaVarredura \in Vistas'
  BY DEF Fora, ForaDaVarredura, Sess, Vistas
<1>3. socket' \in [Abas -> [fase: Fases, sessao: Sess']]
      /\ varredura' \in [Abas -> Vistas']
  BY <1>1, <1>2 DEF Sockets, Vistas
<1>4. \A a \in Abas : socket'[a].fase \in {"admitida", "aberta"} => socket'[a].sessao \in Criadas'
  BY <1>1, <1>2 DEF Sockets
<1>5. \A a \in Abas : Varrendo(a)' => varredura'[a].inicio \in Criadas' /\ varredura'[a].sessao \in Criadas'
  BY <1>1 DEF Sockets, Varrendo
<1>6. QED
  BY <1>3, <1>4, <1>5 DEF Sockets

LEMMA MigrarSocketsTipo ==
  ASSUME Sockets, Criadas \subseteq Criadas', Sess \subseteq Sess', NEW s \in Criadas',
         s \in Sess', MigrarSockets(s), varredura' = varredura
  PROVE  Sockets'
<1>1. socket' = [a \in Abas |-> IF a \in DoLobby THEN [socket[a] EXCEPT !.sessao = s]
                                ELSE socket[a]]
  BY DEF MigrarSockets
<1>2. socket' \in [Abas -> [fase: Fases, sessao: Sess']]
  BY <1>1 DEF Sockets
<1>3. \A a \in Abas : socket'[a].fase \in {"admitida", "aberta"} => socket'[a].sessao \in Criadas'
  BY <1>1 DEF Sockets
<1>4. varredura' \in [Abas -> Vistas']
      /\ \A a \in Abas : Varrendo(a)' => varredura'[a].inicio \in Criadas' /\ varredura'[a].sessao \in Criadas'
  BY DEF Sockets, Varrendo, Vistas
<1>5. QED
  BY <1>2, <1>3, <1>4 DEF Sockets

LEMMA SocketsParados ==
  ASSUME Sockets, Criadas \subseteq Criadas', Sess \subseteq Sess',
         UNCHANGED <<socket, varredura>>
  PROVE  Sockets'
  BY DEF Sockets, Varrendo, Vistas

(* What changes when the socket of one tab does.                           *)
LEMMA UmSocket ==
  ASSUME Sockets, UNCHANGED redis, NEW a \in Abas, NEW k \in [fase: Fases, sessao: Sess],
         socket' = [socket EXCEPT ![a] = k], varredura' = varredura,
         k.fase \in {"admitida", "aberta"} => k.sessao \in Criadas
  PROVE  Sockets'
<1>1. Criadas' = Criadas /\ Sess' = Sess
  BY DEF redis, Criadas, Sess
<1>2. QED
  BY <1>1 DEF Sockets, Varrendo, Vistas

-----------------------------------------------------------------------------
(* Calls.                                                                  *)

LEMMA JarraTipo ==
  ASSUME Jarras, NEW a \in Abas
  PROVE  /\ Jarra(a) = <<acesso[navegador[a]], renovacao[navegador[a]]>>
         /\ Jarra(a)[1] \in Sess /\ Jarra(a)[2] \in Sess
  BY DEF Jarras, Jarra

(* A new call asks with what the jar holds and brings nothing yet.         *)
LEMMA ChamadaNova ==
  ASSUME NEW fim \in Fins, NEW passo \in Passos, NEW entrada, NEW t \in Nat,
         entrada[1] \in Sess, entrada[2] \in Sess,
         NEW h, h = Chamada(fim, passo, entrada, t)
  PROVE  /\ h \in Chamadas
         /\ h.em = "ida" /\ h.poe = <<>> /\ h.sessao \in {entrada[1], entrada[2]}
<1> DEFINE e == IF passo = "refresh" THEN entrada[2] ELSE entrada[1]
<1>1. h = [fim |-> fim, passo |-> passo, em |-> "ida", sessao |-> e, status |-> 0,
           poe |-> <<>>, tentativa |-> t]
  BY DEF Chamada, Nenhuma
<1>2. e \in Sess /\ e \in {entrada[1], entrada[2]}
  OBVIOUS
<1> HIDE DEF e
<1>3. <<>> \in Poe(Sess) /\ "ida" \in Etapas /\ 0 \in Nat
  BY DEF Poe, Etapas
<1>4. h \in Chamadas
  BY <1>1, <1>2, <1>3 DEF Chamadas
<1>5. QED
  BY <1>1, <1>2, <1>4

LEMMA NenhumaChamada ==
  /\ Nenhuma \in Chamadas /\ Nenhuma.em = "nada" /\ Nenhuma.poe = <<>> /\ Nenhuma.sessao = 0
<1>1. <<>> \in Poe(Sess) /\ "nada" \in Etapas /\ 0 \in Nat /\ 0 \in Sess
      /\ "nenhum" \in Fins /\ "nenhum" \in Passos
  BY DEF Poe, Etapas, Sess, Fins, Passos
<1>2. QED
  BY <1>1 DEF Nenhuma, Chamadas

(* What a tab does when its call ends, whether or not it goes on.          *)
LEMMA ConcluirForma ==
  ASSUME Tipos, NEW a \in Abas, NEW status \in Nat, NEW jarra,
         jarra[1] \in Sess, jarra[2] \in Sess, Concluir(a, status, jarra)
  PROVE  \E h \in Chamadas :
           /\ http' = [http EXCEPT ![a] = h]
           /\ h.em \in {"nada", "ida"} /\ h.poe = <<>>
           /\ h.sessao \in {0, jarra[1], jarra[2]}
<1> DEFINE h == http[a]
           desfecho == Desfecho(h, status)
<1>1. h \in Chamadas
  BY DEF Tipos
<1>2. CASE desfecho = "segue" \/ Insiste(h, desfecho)
  <2> DEFINE fim == IF h.fim = "login" THEN "entrar" ELSE h.fim
             passo == IF desfecho = "segue" THEN PassoSeguinte(h, status) ELSE "pedido"
             t == IF desfecho = "segue" THEN h.tentativa ELSE h.tentativa + 1
             k == Chamada(fim, passo, jarra, t)
  <2>1. http' = [http EXCEPT ![a] = k]
    BY <1>2 DEF Concluir
  <2>2. fim \in Fins /\ passo \in Passos /\ t \in Nat
    BY <1>1 DEF Chamadas, Fins, Passos, PassoSeguinte
  <2> HIDE DEF fim, passo, t, desfecho, h
  <2>3. k \in Chamadas /\ k.em = "ida" /\ k.poe = <<>> /\ k.sessao \in {jarra[1], jarra[2]}
    BY <2>2, ChamadaNova
  <2> HIDE DEF k
  <2>4. QED
    BY <2>1, <2>3
<1>3. CASE ~ (desfecho = "segue" \/ Insiste(h, desfecho))
  <2>1. http' = [http EXCEPT ![a] = Nenhuma]
    BY <1>3 DEF Concluir
  <2>2. QED
    BY <2>1, NenhumaChamada
<1>4. QED
  BY <1>2, <1>3

LEMMA RespondeForma ==
  ASSUME Tipos, Chamadas \subseteq Chamadas', NEW a \in Abas, NEW status \in Nat,
         NEW poe \in Poe(Sess'), Responde(a, status, poe)
  PROVE  \E h \in Chamadas' :
           /\ http' = [http EXCEPT ![a] = h]
           /\ h.em = "volta" /\ h.poe = poe /\ h.sessao = http[a].sessao
<1> DEFINE h == [http[a] EXCEPT !.em = "volta", !.status = status, !.poe = poe]
<1>1. http[a] \in Chamadas' /\ http \in [Abas -> Chamadas]
  BY DEF Tipos
<1>2. http' = [http EXCEPT ![a] = h]
  BY <1>1 DEF Responde, Chamadas
<1>3. "volta" \in Etapas
  BY DEF Etapas
<1>4. h \in Chamadas' /\ h.em = "volta" /\ h.poe = poe /\ h.sessao = http[a].sessao
  BY <1>1, <1>3 DEF Chamadas
<1>5. QED
  BY <1>2, <1>4

LEMMA AvancaForma ==
  ASSUME Tipos, NEW a \in Abas, NEW em \in Etapas, Avanca(a, em)
  PROVE  \E h \in Chamadas :
           /\ http' = [http EXCEPT ![a] = h]
           /\ h.em = em /\ h.poe = http[a].poe /\ h.sessao = http[a].sessao
<1> DEFINE h == [http[a] EXCEPT !.em = em]
<1>1. http[a] \in Chamadas /\ http \in [Abas -> Chamadas]
  BY DEF Tipos
<1>2. http' = [http EXCEPT ![a] = h]
  BY <1>1 DEF Avanca, Chamadas
<1>3. h \in Chamadas /\ h.em = em /\ h.poe = http[a].poe /\ h.sessao = http[a].sessao
  BY <1>1 DEF Chamadas
<1>4. QED
  BY <1>2, <1>3

LEMMA ChamarForma ==
  ASSUME Tipos, NEW a \in Abas, NEW fim \in Fins, NEW passo \in Passos, Chamar(a, fim, passo)
  PROVE  /\ UNCHANGED <<redis, cookies, falhas>>
         /\ http[a] = Nenhuma
         /\ \E h \in Chamadas :
              /\ http' = [http EXCEPT ![a] = h]
              /\ h.em = "ida" /\ h.poe = <<>> /\ h.sessao \in {Jarra(a)[1], Jarra(a)[2]}
<1>1. Jarra(a)[1] \in Sess /\ Jarra(a)[2] \in Sess
  BY JarraTipo DEF Tipos
<1> DEFINE h == Chamada(fim, passo, Jarra(a), 0)
<1>2. http' = [http EXCEPT ![a] = h] /\ UNCHANGED <<redis, cookies, falhas>> /\ http[a] = Nenhuma
  BY DEF Chamar, Livre
<1> HIDE DEF h
<1>3. h \in Chamadas /\ h.em = "ida" /\ h.poe = <<>> /\ h.sessao \in {Jarra(a)[1], Jarra(a)[2]}
  BY <1>1, ChamadaNova DEF h
<1>4. QED
  BY <1>2, <1>3

-----------------------------------------------------------------------------
(* Every action preserves the types.                                       *)

AbasTipo == aba \in [Abas -> {"visitante", "carregando", "autenticada"}]

LEMMA RedisParado ==
  ASSUME Tipos, UNCHANGED redis
  PROVE  Loja' /\ Criadas' = Criadas /\ Sess' = Sess /\ Chamadas' = Chamadas
<1>1. Loja' /\ Criadas' = Criadas /\ Sess' = Sess
  BY LojaParada DEF Tipos, redis, Criadas, Sess
<1>2. QED
  BY <1>1 DEF Chamadas, Fins, Passos, Etapas, Poe

LEMMA JarrasParadas ==
  ASSUME Tipos, Sess \subseteq Sess', UNCHANGED cookies
  PROVE  Jarras'
  BY DEF Tipos, Jarras, cookies

LEMMA HttpTipo ==
  ASSUME Tipos, Chamadas \subseteq Chamadas', NEW a \in Abas, NEW h \in Chamadas',
         http' = [http EXCEPT ![a] = h]
  PROVE  http' \in [Abas -> Chamadas']
  BY DEF Tipos

LEMMA DerrubarTipo ==
  ASSUME Tipos, Criadas \subseteq Criadas', Sess \subseteq Sess', NEW S, Derrubar(S)
  PROVE  Sockets' /\ AbasTipo'
<1>1. Fechar(S, "fora") /\ aba' = [a \in Abas |-> IF a \in S THEN "visitante" ELSE aba[a]]
  BY DEF Derrubar, Deslogadas
<1>2. "fora" \in Fases /\ "fora" \notin {"admitida", "aberta"}
  BY DEF Fases
<1>3. Sockets'
  BY <1>1, <1>2, FecharSockets DEF Tipos
<1>4. QED
  BY <1>1, <1>3 DEF Tipos, AbasTipo

LEMMA ConcluirTipo ==
  ASSUME Tipos, UNCHANGED redis, NEW a \in Abas, NEW status, NEW jarra, Concluir(a, status, jarra)
  PROVE  Sockets' /\ AbasTipo'
<1>1. Criadas' = Criadas /\ Sess' = Sess
  BY RedisParado
<1>2. CASE UNCHANGED <<aba, socket, varredura>>
  BY <1>1, <1>2, SocketsParados DEF Tipos, AbasTipo
<1>3. CASE /\ aba' = [aba EXCEPT ![a] = AbaApos(a, http[a], Desfecho(http[a], status))]
           /\ Fechar({a}, "fora") \/ UNCHANGED <<socket, varredura>>
  <2>1. AbaApos(a, http[a], Desfecho(http[a], status)) \in {"visitante", "carregando", "autenticada"}
    BY DEF Tipos, AbaApos
  <2>2. AbasTipo'
    BY <1>3, <2>1 DEF Tipos, AbasTipo
  <2>3. "fora" \in Fases /\ "fora" \notin {"admitida", "aberta"}
    BY DEF Fases
  <2>4. Sockets'
    BY <1>1, <1>3, <2>3, FecharSockets, SocketsParados DEF Tipos
  <2>5. QED
    BY <2>2, <2>4
<1>4. QED
  BY <1>2, <1>3 DEF Concluir

LEMMA HttpUm ==
  ASSUME Tipos, Loja', Criadas \subseteq Criadas', Sess \subseteq Sess', Chamadas \subseteq Chamadas',
         NEW a \in Abas, NEW h \in Chamadas', http' = [http EXCEPT ![a] = h],
         UNCHANGED cookies, Sockets', AbasTipo', falhas' \in 0 .. MaxFalhas
  PROVE  Tipos'
<1>1. http' \in [Abas -> Chamadas'] /\ Jarras'
  BY HttpTipo, JarrasParadas
<1>2. QED
  BY <1>1 DEF Tipos, AbasTipo

LEMMA SoHttp ==
  ASSUME Tipos, NEW a \in Abas, NEW h \in Chamadas, http' = [http EXCEPT ![a] = h],
         UNCHANGED <<redis, cookies, aba, socket, varredura, falhas>>
  PROVE  Tipos'
<1>1. Loja' /\ Criadas' = Criadas /\ Sess' = Sess /\ Chamadas' = Chamadas
  BY RedisParado
<1>2. Sockets' /\ AbasTipo' /\ falhas' \in 0 .. MaxFalhas
  BY <1>1, SocketsParados DEF Tipos, AbasTipo
<1>3. QED
  BY <1>1, <1>2, HttpUm

LEMMA SemHttp ==
  ASSUME Tipos, UNCHANGED <<redis, cookies, http>>, Sockets', AbasTipo', falhas' \in 0 .. MaxFalhas
  PROVE  Tipos'
<1>1. Loja' /\ Criadas' = Criadas /\ Sess' = Sess /\ Chamadas' = Chamadas
  BY RedisParado
<1>2. QED
  BY <1>1, JarrasParadas DEF Tipos, AbasTipo

LEMMA PoeVazio == <<>> \in Poe(Sess)
  BY DEF Poe

(* What each handler does to its call; and to the store, when it does.     *)
LEMMA ServirLeituras ==
  ASSUME Tipos, NEW a \in Abas,
         ServirEu(a) \/ ServirRefresh(a) \/ ServirLogout(a) \/ Revogar(a)
  PROVE  /\ UNCHANGED <<redis, cookies, aba, socket, varredura, falhas>>
         /\ \E h \in Chamadas : /\ http' = [http EXCEPT ![a] = h]
                                /\ h.em # "volta" \/ h.poe = <<>>
                                /\ h.sessao = http[a].sessao
<1>1. UNCHANGED <<redis, cookies, aba, socket, varredura, falhas>>
  BY DEF ServirEu, ServirRefresh, ServirLogout, Revogar
<1>2. Chamadas' = Chamadas /\ Sess' = Sess
  BY <1>1, RedisParado
<1>3. ASSUME \E status \in Nat : Responde(a, status, <<>>)
      PROVE  \E h \in Chamadas : /\ http' = [http EXCEPT ![a] = h]
                                 /\ h.em # "volta" \/ h.poe = <<>>
                                 /\ h.sessao = http[a].sessao
  BY <1>2, <1>3, RespondeForma, PoeVazio
<1>4. ASSUME \E em \in Etapas \ {"volta"} : Avanca(a, em)
      PROVE  \E h \in Chamadas : /\ http' = [http EXCEPT ![a] = h]
                                 /\ h.em # "volta" \/ h.poe = <<>>
                                 /\ h.sessao = http[a].sessao
  BY <1>4, AvancaForma
<1>5. \/ \E status \in Nat : Responde(a, status, <<>>)
      \/ \E em \in Etapas \ {"volta"} : Avanca(a, em)
  BY DEF ServirEu, ServirRefresh, ServirLogout, Revogar, Etapas
<1>6. QED
  BY <1>1, <1>3, <1>4, <1>5

LEMMA LeiturasTipos ==
  ASSUME Tipos, NEW a \in Abas,
         ServirEu(a) \/ ServirRefresh(a) \/ ServirLogout(a) \/ Revogar(a)
  PROVE  Tipos'
  BY ServirLeituras, SoHttp

LEMMA RevogarMapaForma ==
  ASSUME Tipos, NEW a \in Abas, RevogarMapa(a)
  PROVE  \E h \in Chamadas : /\ http' = [http EXCEPT ![a] = h]
                             /\ h.em = "sessao" /\ h.sessao = http[a].sessao
<1>1. Avanca(a, "sessao") /\ "sessao" \in Etapas
  BY DEF RevogarMapa, Etapas
<1>2. QED
  BY <1>1, AvancaForma

LEMMA RevogarMapaTipos ==
  ASSUME Tipos, NEW a \in Abas, RevogarMapa(a)
  PROVE  Tipos'
<1>1. ApagarMapa(http[a].sessao) /\ UNCHANGED <<cookies, aba, socket, varredura, falhas>>
  BY DEF RevogarMapa
<1>2. Loja' /\ Criadas' = Criadas /\ Sess' = Sess
  BY <1>1, RevogarLoja DEF Tipos, ApagarMapa, Criadas, Sess
<1>3. Chamadas' = Chamadas
  BY <1>2 DEF Chamadas, Fins, Passos, Etapas, Poe
<1>4. Sockets' /\ AbasTipo' /\ falhas' \in 0 .. MaxFalhas
  BY <1>1, <1>2, SocketsParados DEF Tipos, AbasTipo
<1>5. QED
  BY <1>1, <1>2, <1>3, <1>4, RevogarMapaForma, HttpUm

LEMMA RevogarSessaoForma ==
  ASSUME Tipos, NEW a \in Abas, RevogarSessao(a)
  PROVE  /\ Criadas' = Criadas /\ Sess' = Sess /\ Chamadas' = Chamadas
         /\ \E h \in Chamadas : /\ http' = [http EXCEPT ![a] = h]
                                /\ h.em = "volta" /\ h.poe = << 0 >> /\ h.sessao = http[a].sessao
<1>1. ApagarSessao(http[a].sessao) /\ Responde(a, 200, << 0 >>)
  BY DEF RevogarSessao
<1>2. Criadas' = Criadas /\ Sess' = Sess
  BY <1>1 DEF ApagarSessao, Criadas, Sess
<1>3. Chamadas' = Chamadas
  BY <1>2 DEF Chamadas, Fins, Passos, Etapas, Poe
<1>4. << 0 >> \in Poe(Sess')
  BY DEF Poe, Sess
<1>5. QED
  BY <1>1, <1>2, <1>3, <1>4, RespondeForma

LEMMA RevogarSessaoTipos ==
  ASSUME Tipos, NEW a \in Abas, RevogarSessao(a)
  PROVE  Tipos'
<1>1. ApagarSessao(http[a].sessao) /\ Derrubar(DoLobby) /\ UNCHANGED <<cookies, falhas>>
  BY DEF RevogarSessao
<1>2. Loja' /\ Criadas' = Criadas /\ Sess' = Sess /\ Chamadas' = Chamadas
  BY <1>1, RevogarLoja, RevogarSessaoForma DEF Tipos
<1>3. Sockets' /\ AbasTipo' /\ falhas' \in 0 .. MaxFalhas
  BY <1>1, <1>2, DerrubarTipo DEF Tipos
<1>4. QED
  BY <1>1, <1>2, <1>3, RevogarSessaoForma, HttpUm

(* A session is created: by a rotation of the one mapped, or by a login.   *)
LEMMA CriacaoForma ==
  ASSUME Tipos, NEW a \in Abas, Rotacionar(a) \/ ServirLogin(a)
  PROVE  \/ /\ UNCHANGED <<redis, cookies, aba, socket, varredura, falhas>>
            /\ \E h \in Chamadas : /\ http' = [http EXCEPT ![a] = h]
                                   /\ h.em = "volta" /\ h.poe = <<>> /\ h.sessao = http[a].sessao
         \/ /\ \/ RotacionarSessao(http[a].sessao) /\ Rotacionavel(http[a].sessao)
                  /\ NoServidor(a, "refresh", "rotacao")
                  /\ MigrarSockets(proxima) /\ UNCHANGED <<aba, varredura>>
               \/ CriarSessao /\ Derrubar(DoLobby)
            /\ proxima <= MaxSessoes /\ proxima' = proxima + 1
            /\ Loja' /\ Criadas \subseteq Criadas' /\ Sess \subseteq Sess' /\ Chamadas \subseteq Chamadas'
            /\ proxima \in Criadas' /\ proxima \in Sess'
            /\ UNCHANGED <<cookies, falhas>>
            /\ \E h \in Chamadas' : /\ http' = [http EXCEPT ![a] = h]
                                    /\ h.em = "volta" /\ h.poe = <<proxima>>
                                    /\ h.sessao = http[a].sessao
<1>1. CASE /\ \E status \in Nat : Responde(a, status, <<>>)
           /\ UNCHANGED <<redis, cookies, aba, socket, varredura, falhas>>
  BY <1>1, RedisParado, RespondeForma, PoeVazio
<1>2. CASE /\ proxima <= MaxSessoes /\ Responde(a, 200, <<proxima>>) /\ UNCHANGED <<cookies, falhas>>
           /\ \/ RotacionarSessao(http[a].sessao) /\ Rotacionavel(http[a].sessao)
                 /\ NoServidor(a, "refresh", "rotacao")
                 /\ MigrarSockets(proxima) /\ UNCHANGED <<aba, varredura>>
              \/ CriarSessao /\ Derrubar(DoLobby)
  <2>1. proxima' = proxima + 1
    BY <1>2 DEF RotacionarSessao, CriarSessao
  <2>2. Criadas \subseteq Criadas' /\ Sess \subseteq Sess' /\ Chamadas \subseteq Chamadas'
        /\ proxima \in Criadas' /\ proxima \in Sess'
    BY <1>2, <2>1, Crescem, NovaCriada DEF Tipos
  <2>3. Loja'
    BY <1>2, CriarSessaoLoja, RotacionarLoja DEF Tipos, Rotacionavel
  <2>4. <<proxima>> \in Poe(Sess')
    BY <2>2 DEF Poe
  <2>5. \E h \in Chamadas' : /\ http' = [http EXCEPT ![a] = h]
                             /\ h.em = "volta" /\ h.poe = <<proxima>>
                             /\ h.sessao = http[a].sessao
    BY <1>2, <2>2, <2>4, RespondeForma
  <2>6. QED
    BY <1>2, <2>1, <2>2, <2>3, <2>5
<1>3. proxima > MaxSessoes \/ proxima <= MaxSessoes
  BY SessoesAssumption DEF Tipos, Loja
<1>4. QED
  BY <1>1, <1>2, <1>3 DEF Rotacionar, ServirLogin, redis

LEMMA CriacaoTipos ==
  ASSUME Tipos, NEW a \in Abas, Rotacionar(a) \/ ServirLogin(a)
  PROVE  Tipos'
<1>1. CASE /\ UNCHANGED <<redis, cookies, aba, socket, varredura, falhas>>
           /\ \E h \in Chamadas : http' = [http EXCEPT ![a] = h]
  BY <1>1, SoHttp
<1>2. CASE /\ \/ MigrarSockets(proxima) /\ UNCHANGED <<aba, varredura>>
              \/ Derrubar(DoLobby)
           /\ Loja' /\ Criadas \subseteq Criadas' /\ Sess \subseteq Sess' /\ Chamadas \subseteq Chamadas'
           /\ proxima \in Criadas' /\ proxima \in Sess'
           /\ UNCHANGED <<cookies, falhas>>
           /\ \E h \in Chamadas' : http' = [http EXCEPT ![a] = h]
  <2>1. Sockets' /\ AbasTipo'
    <3>1. CASE MigrarSockets(proxima) /\ UNCHANGED <<aba, varredura>>
      BY <1>2, <3>1, MigrarSocketsTipo DEF Tipos, AbasTipo
    <3>2. CASE Derrubar(DoLobby)
      BY <1>2, <3>2, DerrubarTipo
    <3>3. QED
      BY <1>2, <3>1, <3>2
  <2>2. falhas' \in 0 .. MaxFalhas
    BY <1>2 DEF Tipos
  <2>3. QED
    BY <1>2, <2>1, <2>2, HttpUm
<1>3. QED
  BY <1>1, <1>2, CriacaoForma

(* The answer in the tab.                                                  *)
LEMMA ReceberForma ==
  ASSUME Tipos, NEW a \in Abas, Receber(a)
  PROVE  /\ UNCHANGED <<redis, navegador, falhas>> /\ Sockets' /\ AbasTipo'
         /\ http[a].em = "volta"
         /\ \/ http[a].poe = <<>> /\ UNCHANGED <<acesso, renovacao>>
            \/ \E x \in Sess : /\ http[a].poe = <<x>>
                               /\ acesso' = [acesso EXCEPT ![navegador[a]] = x]
                               /\ renovacao' = [renovacao EXCEPT ![navegador[a]] = x]
         /\ Jarras'
         /\ \E h \in Chamadas :
              /\ http' = [http EXCEPT ![a] = h]
              /\ h.em \in {"nada", "ida"} /\ h.poe = <<>>
              /\ h.sessao \in {0, acesso'[navegador[a]], renovacao'[navegador[a]]}
<1> DEFINE jarra == <<acesso'[navegador[a]], renovacao'[navegador[a]]>>
<1>1. /\ UNCHANGED <<redis, navegador, falhas>> /\ http[a].em = "volta"
      /\ Concluir(a, http[a].status, jarra)
  BY DEF Receber
<1>2. http[a].status \in Nat /\ http[a].poe \in Poe(Sess)
  BY DEF Tipos, Chamadas
<1>3. \/ http[a].poe = <<>> /\ UNCHANGED <<acesso, renovacao>>
      \/ \E x \in Sess : /\ http[a].poe = <<x>>
                         /\ acesso' = [acesso EXCEPT ![navegador[a]] = x]
                         /\ renovacao' = [renovacao EXCEPT ![navegador[a]] = x]
  <2>1. CASE http[a].poe = <<>>
    BY <2>1 DEF Receber
  <2>2. CASE \E x \in Sess : http[a].poe = <<x>>
    <3>1. PICK x \in Sess : http[a].poe = <<x>>
      BY <2>2
    <3>2. http[a].poe # <<>> /\ http[a].poe[1] = x
      BY <3>1
    <3>3. QED
      BY <3>1, <3>2 DEF Receber
  <2>3. QED
    BY <1>2, <2>1, <2>2 DEF Poe
<1>4. navegador[a] \in Navegadores
  BY DEF Tipos, Jarras
<1>5. acesso' \in [Navegadores -> Sess] /\ renovacao' \in [Navegadores -> Sess]
  BY <1>3 DEF Tipos, Jarras
<1>6. jarra[1] \in Sess /\ jarra[2] \in Sess
  BY <1>4, <1>5
<1>7. Sockets' /\ AbasTipo'
  BY <1>1, ConcluirTipo
<1>8. Sess' = Sess
  BY <1>1, RedisParado
<1>9. Jarras'
  BY <1>1, <1>5, <1>8 DEF Tipos, Jarras
<1>10. jarra[1] = acesso'[navegador[a]] /\ jarra[2] = renovacao'[navegador[a]]
  OBVIOUS
<1> HIDE DEF jarra
<1>11. \E h \in Chamadas :
         /\ http' = [http EXCEPT ![a] = h]
         /\ h.em \in {"nada", "ida"} /\ h.poe = <<>>
         /\ h.sessao \in {0, jarra[1], jarra[2]}
  BY <1>1, <1>2, <1>6, ConcluirForma
<1>12. QED
  BY <1>1, <1>3, <1>7, <1>9, <1>10, <1>11

LEMMA ReceberTipos ==
  ASSUME Tipos, NEW a \in Abas, Receber(a)
  PROVE  Tipos'
<1>1. UNCHANGED <<redis, navegador, falhas>> /\ Sockets' /\ AbasTipo' /\ Jarras'
      /\ \E h \in Chamadas : http' = [http EXCEPT ![a] = h]
  BY ReceberForma
<1>2. Loja' /\ Chamadas' = Chamadas
  BY <1>1, RedisParado
<1>3. http' \in [Abas -> Chamadas']
  BY <1>1, <1>2, HttpTipo
<1>4. QED
  BY <1>1, <1>2, <1>3 DEF Tipos, AbasTipo

LEMMA PerderTipos ==
  ASSUME Tipos, NEW a \in Abas, Perder(a)
  PROVE  Tipos'
<1>1. /\ UNCHANGED <<redis, cookies>> /\ falhas' = falhas + 1 /\ falhas < MaxFalhas
      /\ Concluir(a, 0, Jarra(a))
  BY DEF Perder
<1>2. Jarra(a)[1] \in Sess /\ Jarra(a)[2] \in Sess
  BY JarraTipo DEF Tipos
<1>3. \E h \in Chamadas : http' = [http EXCEPT ![a] = h]
  BY <1>1, <1>2, ConcluirForma
<1>4. Sockets' /\ AbasTipo'
  BY <1>1, ConcluirTipo
<1>5. falhas' \in 0 .. MaxFalhas
  BY <1>1, SessoesAssumption DEF Tipos
<1>6. Loja' /\ Criadas' = Criadas /\ Sess' = Sess /\ Chamadas' = Chamadas
  BY <1>1, RedisParado
<1>7. QED
  BY <1>1, <1>3, <1>4, <1>5, <1>6, HttpUm

(* What a tab starts by itself.                                            *)
Chama(a) == Recarregar(a) \/ Entrar(a) \/ Sair(a) \/ Deslizar(a) \/ Reconectar(a)

LEMMA ChamaForma ==
  ASSUME Tipos, NEW a \in Abas, Chama(a)
  PROVE  /\ UNCHANGED <<redis, cookies, falhas>> /\ Sockets' /\ AbasTipo'
         /\ http[a] = Nenhuma
         /\ \E h \in Chamadas :
              /\ http' = [http EXCEPT ![a] = h]
              /\ h.em = "ida" /\ h.poe = <<>> /\ h.sessao \in {Jarra(a)[1], Jarra(a)[2]}
<1>1. \E fim \in Fins, passo \in Passos : Chamar(a, fim, passo)
  BY DEF Chama, Recarregar, Entrar, Sair, Deslizar, Reconectar, Fins, Passos
<1>2. /\ UNCHANGED <<redis, cookies, falhas>> /\ http[a] = Nenhuma
      /\ \E h \in Chamadas :
           /\ http' = [http EXCEPT ![a] = h]
           /\ h.em = "ida" /\ h.poe = <<>> /\ h.sessao \in {Jarra(a)[1], Jarra(a)[2]}
  BY <1>1, ChamarForma
<1>3. Criadas' = Criadas /\ Sess' = Sess
  BY <1>2, RedisParado
<1>4. CASE UNCHANGED <<aba, socket, varredura>>
  BY <1>2, <1>3, <1>4, SocketsParados DEF Tipos, AbasTipo
<1>5. CASE aba' = [aba EXCEPT ![a] = "carregando"] /\ Fechar({a}, "fora")
  <2>1. "fora" \in Fases /\ "fora" \notin {"admitida", "aberta"}
    BY DEF Fases
  <2>2. Sockets'
    BY <1>3, <1>5, <2>1, FecharSockets DEF Tipos
  <2>3. AbasTipo'
    BY <1>5 DEF Tipos, AbasTipo
  <2>4. QED
    BY <1>2, <2>2, <2>3
<1>6. QED
  BY <1>4, <1>5 DEF Chama, Recarregar, Entrar, Sair, Deslizar, Reconectar

LEMMA ChamaTipos ==
  ASSUME Tipos, NEW a \in Abas, Chama(a)
  PROVE  Tipos'
<1>1. /\ UNCHANGED <<redis, cookies, falhas>> /\ Sockets' /\ AbasTipo'
      /\ \E h \in Chamadas : http' = [http EXCEPT ![a] = h]
  BY ChamaForma
<1>2. Loja' /\ Criadas' = Criadas /\ Sess' = Sess /\ Chamadas' = Chamadas
  BY <1>1, RedisParado
<1>3. falhas' \in 0 .. MaxFalhas
  BY <1>1 DEF Tipos
<1>4. QED
  BY <1>1, <1>2, <1>3, HttpUm

(* The sockets, whose steps leave the store and the calls alone.           *)
NoSocket(a) == Conectar(a) \/ Autenticar(a) \/ Registrar(a) \/ Cair(a) \/ Varrer(a)

(* What a sweep sees, and where it goes on.                                *)
LEMMA VistaTipo ==
  ASSUME Tipos, NEW a \in Abas, Aberta(a)
  PROVE  /\ Vista(a) \in Vistas
         /\ Vista(a).inicio \in Criadas /\ Vista(a).sessao \in Criadas
         /\ ~Varrendo(a) => Vista(a).inicio = Vista(a).sessao /\ Vista(a).saltos = 0
<1>1. CASE Varrendo(a)
  BY <1>1 DEF Vista, Tipos, Sockets
<1>2. CASE ~Varrendo(a)
  BY <1>2 DEF Vista, Tipos, Sockets, Aberta, Sess, Vistas
<1>3. QED
  BY <1>1, <1>2

LEMMA SaltoTipo ==
  ASSUME Tipos, NEW v \in Vistas, v.inicio \in Criadas, v.sessao \in Criadas, ~SemSaida(v)
  PROVE  /\ Salto(v) \in Vistas
         /\ Salto(v).inicio = v.inicio /\ Salto(v).saltos = v.saltos + 1
         /\ Salto(v).sessao = marcador[v.sessao] /\ marcador[v.sessao] \in Criadas
         /\ v.sessao < marcador[v.sessao]
         /\ Salto(v).inicio \in Criadas /\ Salto(v).sessao \in Criadas
<1>1. v.sessao \in Ids /\ marcador[v.sessao] # 0
  BY CriadasSaoIds DEF Tipos, SemSaida
<1>2. marcador[v.sessao] \in v.sessao + 1 .. proxima - 1
  BY <1>1 DEF Tipos, Loja
<1>3. marcador[v.sessao] \in Criadas /\ v.sessao < marcador[v.sessao]
  BY <1>1, <1>2, CriadasSaoIds DEF Tipos, Criadas, Ids
<1>4. v.saltos + 1 \in Nat /\ marcador[v.sessao] \in Sess /\ v.inicio \in Sess
  BY <1>3 DEF Vistas, Sess
<1>5. PICK t, n : t = marcador[v.sessao] /\ n = v.saltos + 1
  OBVIOUS
<1>6. Salto(v) = [v EXCEPT !.sessao = t, !.saltos = n]
  BY <1>5 DEF Salto
<1>7. [v EXCEPT !.sessao = t, !.saltos = n] \in Vistas
  BY <1>4, <1>5 DEF Vistas
<1>8. /\ [v EXCEPT !.sessao = t, !.saltos = n].inicio = v.inicio
      /\ [v EXCEPT !.sessao = t, !.saltos = n].sessao = t
      /\ [v EXCEPT !.sessao = t, !.saltos = n].saltos = n
  BY DEF Vistas
<1>9. QED
  BY <1>3, <1>5, <1>6, <1>7, <1>8

LEMMA VarrerTipos ==
  ASSUME Tipos, NEW a \in Abas, Varrer(a)
  PROVE  Sockets' /\ AbasTipo'
<1> DEFINE v == Vista(a)
           s == v.sessao
<1>1. Criadas' = Criadas /\ Vistas' = Vistas
  BY RedisParado DEF Varrer, Vistas
<1>2. v \in Vistas /\ v.inicio \in Criadas /\ v.sessao \in Criadas
  BY VistaTipo DEF Varrer
<1>3. CASE s \in vivas
  <2>1. /\ socket' = [socket EXCEPT ![a].sessao = s]
        /\ varredura' = [varredura EXCEPT ![a] = ForaDaVarredura] /\ aba' = aba
    BY <1>3 DEF Varrer
  <2>2. ForaDaVarredura \in Vistas
    BY DEF ForaDaVarredura, Sess, Vistas
  <2>3. s \in Sess /\ Sess' = Sess
    BY <1>1, <1>2 DEF Sess
  <2>4. Sockets'
    BY <1>1, <1>2, <2>1, <2>2, <2>3 DEF Tipos, Sockets, Varrendo
  <2>5. QED
    BY <2>1, <2>4 DEF Tipos, AbasTipo
<1>4. CASE s \notin vivas /\ SemSaida(v)
  BY <1>1, <1>4, RedisParado, DerrubarTipo DEF Varrer
<1>5. CASE s \notin vivas /\ ~SemSaida(v)
  <2>1. /\ varredura' = [varredura EXCEPT ![a] = Salto(v)]
        /\ UNCHANGED <<aba, socket>>
    BY <1>5 DEF Varrer
  <2>2. Salto(v) \in Vistas /\ Salto(v).inicio \in Criadas /\ Salto(v).sessao \in Criadas
    BY <1>2, <1>5, SaltoTipo
  <2>3. Sess' = Sess
    BY <1>1 DEF Sess
  <2> HIDE DEF s, v
  <2>4. Sockets'
    BY <1>1, <2>1, <2>2, <2>3 DEF Tipos, Sockets, Varrendo
  <2>5. QED
    BY <2>1, <2>4 DEF Tipos, AbasTipo
<1>6. QED
  BY <1>3, <1>4, <1>5

LEMMA NoSocketTipos ==
  ASSUME Tipos, NEW a \in Abas, NoSocket(a)
  PROVE  Tipos' /\ UNCHANGED <<redis, cookies, http>> /\ (falhas' = falhas \/ Cair(a))
<1>1. /\ UNCHANGED <<redis, cookies, http>>
      /\ falhas' = falhas \/ (Cair(a) /\ falhas' = falhas + 1 /\ falhas < MaxFalhas)
  BY DEF NoSocket, Conectar, Autenticar, Registrar, Cair, Varrer
<1>2. falhas' \in 0 .. MaxFalhas /\ (falhas' = falhas \/ Cair(a))
  BY <1>1, SessoesAssumption DEF Tipos
<1>3. Criadas' = Criadas /\ Sess' = Sess
  BY <1>1, RedisParado
<1>4. Sockets' /\ AbasTipo'
  <2>1. CASE Conectar(a)
    <3> DEFINE k == [fase |-> "abrindo", sessao |-> Jarra(a)[1]]
    <3>1. socket' = [socket EXCEPT ![a] = k] /\ UNCHANGED <<aba, varredura>>
      BY <2>1 DEF Conectar
    <3>2. k \in [fase: Fases, sessao: Sess] /\ k.fase \notin {"admitida", "aberta"}
      BY JarraTipo DEF Tipos, Fases
    <3> HIDE DEF k
    <3>3. QED
      BY <1>1, <3>1, <3>2, UmSocket DEF Tipos, AbasTipo
  <2>2. CASE Autenticar(a)
    <3>1. CASE socket[a].sessao \in vivas
      <4> DEFINE k == [socket[a] EXCEPT !.fase = "admitida"]
      <4>1. socket' = [socket EXCEPT ![a] = k] /\ UNCHANGED <<aba, varredura>>
        BY <2>2, <3>1 DEF Autenticar
      <4>2. k \in [fase: Fases, sessao: Sess] /\ k.sessao \in Criadas
        BY <3>1 DEF Tipos, Loja, Sockets, Fases
      <4> HIDE DEF k
      <4>3. QED
        BY <1>1, <4>1, <4>2, UmSocket DEF Tipos, AbasTipo
    <3>2. CASE Derrubar({a})
      BY <1>3, <3>2, DerrubarTipo
    <3>3. CASE Fechar({a}, "caida") /\ UNCHANGED aba
      <4>1. "caida" \in Fases /\ "caida" \notin {"admitida", "aberta"}
        BY DEF Fases
      <4>2. QED
        BY <1>3, <3>3, <4>1, FecharSockets DEF Tipos, AbasTipo
    <3>4. QED
      BY <2>2, <3>1, <3>2, <3>3 DEF Autenticar
  <2>3. CASE Registrar(a)
    <3> DEFINE k == [socket[a] EXCEPT !.fase = "aberta"]
    <3>1. socket' = [socket EXCEPT ![a] = k] /\ UNCHANGED <<aba, varredura>>
      BY <2>3 DEF Registrar
    <3>2. k \in [fase: Fases, sessao: Sess] /\ k.sessao \in Criadas
      BY <2>3 DEF Tipos, Sockets, Fases, Registrar
    <3> HIDE DEF k
    <3>3. QED
      BY <1>1, <3>1, <3>2, UmSocket DEF Tipos, AbasTipo
  <2>4. CASE Cair(a)
    <3>1. "caida" \in Fases /\ "caida" \notin {"admitida", "aberta"}
      BY DEF Fases
    <3>2. QED
      BY <1>3, <2>4, <3>1, FecharSockets DEF Cair, Tipos, AbasTipo
  <2>5. CASE Varrer(a)
    BY <2>5, VarrerTipos
  <2>6. QED
    BY <2>1, <2>2, <2>3, <2>4, <2>5 DEF NoSocket
<1>5. Tipos'
  BY <1>1, <1>2, <1>4, SemHttp
<1>6. QED
  BY <1>1, <1>2, <1>5

LEMMA ExpirarAcessoTipos ==
  ASSUME Tipos, NEW n \in Navegadores, ExpirarAcesso(n)
  PROVE  Tipos'
<1>1. /\ acesso' = [acesso EXCEPT ![n] = 0] /\ falhas' = falhas + 1 /\ falhas < MaxFalhas
      /\ UNCHANGED <<redis, navegador, renovacao, aba, http, socket, varredura>>
  BY DEF ExpirarAcesso
<1>2. Loja' /\ Criadas' = Criadas /\ Sess' = Sess /\ Chamadas' = Chamadas
  BY <1>1, RedisParado
<1>3. falhas' \in 0 .. MaxFalhas
  BY <1>1, SessoesAssumption DEF Tipos
<1>4. 0 \in Sess
  BY DEF Sess
<1>5. Jarras'
  BY <1>1, <1>2, <1>4 DEF Tipos, Jarras
<1>6. Sockets'
  BY <1>1, <1>2, SocketsParados DEF Tipos
<1>7. QED
  BY <1>1, <1>2, <1>3, <1>5, <1>6 DEF Tipos

LEMMA InitTipos == Init => Tipos
<1> SUFFICES ASSUME Init PROVE Tipos
  OBVIOUS
<1>1. 0 \in Sess /\ Criadas = {} /\ Sess = {0} /\ proxima \in 1 .. MaxSessoes + 1
  BY SessoesAssumption DEF Init, Sess, Criadas
<1>2. Loja
  BY <1>1 DEF Init, Loja
<1>3. Jarras
  BY <1>1, SessoesAssumption DEF Init, Jarras
<1>4. Sockets
  <2>1. Fora \in [fase: Fases, sessao: Sess] /\ Fora.fase = "fora"
        /\ ForaDaVarredura \in Vistas
    BY <1>1 DEF Fora, Fases, ForaDaVarredura, Vistas
  <2>2. QED
    BY <2>1 DEF Init, Sockets, Varrendo
<1>5. QED
  BY <1>2, <1>3, <1>4, NenhumaChamada, SessoesAssumption DEF Init, Tipos

LEMMA PassoTipos == Tipos /\ [Next]_vars => Tipos'
<1> SUFFICES ASSUME Tipos, [Next]_vars PROVE Tipos'
  OBVIOUS
<1>1. ASSUME NEW a \in Abas, Servir(a) PROVE Tipos'
  BY <1>1, LeiturasTipos, CriacaoTipos, RevogarMapaTipos, RevogarSessaoTipos DEF Servir
<1>2. ASSUME NEW a \in Abas, Receber(a) \/ Perder(a) PROVE Tipos'
  BY <1>2, ReceberTipos, PerderTipos
<1>3. ASSUME NEW a \in Abas, Chama(a) PROVE Tipos'
  BY <1>3, ChamaTipos
<1>4. ASSUME NEW a \in Abas, NoSocket(a) PROVE Tipos'
  BY <1>4, NoSocketTipos
<1>5. ASSUME NEW n \in Navegadores, ExpirarAcesso(n) PROVE Tipos'
  BY <1>5, ExpirarAcessoTipos
<1>6. CASE UNCHANGED vars
  <2>1. UNCHANGED <<redis, cookies, http, aba, socket, varredura, falhas>>
    BY <1>6 DEF vars
  <2>2. Sockets' /\ AbasTipo' /\ falhas' \in 0 .. MaxFalhas
    BY <2>1, RedisParado, SocketsParados DEF Tipos, AbasTipo
  <2>3. QED
    BY <2>1, <2>2, SemHttp
<1>7. QED
  BY <1>1, <1>2, <1>3, <1>4, <1>5, <1>6 DEF Next, Chama, NoSocket

(***************************************************************************)
(* The store and the tabs only hold sessions that have been created, a     *)
(* marker leads to a later one, and the bounds hold.                       *)
(***************************************************************************)
THEOREM TiposDasSessoes == Spec => []TypeOK
<1>1. Tipos => TypeOK
  <2> SUFFICES ASSUME Tipos PROVE TypeOK
    OBVIOUS
  <2>1. \A n \in Navegadores : {acesso[n], renovacao[n]} \subseteq {0} \cup Criadas
    BY DEF Tipos, Jarras, Sess
  <2>2. ASSUME NEW a \in Abas
        PROVE  /\ aba[a] \in {"visitante", "carregando", "autenticada"}
               /\ socket[a].fase \in {"fora", "caida", "abrindo", "admitida", "aberta"}
               /\ {socket[a].sessao, http[a].sessao} \subseteq {0} \cup Criadas
    BY DEF Tipos, Sockets, Fases, Chamadas, Sess
  <2>3. QED
    BY <2>1, <2>2 DEF Tipos, Loja, Sess, TypeOK
<1>2. Spec => []Tipos
  BY InitTipos, PassoTipos, PTL DEF Spec
<1>3. QED
  BY <1>1, <1>2, PTL

-----------------------------------------------------------------------------
(* One session.                                                            *)

LEMMA StoreParado ==
  ASSUME Tipos, [Next]_vars,
         ~ \E a \in Abas : Rotacionar(a) \/ ServirLogin(a) \/ RevogarMapa(a) \/ RevogarSessao(a)
  PROVE  UNCHANGED redis
<1>1. ASSUME NEW a \in Abas, Servir(a) PROVE UNCHANGED redis
  BY <1>1, ServirLeituras DEF Servir
<1>2. ASSUME NEW a \in Abas, Receber(a) \/ Perder(a) PROVE UNCHANGED redis
  BY <1>2 DEF Receber, Perder
<1>3. ASSUME NEW a \in Abas, Chama(a) PROVE UNCHANGED redis
  BY <1>3, ChamaForma
<1>4. ASSUME NEW a \in Abas, NoSocket(a) PROVE UNCHANGED redis
  BY <1>4, NoSocketTipos
<1>5. ASSUME NEW n \in Navegadores, ExpirarAcesso(n) PROVE UNCHANGED redis
  BY <1>5 DEF ExpirarAcesso
<1>6. CASE UNCHANGED vars
  BY <1>6 DEF vars
<1>7. QED
  BY <1>1, <1>2, <1>3, <1>4, <1>5, <1>6 DEF Next, Chama, NoSocket

(* The four ways the store changes.                                        *)
LEMMA StoreMuda ==
  ASSUME Tipos, [Next]_vars
  PROVE  \/ UNCHANGED redis
         \/ CriarSessao
         \/ \E s : RotacionarSessao(s) /\ Rotacionavel(s)
         \/ \E s : ApagarMapa(s)
         \/ \E s : ApagarSessao(s)
<1>1. ASSUME NEW a \in Abas, Rotacionar(a) \/ ServirLogin(a)
      PROVE  UNCHANGED redis \/ CriarSessao \/ \E s : RotacionarSessao(s) /\ Rotacionavel(s)
  BY <1>1, CriacaoForma
<1>2. ASSUME NEW a \in Abas, RevogarMapa(a) PROVE \E s : ApagarMapa(s)
  BY <1>2 DEF RevogarMapa
<1>3. ASSUME NEW a \in Abas, RevogarSessao(a) PROVE \E s : ApagarSessao(s)
  BY <1>3 DEF RevogarSessao
<1>4. QED
  BY <1>1, <1>2, <1>3, StoreParado

(***************************************************************************)
(* At most one session of the Jogador lives and is not an orphan of a      *)
(* logout: the one the mapping holds.  A login revokes what the mapping    *)
(* holds and a refresh only rotates what the mapping holds.                *)
(***************************************************************************)
THEOREM UmaSessaoAtiva == Spec => []SessaoUnica
<1>1. Init => SessaoUnica
  BY DEF Init, SessaoUnica
<1>2. ASSUME Tipos, SessaoUnica, [Next]_vars PROVE SessaoUnica'
  <2>1. CASE UNCHANGED redis
    BY <1>2, <2>1 DEF SessaoUnica, redis
  <2>2. CASE CriarSessao
    BY <1>2, <2>2 DEF SessaoUnica, CriarSessao
  <2>3. ASSUME NEW s, RotacionarSessao(s), Rotacionavel(s) PROVE SessaoUnica'
    BY <1>2, <2>3 DEF SessaoUnica, RotacionarSessao, Rotacionavel
  <2>4. ASSUME NEW s, ApagarMapa(s) PROVE SessaoUnica'
    BY <1>2, <2>4 DEF SessaoUnica, ApagarMapa
  <2>5. ASSUME NEW s, ApagarSessao(s) PROVE SessaoUnica'
    BY <1>2, <2>5 DEF SessaoUnica, ApagarSessao
  <2>6. QED
    BY <1>2, <2>1, <2>2, <2>3, <2>4, <2>5, StoreMuda
<1>3. Tipos /\ SessaoUnica /\ [Next]_vars => Tipos' /\ SessaoUnica'
  BY <1>2, PassoTipos
<1>4. QED
  BY <1>1, <1>3, InitTipos, PTL DEF Spec

-----------------------------------------------------------------------------
(* The sweep.                                                              *)

(* P is what a sweep has passed on its way from i to t, one session for    *)
(* each of its n hops: whatever follows i on every way follows P.          *)
Passou(P, i, t, n) ==
  /\ i \in P /\ P \cap vivas = {} /\ Cardinality(P) = n
  /\ \A x \in P : marcador[x] \in P \cup {t} /\ x < t
  /\ \A S \in SUBSET Ids : i \in S /\ (\A x \in P \cap S : marcador[x] \in S \cup {0})
                             => P \cup {t} \subseteq S

Caminho(i, t, n) == \E P \in SUBSET Criadas : Passou(P, i, t, n)

Caminhos ==
  \A a \in Abas : Varrendo(a) =>
    Caminho(varredura[a].inicio, varredura[a].sessao, varredura[a].saltos)

(* What was passed stays passed: the dead stay dead and their markers.     *)
LEMMA PassouFica ==
  ASSUME Tipos, [Next]_vars, NEW P \in SUBSET Criadas, NEW i, NEW t, NEW n, Passou(P, i, t, n)
  PROVE  P \in SUBSET Criadas' /\ Passou(P, i, t, n)'
<1>1. \A x \in P : x # proxima /\ x \in Ids
  BY CriadasSaoIds DEF Tipos
<1>2. CASE UNCHANGED redis
  BY <1>2 DEF Passou, redis, Criadas
<1>3. CASE CriarSessao
  <2>1. proxima' = proxima + 1 /\ vivas' \subseteq vivas \cup {proxima} /\ marcador' = marcador
    BY <1>3 DEF CriarSessao
  <2>2. P \in SUBSET Criadas'
    BY <2>1, Crescem DEF Tipos
  <2>3. P \cap vivas' = {}
    BY <1>1, <2>1 DEF Passou
  <2>4. QED
    BY <2>1, <2>2, <2>3 DEF Passou
<1>4. ASSUME NEW s, RotacionarSessao(s), Rotacionavel(s)
      PROVE  P \in SUBSET Criadas' /\ Passou(P, i, t, n)'
  <2>1. /\ proxima' = proxima + 1 /\ vivas' \subseteq vivas \cup {proxima}
        /\ marcador' = [marcador EXCEPT ![s] = proxima] /\ s \in vivas
    BY <1>4 DEF RotacionarSessao, Rotacionavel
  <2>2. P \in SUBSET Criadas'
    BY <2>1, Crescem DEF Tipos
  <2>3. P \cap vivas' = {}
    BY <1>1, <2>1 DEF Passou
  <2>4. \A x \in P : marcador'[x] = marcador[x]
    BY <1>1, <2>1 DEF Passou, Tipos, Loja
  <2>5. QED
    BY <2>2, <2>3, <2>4 DEF Passou
<1>5. ASSUME NEW s, ApagarMapa(s) \/ ApagarSessao(s)
      PROVE  P \in SUBSET Criadas' /\ Passou(P, i, t, n)'
  BY <1>5 DEF ApagarMapa, ApagarSessao, Passou, Criadas
<1>6. QED
  BY <1>2, <1>3, <1>4, <1>5, StoreMuda

LEMMA CaminhoFica ==
  ASSUME Tipos, [Next]_vars, NEW i, NEW t, NEW n, Caminho(i, t, n)
  PROVE  Caminho(i, t, n)'
<1>1. PICK P \in SUBSET Criadas : Passou(P, i, t, n)
  BY DEF Caminho
<1>2. P \in SUBSET Criadas' /\ Passou(P, i, t, n)'
  BY <1>1, PassouFica
<1>3. QED
  BY <1>2 DEF Caminho

LEMMA CaminhoPassa ==
  ASSUME Tipos, [Next]_vars, NEW b \in Abas, NEW i, NEW t, NEW n, Caminho(i, t, n),
         varredura'[b].inicio = i, varredura'[b].sessao = t, varredura'[b].saltos = n
  PROVE  Caminho(varredura[b].inicio, varredura[b].sessao, varredura[b].saltos)'
<1>1. Caminho(i, t, n)'
  BY CaminhoFica
<1>2. QED
  BY <1>1 DEF Caminho, Passou

(* A sweep at a dead session has passed all there is between.              *)
Trilha(P, v) ==
  /\ {v.inicio, v.sessao} \subseteq P /\ P \cap vivas = {}
  /\ Cardinality(P) = v.saltos + 1
  /\ \A x \in P : x = v.sessao \/ (marcador[x] \in P /\ x < v.sessao)
  /\ \A S \in SUBSET Ids : v.inicio \in S /\ (\A x \in P \cap S : marcador[x] \in S \cup {0})
                             => P \subseteq S

LEMMA CriadasFinitas ==
  ASSUME Loja, NEW P \in SUBSET Criadas
  PROVE  IsFiniteSet(P) /\ P \subseteq Ids /\ P \subseteq Nat
<1>1. Criadas \subseteq Ids /\ Ids \subseteq Nat
  BY CriadasSaoIds DEF Ids
<1>2. IsFiniteSet(Ids)
  BY FS_Interval, SessoesAssumption DEF Ids
<1>3. QED
  BY <1>1, <1>2, FS_Subset

LEMMA AteAqui ==
  ASSUME Tipos, Caminhos, NEW a \in Abas, Aberta(a), Vista(a).sessao \notin vivas
  PROVE  \E P \in SUBSET Criadas : Trilha(P, Vista(a))
<1> DEFINE v == Vista(a)
           i == v.inicio
           s == v.sessao
<1>1. v \in Vistas /\ i \in Criadas /\ s \in Criadas /\ (~Varrendo(a) => i = s /\ v.saltos = 0)
  BY VistaTipo
<1>2. v.saltos \in Nat /\ s \in Nat
  BY <1>1, CriadasSaoIds DEF Vistas, Tipos, Ids
<1>3. CASE Varrendo(a)
  <2>1. Caminho(i, s, v.saltos)
    BY <1>3 DEF Caminhos, Vista
  <2> HIDE DEF v
  <2>2. PICK Q \in SUBSET Criadas : Passou(Q, i, s, v.saltos)
    BY <2>1 DEF Caminho
  <2> DEFINE P == Q \cup {s}
  <2>3. P \in SUBSET Criadas /\ s \notin Q
    BY <1>1, <1>2, <2>2 DEF Passou
  <2>4. Cardinality(P) = v.saltos + 1
    BY <2>2, <2>3, CriadasFinitas, FS_AddElement DEF Passou, Tipos
  <2>5. {i, s} \subseteq P /\ P \cap vivas = {}
        /\ \A x \in P : x = s \/ (marcador[x] \in P /\ x < s)
    BY <2>2 DEF Passou, v
  <2>6. \A S \in SUBSET Ids : i \in S /\ (\A x \in P \cap S : marcador[x] \in S \cup {0}) => P \subseteq S
    BY <2>2 DEF Passou
  <2>7. QED
    BY <2>3, <2>4, <2>5, <2>6 DEF Trilha, v
<1>4. CASE ~Varrendo(a)
  <2> HIDE DEF v
  <2>1. {s} \in SUBSET Criadas /\ i = s /\ v.saltos = 0
    BY <1>1, <1>4
  <2>2. Cardinality({s}) = 1
    BY FS_Singleton
  <2>3. Trilha({s}, v)
    BY <2>1, <2>2 DEF Trilha, v
  <2>4. QED
    BY <2>1, <2>3 DEF v
<1>5. QED
  BY <1>3, <1>4

LEMMA VarrerCaminhos ==
  ASSUME Tipos, Caminhos, [Next]_vars, NEW a \in Abas, Varrer(a)
  PROVE  Caminhos'
<1> SUFFICES ASSUME NEW b \in Abas, Varrendo(b)'
             PROVE  Caminho(varredura[b].inicio, varredura[b].sessao, varredura[b].saltos)'
  BY DEF Caminhos
<1> DEFINE v == Vista(a)
           s == v.sessao
<1>1. Aberta(a) /\ UNCHANGED redis
  BY DEF Varrer
<1>2. \A c \in Abas \ {a} : varredura'[c] = varredura[c]
  BY DEF Varrer, Derrubar, Fechar, Tipos, Sockets
<1>3. CASE b # a
  <2>1. varredura'[b] = varredura[b] /\ Varrendo(b)
    BY <1>2, <1>3 DEF Varrendo
  <2>2. PICK i, t, n : /\ i = varredura[b].inicio /\ t = varredura[b].sessao
                        /\ n = varredura[b].saltos /\ Caminho(i, t, n)
    BY <2>1 DEF Caminhos
  <2>3. QED
    BY <2>1, <2>2, CaminhoPassa
<1>4. CASE b = a
  <2>1. s \notin vivas /\ ~SemSaida(v)
    BY <1>4 DEF Varrer, Derrubar, Fechar, Varrendo, Tipos, Sockets
  <2>2. varredura'[a] = Salto(v)
    BY <2>1 DEF Varrer, Tipos, Sockets
  <2>3. v \in Vistas /\ v.inicio \in Criadas /\ s \in Criadas
    BY <1>1, VistaTipo
  <2>4. PICK P \in SUBSET Criadas : Trilha(P, v)
    BY <1>1, <2>1, AteAqui
  <2> HIDE DEF v
  <2>5. PICK i, t, n : i = v.inicio /\ t = marcador[s] /\ n = v.saltos + 1
    OBVIOUS
  <2>6. /\ varredura'[a].inicio = i /\ varredura'[a].sessao = t /\ varredura'[a].saltos = n
        /\ t \in Criadas /\ s < t
    BY <2>1, <2>2, <2>3, <2>5, SaltoTipo
  <2>7. P \subseteq Nat /\ s \in Nat /\ t \in Nat /\ s \in P /\ t # 0
    BY <2>3, <2>4, <2>6, CriadasFinitas, CriadasSaoIds DEF Tipos, Trilha, Ids
  <2>8. i \in P /\ P \cap vivas = {} /\ Cardinality(P) = n
    BY <2>4, <2>5 DEF Trilha
  <2>9. \A x \in P : marcador[x] \in P \cup {t} /\ x < t
    BY <2>4, <2>5, <2>6, <2>7 DEF Trilha
  <2>10. ASSUME NEW S \in SUBSET Ids, i \in S, \A x \in P \cap S : marcador[x] \in S \cup {0}
         PROVE  P \cup {t} \subseteq S
    BY <2>4, <2>5, <2>7, <2>10 DEF Trilha
  <2>11. Passou(P, i, t, n)
    BY <2>8, <2>9, <2>10 DEF Passou
  <2>12. Caminho(i, t, n)
    BY <2>11 DEF Caminho
  <2>13. QED
    BY <1>4, <2>6, <2>12, CaminhoPassa
<1>5. QED
  BY <1>3, <1>4

(* No other step starts a sweep or moves one; some end it.                 *)
LEMMA OutrosCaminhos ==
  ASSUME Tipos, Caminhos, [Next]_vars,
         \A a \in Abas : varredura'[a] \in {varredura[a], ForaDaVarredura}
  PROVE  Caminhos'
<1> SUFFICES ASSUME NEW b \in Abas, Varrendo(b)'
             PROVE  Caminho(varredura[b].inicio, varredura[b].sessao, varredura[b].saltos)'
  BY DEF Caminhos
<1>1. varredura'[b] = varredura[b] /\ Varrendo(b)
  BY DEF Varrendo
<1>2. PICK i, t, n : /\ i = varredura[b].inicio /\ t = varredura[b].sessao
                        /\ n = varredura[b].saltos /\ Caminho(i, t, n)
  BY <1>1 DEF Caminhos
<1>3. QED
  BY <1>1, <1>2, CaminhoPassa

LEMMA FecharVarredura ==
  ASSUME NEW S, NEW f, Fechar(S, f)
  PROVE  \A a \in Abas : varredura'[a] \in {varredura[a], ForaDaVarredura}
  BY DEF Fechar

LEMMA VarreduraFica ==
  ASSUME Tipos, [Next]_vars, ~ \E a \in Abas : Varrer(a)
  PROVE  \A a \in Abas : varredura'[a] \in {varredura[a], ForaDaVarredura}
<1>1. CASE varredura' = varredura
  BY <1>1
<1>2. CASE \E S, f : Fechar(S, f)
  BY <1>2, FecharVarredura
<1>3. ASSUME NEW a \in Abas, Servir(a) PROVE varredura' = varredura \/ \E S, f : Fechar(S, f)
  <2>1. CASE Rotacionar(a) \/ ServirLogin(a)
    BY <2>1, CriacaoForma DEF Derrubar
  <2>2. CASE RevogarMapa(a) \/ RevogarSessao(a)
    BY <2>2 DEF RevogarMapa, RevogarSessao, Derrubar
  <2>3. QED
    BY <1>3, <2>1, <2>2, ServirLeituras DEF Servir
<1>4. ASSUME NEW a \in Abas, Receber(a) \/ Perder(a)
      PROVE  varredura' = varredura \/ \E S, f : Fechar(S, f)
  BY <1>4 DEF Receber, Perder, Concluir
<1>5. ASSUME NEW a \in Abas, Chama(a) PROVE varredura' = varredura \/ \E S, f : Fechar(S, f)
  BY <1>5 DEF Chama, Recarregar, Entrar, Sair, Deslizar, Reconectar
<1>6. ASSUME NEW a \in Abas, Conectar(a) \/ Autenticar(a) \/ Registrar(a) \/ Cair(a)
      PROVE  varredura' = varredura \/ \E S, f : Fechar(S, f)
  BY <1>6 DEF Conectar, Autenticar, Registrar, Cair, Derrubar
<1>7. ASSUME NEW n \in Navegadores, ExpirarAcesso(n) PROVE varredura' = varredura
  BY <1>7 DEF ExpirarAcesso
<1>8. UNCHANGED vars => varredura' = varredura
  BY DEF vars
<1>9. QED
  BY <1>1, <1>2, <1>3, <1>4, <1>5, <1>6, <1>7, <1>8 DEF Next, Chama

(* At a dead end nothing that follows lives.                               *)
LEMMA SemVolta ==
  ASSUME Tipos, NEW v, NEW P \in SUBSET Criadas, Trilha(P, v), marcador[v.sessao] = 0
  PROVE  ~Alcanca(v.inicio)
<1>1. P \in SUBSET Ids /\ Fechado(P) /\ v.inicio \in P /\ P \cap vivas = {}
  BY CriadasFinitas DEF Tipos, Trilha, Fechado
<1>2. Seguintes(v.inicio) \subseteq P
  BY <1>1 DEF Seguintes
<1>3. QED
  BY <1>1, <1>2 DEF Alcanca

(* A living session that follows what was passed is one more rotation.     *)
LEMMA LongeDemais ==
  ASSUME Tipos, NEW v, NEW P \in SUBSET Criadas, Trilha(P, v), v.saltos = MaxSaltos,
         Alcanca(v.inicio)
  PROVE  Cardinality(Seguintes(v.inicio) \ {v.inicio}) > MaxSaltos
<1> DEFINE i == v.inicio
           L == Seguintes(i) \ {i}
<1>1. PICK y \in Seguintes(i) : y \in vivas
  BY DEF Alcanca
<1>2. P \subseteq Seguintes(i) /\ i \in P /\ y \notin P
  <2>1. P \subseteq Ids
    BY CriadasFinitas DEF Tipos
  <2>2. \A S \in SUBSET Ids : i \in S /\ Fechado(S) => P \subseteq S
    BY DEF Trilha, Fechado
  <2>3. QED
    BY <1>1, <2>1, <2>2 DEF Seguintes, Trilha
<1> DEFINE Q == (P \ {i}) \cup {y}
<1>3. IsFiniteSet(P) /\ Cardinality(P) = MaxSaltos + 1
  BY CriadasFinitas DEF Tipos, Trilha
<1> HIDE DEF L, Q
<1>4. IsFiniteSet(P \ {i}) /\ Cardinality(P \ {i}) = MaxSaltos
  <2>1. IsFiniteSet(P \ {i}) /\ Cardinality(P \ {i}) = Cardinality(P) - 1
    BY <1>2, <1>3, FS_RemoveElement
  <2>2. MaxSaltos \in Nat
    BY SessoesAssumption
  <2>3. QED
    BY <1>3, <2>1, <2>2
<1>5. IsFiniteSet(Q) /\ Cardinality(Q) = MaxSaltos + 1
  BY <1>2, <1>4, FS_AddElement DEF Q
<1>6. IsFiniteSet(L) /\ Q \subseteq L
  <2>1. IsFiniteSet(Ids)
    BY FS_Interval, SessoesAssumption DEF Ids
  <2>2. QED
    BY <1>1, <1>2, <2>1, FS_Subset DEF Seguintes, Alcanca, Trilha, L, Q
<1>7. Cardinality(Q) <= Cardinality(L) /\ Cardinality(L) \in Nat
  BY <1>6, FS_Subset, FS_CardinalityType
<1>8. QED
  BY <1>5, <1>7, SessoesAssumption DEF L

(***************************************************************************)
(* A revalidation that ends a socket found no living session within the    *)
(* limit of rotations after the one the socket held, whatever rotated      *)
(* while it walked.                                                        *)
(***************************************************************************)
THEOREM VarreduraNaoErra == Spec => RevalidacaoPreserva
<1>1. Init => Caminhos
  BY DEF Init, Caminhos, Varrendo
<1>2. Tipos /\ Caminhos /\ [Next]_vars => Tipos' /\ Caminhos'
  BY PassoTipos, VarrerCaminhos, OutrosCaminhos, VarreduraFica
<1>3. ASSUME Tipos, Caminhos, NEW a \in Abas, Varrer(a), Aberta(a), socket'[a].fase = "fora"
      PROVE  ~AlcancaNoTeto(Vista(a).inicio)
  <2>1. Vista(a).sessao \notin vivas /\ SemSaida(Vista(a))
    BY <1>3 DEF Varrer, Aberta, Tipos, Sockets
  <2>2. PICK P \in SUBSET Criadas : Trilha(P, Vista(a))
    BY <1>3, <2>1, AteAqui
  <2>3. CASE marcador[Vista(a).sessao] = 0
    BY <1>3, <2>2, <2>3, SemVolta DEF AlcancaNoTeto
  <2>4. CASE Vista(a).saltos = MaxSaltos
    <3>1. SUFFICES ASSUME Alcanca(Vista(a).inicio)
                   PROVE  ~(Cardinality(Seguintes(Vista(a).inicio) \ {Vista(a).inicio}) <= MaxSaltos)
      BY DEF AlcancaNoTeto
    <3>2. Cardinality(Seguintes(Vista(a).inicio) \ {Vista(a).inicio}) > MaxSaltos
      BY <1>3, <2>2, <2>4, <3>1, LongeDemais
    <3>3. Cardinality(Seguintes(Vista(a).inicio) \ {Vista(a).inicio}) \in Nat
      <4>1. IsFiniteSet(Ids)
        BY FS_Interval, SessoesAssumption DEF Ids
      <4>2. QED
        BY <4>1, FS_Subset, FS_CardinalityType DEF Seguintes
    <3>4. QED
      BY <3>2, <3>3, SessoesAssumption
  <2>5. QED
    BY <2>1, <2>3, <2>4 DEF SemSaida
<1>4. Tipos /\ Caminhos /\ [Next]_vars =>
        [\A a \in Abas : Varrer(a) /\ Aberta(a) /\ socket'[a].fase = "fora"
                           => ~AlcancaNoTeto(Vista(a).inicio)]_vars
  BY <1>3
<1>5. QED
  BY <1>1, <1>2, <1>4, InitTipos, PTL DEF Spec, RevalidacaoPreserva

-----------------------------------------------------------------------------
(* The cookies.                                                            *)

Traz(a) == http[a].em = "volta" /\ http[a].poe # <<>>
NoFio(a) == IF Traz(a) THEN http[a].poe[1] ELSE 0

JuntasNaJarra == \A n \in Navegadores : acesso[n] = renovacao[n]

(* What an answer brings is still unknown to everybody and not rotated.    *)
NovasNoFio ==
  \A a \in Abas : NoFio(a) # 0 =>
    /\ marcador[NoFio(a)] = 0
    /\ \A n \in Navegadores : renovacao[n] # NoFio(a)
    /\ \A b \in Abas : http[b].sessao # NoFio(a) /\ (b # a => NoFio(b) # NoFio(a))

(* A session is known to one browser.                                      *)
UmNavegador ==
  /\ \A a, b \in Abas : http[a].sessao # 0 /\ http[a].sessao = http[b].sessao
                          => navegador[a] = navegador[b]
  /\ \A a \in Abas, n \in Navegadores : http[a].sessao # 0 /\ http[a].sessao = renovacao[n]
                                          => navegador[a] = n
  /\ \A n, m \in Navegadores : renovacao[n] # 0 /\ renovacao[n] = renovacao[m] => n = m

(* Cookies that have been replaced are about to be.                        *)
RespostaVem ==
  \A n \in Navegadores : renovacao[n] # 0 /\ marcador[renovacao[n]] # 0
                           => \E a \in Abas : navegador[a] = n /\ Traz(a)

Cookies == JuntasNaJarra /\ NovasNoFio /\ UmNavegador /\ RespostaVem

LEMMA NoFioTipo ==
  ASSUME Tipos, NEW a \in Abas
  PROVE  NoFio(a) \in Sess
<1>1. http[a].poe \in Poe(Sess) /\ 0 \in Sess
  BY DEF Tipos, Chamadas, Sess
<1>2. http[a].poe = <<>> \/ \E x \in Sess : http[a].poe = <<x>>
  BY <1>1 DEF Poe
<1>3. QED
  BY <1>1, <1>2 DEF NoFio, Traz

(* A call that brings no session changes, and asks with what it already    *)
(* had or with what the jar of its browser holds.                          *)
LEMMA SoPergunta ==
  ASSUME Tipos, Cookies, NEW a \in Abas, NEW h, http' = [http EXCEPT ![a] = h],
         UNCHANGED <<marcador, cookies>>, ~Traz(a),
         h.em # "volta" \/ h.poe = <<>> \/ h.poe = << 0 >>,
         h.sessao \in {0, http[a].sessao, acesso[navegador[a]], renovacao[navegador[a]]}
  PROVE  Cookies'
<1> DEFINE n == navegador[a]
<1>1. UNCHANGED <<navegador, acesso, renovacao, marcador>> /\ n \in Navegadores
  BY DEF cookies, Tipos, Jarras
<1>2. http'[a] = h /\ \A b \in Abas \ {a} : http'[b] = http[b]
  BY DEF Tipos
<1>3. NoFio(a)' = 0
  BY <1>2 DEF NoFio, Traz
<1>4. \A b \in Abas \ {a} : NoFio(b)' = NoFio(b) /\ Traz(b)' = Traz(b)
  BY <1>2 DEF NoFio, Traz
<1>5. http'[a].sessao \in {0, http[a].sessao, renovacao[n]}
  BY <1>1, <1>2 DEF Cookies, JuntasNaJarra
<1>6. JuntasNaJarra'
  BY <1>1 DEF Cookies, JuntasNaJarra
<1>7. NovasNoFio'
  <2> SUFFICES ASSUME NEW b \in Abas, NoFio(b)' # 0
               PROVE  /\ marcador'[NoFio(b)'] = 0
                      /\ \A m \in Navegadores : renovacao'[m] # NoFio(b)'
                      /\ \A c \in Abas : http'[c].sessao # NoFio(b)' /\ (c # b => NoFio(c)' # NoFio(b)')
    BY DEF NovasNoFio
  <2>1. b # a /\ NoFio(b)' = NoFio(b)
    BY <1>3, <1>4
  <2>2. /\ marcador[NoFio(b)] = 0
        /\ \A m \in Navegadores : renovacao[m] # NoFio(b)
        /\ \A c \in Abas : http[c].sessao # NoFio(b) /\ (c # b => NoFio(c) # NoFio(b))
    BY <2>1 DEF Cookies, NovasNoFio
  <2>3. ASSUME NEW c \in Abas
        PROVE  http'[c].sessao # NoFio(b) /\ (c # b => NoFio(c)' # NoFio(b))
    <3>1. CASE c = a
      BY <1>1, <1>3, <1>5, <2>1, <2>2, <3>1
    <3>2. CASE c # a
      BY <1>2, <1>4, <2>2, <3>2
    <3>3. QED
      BY <3>1, <3>2
  <2>4. QED
    BY <1>1, <2>1, <2>2, <2>3
<1>8. UmNavegador'
  <2>1. ASSUME NEW b \in Abas, NEW c \in Abas, http'[b].sessao # 0, http'[b].sessao = http'[c].sessao
        PROVE  navegador[b] = navegador[c]
    BY <1>1, <1>2, <1>5, <2>1 DEF Cookies, UmNavegador
  <2>2. ASSUME NEW b \in Abas, NEW m \in Navegadores, http'[b].sessao # 0,
               http'[b].sessao = renovacao[m]
        PROVE  navegador[b] = m
    BY <1>1, <1>2, <1>5, <2>2 DEF Cookies, UmNavegador
  <2>3. QED
    BY <1>1, <2>1, <2>2 DEF Cookies, UmNavegador
<1>9. RespostaVem'
  <2> SUFFICES ASSUME NEW m \in Navegadores, renovacao[m] # 0, marcador[renovacao[m]] # 0
               PROVE  \E b \in Abas : navegador[b] = m /\ Traz(b)'
    BY <1>1 DEF RespostaVem
  <2>1. PICK b \in Abas : navegador[b] = m /\ Traz(b)
    BY DEF Cookies, RespostaVem
  <2>2. b # a
    BY <2>1
  <2>3. QED
    BY <1>4, <2>1, <2>2
<1>10. QED
  BY <1>6, <1>7, <1>8, <1>9 DEF Cookies

(* A session is created and its answer brings it; at most the session the  *)
(* call asked with, one that lives, gets a marker.                         *)
LEMMA CriaEResponde ==
  ASSUME Tipos, Cookies, NEW a \in Abas, NEW h, http' = [http EXCEPT ![a] = h],
         UNCHANGED cookies, proxima <= MaxSessoes,
         h.em = "volta", h.poe = <<proxima>>, h.sessao = http[a].sessao,
         \/ marcador' = marcador
         \/ http[a].sessao \in vivas /\ marcador' = [marcador EXCEPT ![http[a].sessao] = proxima]
  PROVE  Cookies'
<1>1. UNCHANGED <<navegador, acesso, renovacao>>
  BY DEF cookies
<1>2. http'[a] = h /\ \A b \in Abas \ {a} : http'[b] = http[b]
  BY DEF Tipos
<1>3. Traz(a)' /\ NoFio(a)' = proxima
  BY <1>2 DEF NoFio, Traz
<1>4. \A b \in Abas \ {a} : NoFio(b)' = NoFio(b) /\ Traz(b)' = Traz(b)
  BY <1>2 DEF NoFio, Traz
<1>5. \A b \in Abas : http'[b].sessao = http[b].sessao
  BY <1>2
<1>6. proxima \notin Sess /\ proxima \in Ids /\ marcador[proxima] = 0 /\ Criadas \subseteq Ids
      /\ (\A s \in Criadas : s # proxima) /\ proxima # 0
  BY CriadasSaoIds DEF Tipos
<1>7. \A s \in Ids : s # http[a].sessao => marcador'[s] = marcador[s]
  BY DEF Tipos, Loja
<1>8. /\ \A n \in Navegadores : renovacao[n] \in Sess
      /\ \A b \in Abas : http[b].sessao \in Sess /\ NoFio(b) \in Sess
  BY NoFioTipo DEF Tipos, Jarras, Chamadas
<1>9. JuntasNaJarra'
  BY <1>1 DEF Cookies, JuntasNaJarra
<1>10. NovasNoFio'
  <2> SUFFICES ASSUME NEW b \in Abas, NoFio(b)' # 0
               PROVE  /\ marcador'[NoFio(b)'] = 0
                      /\ \A m \in Navegadores : renovacao'[m] # NoFio(b)'
                      /\ \A c \in Abas : http'[c].sessao # NoFio(b)' /\ (c # b => NoFio(c)' # NoFio(b)')
    BY DEF NovasNoFio
  <2>1. CASE b = a
    <3>1. marcador'[proxima] = 0
      BY <1>6, <1>7, <1>8
    <3>2. \A c \in Abas : c # a => NoFio(c)' # proxima
      BY <1>4, <1>6, <1>8
    <3>3. QED
      BY <1>1, <1>3, <1>5, <1>6, <1>8, <2>1, <3>1, <3>2
  <2>2. CASE b # a
    <3>1. NoFio(b)' = NoFio(b) /\ NoFio(b) # 0
      BY <1>4, <2>2
    <3>2. /\ marcador[NoFio(b)] = 0
          /\ \A m \in Navegadores : renovacao[m] # NoFio(b)
          /\ \A c \in Abas : http[c].sessao # NoFio(b) /\ (c # b => NoFio(c) # NoFio(b))
      BY <3>1 DEF Cookies, NovasNoFio
    <3>3. NoFio(b) \in Ids
      BY <1>6, <1>8, <3>1 DEF Sess
    <3>4. marcador'[NoFio(b)] = 0
      BY <1>7, <3>2, <3>3
    <3>5. ASSUME NEW c \in Abas, c # b PROVE NoFio(c)' # NoFio(b)
      BY <1>3, <1>4, <1>6, <1>8, <3>2, <3>5
    <3>6. QED
      BY <1>1, <1>5, <3>1, <3>2, <3>4, <3>5
  <2>3. QED
    BY <2>1, <2>2
<1>11. UmNavegador'
  BY <1>1, <1>5 DEF Cookies, UmNavegador
<1>12. RespostaVem'
  <2> SUFFICES ASSUME NEW m \in Navegadores, renovacao[m] # 0, marcador'[renovacao[m]] # 0
               PROVE  \E b \in Abas : navegador[b] = m /\ Traz(b)'
    BY <1>1 DEF RespostaVem
  <2>1. CASE renovacao[m] = http[a].sessao
    BY <1>3, <2>1 DEF Cookies, UmNavegador
  <2>2. CASE renovacao[m] # http[a].sessao
    <3>1. renovacao[m] \in Ids
      BY <1>6, <1>8 DEF Sess
    <3>2. marcador[renovacao[m]] # 0
      BY <1>7, <2>2, <3>1
    <3>3. PICK b \in Abas : navegador[b] = m /\ Traz(b)
      BY <3>2 DEF Cookies, RespostaVem
    <3>4. QED
      BY <1>3, <1>4, <3>3
  <2>3. QED
    BY <2>1, <2>2
<1>13. QED
  BY <1>9, <1>10, <1>11, <1>12 DEF Cookies

(* An answer arrives and the jar takes what it brings.                     *)
LEMMA JarraRecebe ==
  ASSUME Tipos, Cookies, NEW a \in Abas, NEW h, http' = [http EXCEPT ![a] = h],
         UNCHANGED <<navegador, marcador>>, NEW x \in Sess,
         http[a].em = "volta", http[a].poe = <<x>>,
         acesso' = [acesso EXCEPT ![navegador[a]] = x],
         renovacao' = [renovacao EXCEPT ![navegador[a]] = x],
         h.em # "volta", h.sessao \in {0, x}
  PROVE  Cookies'
<1> DEFINE n == navegador[a]
<1>1. n \in Navegadores /\ renovacao'[n] = x
      /\ \A m \in Navegadores \ {n} : renovacao'[m] = renovacao[m]
  BY DEF Tipos, Jarras
<1>2. http'[a] = h /\ \A b \in Abas \ {a} : http'[b] = http[b]
  BY DEF Tipos
<1>3. NoFio(a)' = 0
  BY <1>2 DEF NoFio, Traz
<1>4. \A b \in Abas \ {a} : NoFio(b)' = NoFio(b) /\ Traz(b)' = Traz(b)
  BY <1>2 DEF NoFio, Traz
<1>5. NoFio(a) = x
  BY DEF NoFio, Traz
<1>6. x # 0 => /\ marcador[x] = 0 /\ \A m \in Navegadores : renovacao[m] # x
               /\ \A b \in Abas : http[b].sessao # x /\ (b # a => NoFio(b) # x)
  BY <1>5 DEF Cookies, NovasNoFio
<1>7. JuntasNaJarra'
  BY DEF Cookies, JuntasNaJarra, Tipos, Jarras
<1>8. NovasNoFio'
  <2> SUFFICES ASSUME NEW b \in Abas, NoFio(b)' # 0
               PROVE  /\ marcador'[NoFio(b)'] = 0
                      /\ \A m \in Navegadores : renovacao'[m] # NoFio(b)'
                      /\ \A c \in Abas : http'[c].sessao # NoFio(b)' /\ (c # b => NoFio(c)' # NoFio(b)')
    BY DEF NovasNoFio
  <2>1. b # a /\ NoFio(b)' = NoFio(b)
    BY <1>3, <1>4
  <2>2. /\ marcador[NoFio(b)] = 0
        /\ \A m \in Navegadores : renovacao[m] # NoFio(b)
        /\ \A c \in Abas : http[c].sessao # NoFio(b) /\ (c # b => NoFio(c) # NoFio(b))
    BY <2>1 DEF Cookies, NovasNoFio
  <2>3. x # NoFio(b)
    BY <1>6, <2>1
  <2>4. ASSUME NEW c \in Abas
        PROVE  http'[c].sessao # NoFio(b) /\ (c # b => NoFio(c)' # NoFio(b))
    <3>1. CASE c = a
      BY <1>2, <1>3, <2>1, <2>3, <3>1
    <3>2. CASE c # a
      BY <1>2, <1>4, <2>2, <3>2
    <3>3. QED
      BY <3>1, <3>2
  <2>5. \A m \in Navegadores : renovacao'[m] # NoFio(b)
    BY <1>1, <2>2, <2>3
  <2>6. QED
    BY <2>1, <2>2, <2>4, <2>5
<1>9. UmNavegador'
  <2>1. ASSUME NEW b \in Abas, NEW c \in Abas, http'[b].sessao # 0, http'[b].sessao = http'[c].sessao
        PROVE  navegador[b] = navegador[c]
    BY <1>2, <1>6, <2>1 DEF Cookies, UmNavegador
  <2>2. ASSUME NEW b \in Abas, NEW m \in Navegadores, http'[b].sessao # 0,
               http'[b].sessao = renovacao'[m]
        PROVE  navegador[b] = m
    <3>1. CASE b = a
      BY <1>1, <1>2, <1>6, <2>2, <3>1
    <3>2. CASE b # a
      <4>1. http[b].sessao # 0 /\ http[b].sessao # x /\ http'[b].sessao = http[b].sessao
        BY <1>2, <1>6, <2>2, <3>2
      <4>2. m # n
        BY <1>1, <2>2, <4>1
      <4>3. QED
        BY <1>1, <2>2, <4>1, <4>2 DEF Cookies, UmNavegador
    <3>3. QED
      BY <3>1, <3>2
  <2>3. ASSUME NEW m \in Navegadores, NEW k \in Navegadores, renovacao'[m] # 0, renovacao'[m] = renovacao'[k]
        PROVE  m = k
    BY <1>1, <1>6, <2>3 DEF Cookies, UmNavegador
  <2>4. QED
    BY <2>1, <2>2, <2>3 DEF UmNavegador
<1>10. RespostaVem'
  <2> SUFFICES ASSUME NEW m \in Navegadores, renovacao'[m] # 0, marcador[renovacao'[m]] # 0
               PROVE  \E b \in Abas : navegador[b] = m /\ Traz(b)'
    BY DEF RespostaVem
  <2>1. m # n /\ renovacao'[m] = renovacao[m]
    BY <1>1, <1>6
  <2>2. PICK b \in Abas : navegador[b] = m /\ Traz(b)
    BY <2>1 DEF Cookies, RespostaVem
  <2>3. b # a
    BY <2>1, <2>2
  <2>4. QED
    BY <1>4, <2>2, <2>3
<1>11. QED
  BY <1>7, <1>8, <1>9, <1>10 DEF Cookies

LEMMA CookiesParados ==
  ASSUME Cookies, UNCHANGED <<marcador, cookies, http>>
  PROVE  Cookies'
  BY DEF Cookies, JuntasNaJarra, NovasNoFio, UmNavegador, RespostaVem, NoFio, Traz, cookies

LEMMA PassoCookies ==
  ASSUME Tipos, falhas = 0 => Cookies, [Next]_vars, falhas' = 0
  PROVE  Cookies'
<1>1. falhas \in Nat /\ falhas + 1 # 0
  BY SessoesAssumption DEF Tipos
<1>2. ASSUME NEW a \in Abas, Servir(a) PROVE Cookies'
  <2>1. falhas = 0
    <3>1. falhas' = falhas
      BY <1>2, ServirLeituras, CriacaoForma DEF Servir, RevogarMapa, RevogarSessao
    <3>2. QED
      BY <3>1
  <2>2. CASE ServirEu(a) \/ ServirRefresh(a) \/ ServirLogout(a) \/ Revogar(a)
    <3>1. PICK h \in Chamadas : /\ http' = [http EXCEPT ![a] = h]
                                /\ h.em # "volta" \/ h.poe = <<>>
                                /\ h.sessao = http[a].sessao
      BY <2>2, ServirLeituras
    <3>2. UNCHANGED <<marcador, cookies>>
      BY <2>2, ServirLeituras DEF redis
    <3>3. ~Traz(a)
      BY <2>2 DEF ServirEu, ServirRefresh, ServirLogout, Revogar, NoServidor, Traz
    <3>4. QED
      BY <2>1, <3>1, <3>2, <3>3, SoPergunta
  <2>3. CASE RevogarMapa(a)
    <3>1. PICK h \in Chamadas : /\ http' = [http EXCEPT ![a] = h]
                                /\ h.em = "sessao" /\ h.sessao = http[a].sessao
      BY <2>3, RevogarMapaForma
    <3>2. UNCHANGED <<marcador, cookies>> /\ ~Traz(a)
      BY <2>3 DEF RevogarMapa, ApagarMapa, NoServidor, Traz
    <3>3. h.em # "volta"
      BY <3>1
    <3>4. QED
      BY <2>1, <3>1, <3>2, <3>3, SoPergunta
  <2>4. CASE RevogarSessao(a)
    <3>1. PICK h \in Chamadas : /\ http' = [http EXCEPT ![a] = h]
                                /\ h.poe = << 0 >> /\ h.sessao = http[a].sessao
      BY <2>4, RevogarSessaoForma
    <3>2. UNCHANGED <<marcador, cookies>> /\ ~Traz(a)
      BY <2>4 DEF RevogarSessao, ApagarSessao, NoServidor, Traz
    <3>3. QED
      BY <2>1, <3>1, <3>2, SoPergunta
  <2>5. CASE Rotacionar(a) \/ ServirLogin(a)
    <3>1. CASE /\ UNCHANGED <<redis, cookies>>
               /\ \E h \in Chamadas : /\ http' = [http EXCEPT ![a] = h]
                                      /\ h.em = "volta" /\ h.poe = <<>> /\ h.sessao = http[a].sessao
      <4>1. PICK h \in Chamadas : /\ http' = [http EXCEPT ![a] = h]
                                  /\ h.poe = <<>> /\ h.sessao = http[a].sessao
        BY <3>1
      <4>2. UNCHANGED <<marcador, cookies>>
        BY <3>1 DEF redis
      <4>3. ~Traz(a)
        BY <2>5 DEF Rotacionar, ServirLogin, NoServidor, Traz
      <4>4. QED
        BY <2>1, <4>1, <4>2, <4>3, SoPergunta
    <3>2. CASE /\ \/ RotacionarSessao(http[a].sessao) /\ Rotacionavel(http[a].sessao)
                  \/ CriarSessao
               /\ proxima <= MaxSessoes /\ UNCHANGED cookies
               /\ \E h \in Chamadas' : /\ http' = [http EXCEPT ![a] = h]
                                       /\ h.em = "volta" /\ h.poe = <<proxima>>
                                       /\ h.sessao = http[a].sessao
      <4>1. PICK h : /\ http' = [http EXCEPT ![a] = h]
                     /\ h.em = "volta" /\ h.poe = <<proxima>> /\ h.sessao = http[a].sessao
        BY <3>2
      <4>2. \/ marcador' = marcador
            \/ /\ http[a].sessao \in vivas
               /\ marcador' = [marcador EXCEPT ![http[a].sessao] = proxima]
        BY <3>2 DEF RotacionarSessao, Rotacionavel, CriarSessao
      <4>3. QED
        BY <2>1, <3>2, <4>1, <4>2, CriaEResponde
    <3>3. QED
      BY <2>5, <3>1, <3>2, CriacaoForma
  <2>6. QED
    BY <1>2, <2>2, <2>3, <2>4, <2>5 DEF Servir
<1>3. ASSUME NEW a \in Abas, Receber(a) PROVE Cookies'
  <2>1. falhas = 0 /\ UNCHANGED <<navegador, marcador>> /\ http[a].em = "volta"
    BY <1>3, ReceberForma DEF redis
  <2>2. PICK h \in Chamadas : /\ http' = [http EXCEPT ![a] = h]
                              /\ h.em \in {"nada", "ida"} /\ h.poe = <<>>
                              /\ h.sessao \in {0, acesso'[navegador[a]], renovacao'[navegador[a]]}
    BY <1>3, ReceberForma
  <2>3. h.em # "volta"
    BY <2>2
  <2>4. CASE http[a].poe = <<>> /\ UNCHANGED <<acesso, renovacao>>
    <3>1. ~Traz(a) /\ UNCHANGED cookies
      BY <2>1, <2>4 DEF Traz, cookies
    <3>2. h.sessao \in {0, http[a].sessao, acesso[navegador[a]], renovacao[navegador[a]]}
      BY <2>2, <2>4
    <3>3. QED
      BY <2>1, <2>2, <2>3, <3>1, <3>2, SoPergunta
  <2>5. ASSUME NEW x \in Sess, http[a].poe = <<x>>,
               acesso' = [acesso EXCEPT ![navegador[a]] = x],
               renovacao' = [renovacao EXCEPT ![navegador[a]] = x]
        PROVE  Cookies'
    <3>1. h.sessao \in {0, x}
      BY <2>2, <2>5 DEF Tipos, Jarras
    <3>2. QED
      BY <2>1, <2>2, <2>3, <2>5, <3>1, JarraRecebe
  <2>6. QED
    BY <1>3, <2>4, <2>5, ReceberForma
<1>4. ASSUME NEW a \in Abas, Perder(a) PROVE FALSE
  BY <1>1, <1>4 DEF Perder
<1>5. ASSUME NEW a \in Abas, Chama(a) PROVE Cookies'
  <2>1. /\ UNCHANGED <<redis, cookies, falhas>> /\ http[a] = Nenhuma
        /\ \E h \in Chamadas :
             /\ http' = [http EXCEPT ![a] = h]
             /\ h.em = "ida" /\ h.poe = <<>> /\ h.sessao \in {Jarra(a)[1], Jarra(a)[2]}
    BY <1>5, ChamaForma
  <2>2. PICK h \in Chamadas :
          /\ http' = [http EXCEPT ![a] = h]
          /\ h.em = "ida" /\ h.poe = <<>> /\ h.sessao \in {Jarra(a)[1], Jarra(a)[2]}
    BY <2>1
  <2>3. h.sessao \in {0, http[a].sessao, acesso[navegador[a]], renovacao[navegador[a]]}
    BY <2>2 DEF Jarra
  <2>4. UNCHANGED <<marcador, cookies>> /\ ~Traz(a) /\ falhas = 0
    BY <2>1, NenhumaChamada DEF redis, Traz
  <2>5. QED
    BY <2>2, <2>3, <2>4, SoPergunta
<1>6. ASSUME NEW a \in Abas, NoSocket(a) PROVE Cookies'
  <2>1. UNCHANGED <<redis, cookies, http>> /\ (falhas' = falhas \/ Cair(a))
    BY <1>6, NoSocketTipos
  <2>2. ~Cair(a)
    BY <1>1 DEF Cair
  <2>3. UNCHANGED <<marcador, cookies, http>> /\ falhas = 0
    BY <2>1, <2>2 DEF redis
  <2>4. QED
    BY <2>3, CookiesParados
<1>7. ASSUME NEW n \in Navegadores, ExpirarAcesso(n) PROVE FALSE
  BY <1>1, <1>7 DEF ExpirarAcesso
<1>8. CASE UNCHANGED vars
  BY <1>8, CookiesParados DEF vars, redis
<1>9. QED
  BY <1>2, <1>3, <1>4, <1>5, <1>6, <1>7, <1>8 DEF Next, Chama, NoSocket

(***************************************************************************)
(* While nothing was lost, a browser none of whose tabs waits for an       *)
(* answer holds no session that a refresh has replaced, and its two        *)
(* cookies agree.                                                          *)
(***************************************************************************)
THEOREM CookiesEmDia == Spec => []JarraEmDia
<1>1. Init => (falhas = 0 => Cookies)
  <2> SUFFICES ASSUME Init PROVE Cookies
    OBVIOUS
  <2>1. \A a \in Abas : NoFio(a) = 0 /\ http[a].sessao = 0
    BY NenhumaChamada DEF Init, NoFio, Traz
  <2>2. \A n \in Navegadores : renovacao[n] = 0 /\ acesso[n] = 0
    BY DEF Init
  <2>3. QED
    BY <2>1, <2>2 DEF Cookies, JuntasNaJarra, NovasNoFio, UmNavegador, RespostaVem
<1>2. Tipos /\ (falhas = 0 => Cookies) /\ [Next]_vars => Tipos' /\ (falhas = 0 => Cookies)'
  <2> SUFFICES ASSUME Tipos, falhas = 0 => Cookies, [Next]_vars
               PROVE  Tipos' /\ (falhas' = 0 => Cookies')
    OBVIOUS
  <2>1. Tipos'
    BY PassoTipos
  <2>2. ASSUME falhas' = 0 PROVE Cookies'
    BY <2>2, PassoCookies
  <2>3. QED
    BY <2>1, <2>2
<1>3. (falhas = 0 => Cookies) => JarraEmDia
  <2> SUFFICES ASSUME falhas = 0, Cookies, NEW n \in Navegadores,
                      \A a \in Abas : navegador[a] = n => Livre(a)
               PROVE  acesso[n] = renovacao[n] /\ (renovacao[n] # 0 => marcador[renovacao[n]] = 0)
    BY DEF JarraEmDia
  <2>1. \A a \in Abas : navegador[a] = n => ~Traz(a)
    BY NenhumaChamada DEF Livre, Traz
  <2>2. QED
    BY <2>1 DEF Cookies, JuntasNaJarra, RespostaVem
<1>4. QED
  BY <1>1, <1>2, <1>3, InitTipos, PTL DEF Spec

=============================================================================
