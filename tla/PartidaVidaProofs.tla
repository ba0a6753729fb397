------------------------- MODULE PartidaVidaProofs -------------------------
(***************************************************************************)
(* Theorems of PartidaVida, for any rosters, sockets, crashes and bounds.  *)
(*                                                                         *)
(* The replies of Redis are a queue of which every step removes at most    *)
(* the oldest and to which it adds at most one ("Anda"). The chain runs    *)
(* one mutation at a time, so that what the reply of the running one says  *)
(* of the match is still true when it is handled, however the rest moved   *)
(* meanwhile ("Certa"). From that: a return names exactly those who still  *)
(* play in a match that ended; the Sala only loses Membros who do not; and *)
(* a cancellation that removed the match is handled after every admission  *)
(* that still found it, so it closes them all.                             *)
(*                                                                         *)
(* Every step is seen three ways: by the chain (PassoDaCadeia), by the     *)
(* admissions and the cancellation (PassoDoRecado), and by the lobby and   *)
(* the return (PassoDaDevolucao). Each part of the invariant is then       *)
(* preserved by the few kinds of step of the view it needs.                *)
(***************************************************************************)
EXTENDS PartidaVida, SequenceTheorems, FiniteSetTheorems, TLAPS

Fases == {"livre", "pedido", "registrado", "mudo", "admitido", "fantasma", "fechando"}

(* A reply of each kind, with what it read.                                *)
Respostas ==
  [tipo : {"conectar"}, alvo : Soquetes, lido : {Nada}]
    \cup [tipo : {"concluir"}, alvo : Soquetes,
          lido : [estado : {"nula", "preparada", "em_andamento"}, iniciou : BOOLEAN]]
    \cup [tipo : {"marcada", "janelaPosta"}, alvo : Jogadores, lido : {Nada}]
    \cup [tipo : {"lida"}, alvo : Jogadores, lido : [vazia : BOOLEAN, emAndamento : BOOLEAN]]
    \cup [tipo : {"naoInicioLido"}, alvo : {Nada}, lido : {"parar", "cancelar", "reagendar"}]
    \cup [tipo : {"cancelada"}, alvo : {Nada}, lido : BOOLEAN]
    \cup [tipo : {"validadeLida"}, alvo : Jogadores, lido : {"aberta", "valida", "invalida"}]
    \cup [tipo : {"conversaoLida"}, alvo : Jogadores, lido : BOOLEAN]
    \cup [tipo : {"comandoLido"}, alvo : Jogadores, lido : SUBSET Jogadores]
    \cup [tipo : {"pendenteLido"}, alvo : {Nada}, lido : SUBSET BOOLEAN]
    \cup [tipo : {"reenvioLido"}, alvo : {Nada}, lido : SUBSET Avisos]
    \cup [tipo : {"salva"}, alvo : {Nada}, lido : {Nada} \cup Avisos]

Tarefas == [quem : Jogadores, expirou : BOOLEAN]

Tipos ==
  /\ roster \in {Encaminhados, Reunidos}
  /\ partida \in {Nada} \cup Partidas(roster)
  /\ janela \in SUBSET Jogadores /\ expira \in SUBSET Jogadores
  /\ avisos \in SUBSET Jogadores /\ orfaos \in SUBSET Jogadores
  /\ pendente \in SUBSET BOOLEAN /\ retornos \in SUBSET Avisos
  /\ conexao \in [Jogadores -> Soquetes \cup {Nada}]
  /\ soquete \in [Soquetes -> [fase : Fases, anterior : Soquetes \cup {Nada}]]
  /\ \A j \in Jogadores : conexao[j] # Nada => Dono(conexao[j]) = j
  /\ \A s \in Soquetes : soquete[s].anterior # Nada => Dono(soquete[s].anterior) = Dono(s)
  /\ naoInicio \in {Nada, "dez", "teto"}
  /\ fio \in Seq(Respostas) /\ cadeia \in Seq(Tarefas) /\ devido \in {Nada} \cup Avisos
  /\ sala \in [estado : {"encaminhada", "aberta"}, ativos : SUBSET Jogadores]
  /\ velha \in BOOLEAN /\ enviado \in BOOLEAN /\ noAr \in BOOLEAN /\ cedo \in BOOLEAN
  /\ quedas \in Nat /\ abertas \in Nat

Corrente ==
  /\ \A i, k \in EmCurso : i = k
  /\ cadeia = <<>> <=> (EmCurso = {} /\ devido = Nada)
  /\ devido # Nada => EmCurso = {}

Fim == partida = Nada \/ partida.terminou

(* A return that names those who still are in the match that ended.        *)
Diz(r) ==
  /\ r.termino /\ Fim
  /\ partida # Nada => r.jogadores = partida.vivos
  /\ ~cedo => partida # Nada

(* What a reply of a mutation says holds until it is handled.              *)
Certa(r) ==
  /\ r.tipo = "conversaoLida" /\ r.lido =>
       /\ partida # Nada /\ partida.estado = "em_andamento" /\ ~partida.terminou
       /\ r.alvo \in partida.vivos /\ Head(cadeia).quem = r.alvo
  /\ r.tipo = "comandoLido" =>
       /\ r.alvo \in r.lido /\ Head(cadeia).quem = r.alvo
       /\ partida # Nada => ~partida.terminou /\ partida.vivos = r.lido
       /\ ~cedo => partida # Nada /\ partida.estado = "em_andamento"
  /\ r.tipo = "salva" =>
       IF r.lido = Nada
       THEN partida # Nada => Head(cadeia).quem \notin partida.vivos
       ELSE Diz(r.lido)

Lote ==
  /\ \A i \in DOMAIN fio : Certa(fio[i])
  /\ devido # Nada => Diz(devido)

(* So does what the return was read again from.                            *)
Reenvios == \A i \in DOMAIN fio :
              fio[i].tipo = "reenvioLido" => \A r \in fio[i].lido : Diz(r)

(* No mutation came while the match was preparada: then a result is that   *)
(* of a match that runs, which nothing removes.                            *)
NoTempo ==
  ~cedo /\ partida # Nada /\ partida.terminou => partida.estado = "em_andamento"

Bastam ==
  partida # Nada => Cardinality(partida.vivos) >= IF partida.terminou THEN 1 ELSE 2

Regular ==
  /\ partida = Nada => cedo \/ ~enviado
  /\ partida # Nada => avisos \cap partida.vivos = {}

Devolucao ==
  /\ sala.estado = "aberta" => Fim
  /\ pendente # {} => Fim
  /\ enviado => Fim
  /\ \A r \in retornos : Fim /\ (~r.termino => partida = Nada)
  /\ \A r \in retornos : partida # Nada => r.jogadores = partida.vivos
  /\ ~cedo /\ orfaos = {} /\ partida # Nada =>
       /\ sala.estado = "encaminhada" => partida.vivos \subseteq sala.ativos
       /\ sala.estado = "aberta" => sala.ativos = partida.vivos
       /\ enviado => retornos # {} \/ sala.estado = "aberta"

Parado ==
  ~noAr => /\ fio = <<>> /\ cadeia = <<>> /\ devido = Nada /\ retornos = {} /\ avisos = {}
           /\ ~enviado /\ \A s \in Soquetes : soquete[s].fase = "livre"

(* What the replies of an admission and of a cancellation say of a match   *)
(* that is gone holds until they are handled.                              *)
Cancela(k) == fio[k].tipo = "cancelada" /\ fio[k].lido
Nula(i) == fio[i].tipo = "concluir" /\ fio[i].lido.estado = "nula"

Recados == \A i \in DOMAIN fio : Nula(i) \/ Cancela(i) => partida = Nada

Cancelamento ==
  noAr /\ partida = Nada =>
    /\ (\E s \in Soquetes : soquete[s].fase = "admitido") => \E k \in DOMAIN fio : Cancela(k)
    /\ \A i \in DOMAIN fio : fio[i].tipo = "concluir" /\ fio[i].lido.estado # "nula" =>
         \E k \in DOMAIN fio : k > i /\ Cancela(k)

-----------------------------------------------------------------------------
(* Sequences: p is q without its first d elements, with that of N behind.  *)
Anda(q, d, N, p) ==
  /\ \A i \in DOMAIN p : \/ i + d \in DOMAIN q /\ p[i] = q[i + d]
                         \/ i = Len(q) - d + 1 /\ p[i] \in N
  /\ \A i \in DOMAIN q : i > d => i - d \in DOMAIN p /\ p[i - d] = q[i]
  /\ \A r \in N : Len(q) - d + 1 \in DOMAIN p /\ p[Len(q) - d + 1] = r

LEMMA AndaNada ==
  ASSUME NEW X, NEW q \in Seq(X)
  PROVE  Anda(q, 0, {}, q)
  BY DEF Anda

LEMMA AndaPoe ==
  ASSUME NEW X, NEW q \in Seq(X), NEW r \in X
  PROVE  Anda(q, 0, {r}, Append(q, r)) /\ Append(q, r) \in Seq(X)
  BY AppendProperties DEF Anda

LEMMA AndaTira ==
  ASSUME NEW X, NEW q \in Seq(X), q # <<>>
  PROVE  /\ Anda(q, 1, {}, Tail(q)) /\ Tail(q) \in Seq(X)
         /\ 1 \in DOMAIN q /\ Head(q) = q[1] /\ Head(q) \in X
  BY HeadTailProperties, EmptySeq, LenProperties DEF Anda

LEMMA AndaTroca ==
  ASSUME NEW X, NEW q \in Seq(X), q # <<>>, NEW r \in X
  PROVE  Anda(q, 1, {r}, Append(Tail(q), r)) /\ Append(Tail(q), r) \in Seq(X)
<1>1. Tail(q) \in Seq(X) /\ Len(Tail(q)) = Len(q) - 1 /\ Len(q) \in Nat /\ Len(q) > 0
  BY HeadTailProperties, EmptySeq, LenProperties
<1>2. \A i \in 1 .. Len(q) - 1 : Tail(q)[i] = q[i + 1]
  BY HeadTailProperties, EmptySeq, LenProperties
<1>3. /\ Append(Tail(q), r) \in Seq(X) /\ Len(Append(Tail(q), r)) = Len(q)
      /\ \A i \in 1 .. Len(q) - 1 : Append(Tail(q), r)[i] = Tail(q)[i]
      /\ Append(Tail(q), r)[Len(q)] = r
  BY <1>1, AppendProperties
<1>4. QED
  BY <1>1, <1>2, <1>3, LenProperties DEF Anda

(* n is empty or has one element.                                          *)
LEMMA AndaComVazio ==
  ASSUME NEW X, NEW q \in Seq(X)
  PROVE  q \o <<>> = q
  OBVIOUS

LEMMA AndaComUm ==
  ASSUME NEW X, NEW q \in Seq(X), NEW r \in X
  PROVE  q \o <<r>> = Append(q, r)
  OBVIOUS

-----------------------------------------------------------------------------
(* Types.                                                                  *)

LEMMA Elenco ==
  ASSUME Tipos
  PROVE  /\ roster \subseteq Jogadores /\ IsFiniteSet(roster) /\ Cardinality(roster) \in 2..4
         /\ Nada \notin Partidas(roster) /\ Nada \notin Avisos
<1>1. IsFiniteSet(roster)
  BY VidaAssumption, FS_Subset DEF Tipos
<1>2. Cardinality(roster) \in 2..4 /\ roster \subseteq Jogadores
  BY VidaAssumption DEF Tipos
<1>3. Nada \notin Partidas(roster)
  <2>1. Nada \notin Partidas(Encaminhados) /\ Nada \notin Partidas(Reunidos)
    BY VidaAssumption
  <2>2. roster = Encaminhados \/ roster = Reunidos
    BY DEF Tipos
  <2>3. QED
    BY <2>1, <2>2
<1>4. QED
  BY <1>1, <1>2, <1>3, VidaAssumption

(* What a reply of each kind is about and read.                            *)
LEMMA RespostaTipada ==
  ASSUME NEW r \in Respostas
  PROVE  /\ r.tipo \in {"conectar", "concluir"} => r.alvo \in Soquetes
         /\ r.tipo = "concluir" =>
              r.lido \in [estado : {"nula", "preparada", "em_andamento"}, iniciou : BOOLEAN]
         /\ r.tipo \in {"marcada", "lida", "janelaPosta", "validadeLida", "conversaoLida",
                         "comandoLido"} => r.alvo \in Jogadores
         /\ r.tipo = "lida" => r.lido \in [vazia : BOOLEAN, emAndamento : BOOLEAN]
         /\ r.tipo = "naoInicioLido" => r.lido \in {"parar", "cancelar", "reagendar"}
         /\ r.tipo \in {"cancelada", "conversaoLida"} => r.lido \in BOOLEAN
         /\ r.tipo = "validadeLida" => r.lido \in {"aberta", "valida", "invalida"}
         /\ r.tipo = "salva" => r.lido \in {Nada} \cup Avisos
         /\ r.tipo = "comandoLido" => r.lido \in SUBSET Jogadores
         /\ r.tipo = "pendenteLido" => r.lido \in SUBSET BOOLEAN
         /\ r.tipo = "reenvioLido" => r.lido \in SUBSET Avisos
  BY DEF Respostas

LEMMA RespostasFeitas ==
  /\ \A s \in Soquetes : Resposta("conectar", s, Nada) \in Respostas
  /\ \A s \in Soquetes, e \in {"nula", "preparada", "em_andamento"}, i \in BOOLEAN :
       Resposta("concluir", s, [estado |-> e, iniciou |-> i]) \in Respostas
  /\ \A j \in Jogadores : /\ Resposta("marcada", j, Nada) \in Respostas
                          /\ Resposta("janelaPosta", j, Nada) \in Respostas
  /\ \A j \in Jogadores, v, e \in BOOLEAN :
       Resposta("lida", j, [vazia |-> v, emAndamento |-> e]) \in Respostas
  /\ \A l \in {"parar", "cancelar", "reagendar"} : Resposta("naoInicioLido", Nada, l) \in Respostas
  /\ \A l \in BOOLEAN : Resposta("cancelada", Nada, l) \in Respostas
  /\ \A j \in Jogadores, l \in {"aberta", "valida", "invalida"} :
       Resposta("validadeLida", j, l) \in Respostas
  /\ \A j \in Jogadores, l \in BOOLEAN : Resposta("conversaoLida", j, l) \in Respostas
  /\ \A l \in {Nada} \cup Avisos : Resposta("salva", Nada, l) \in Respostas
  /\ \A j \in Jogadores, l \in SUBSET Jogadores : Resposta("comandoLido", j, l) \in Respostas
  /\ \A l \in SUBSET BOOLEAN : Resposta("pendenteLido", Nada, l) \in Respostas
  /\ \A l \in SUBSET Avisos : Resposta("reenvioLido", Nada, l) \in Respostas
<1>1. /\ \A s \in Soquetes : Resposta("conectar", s, Nada) \in Respostas
      /\ \A s \in Soquetes, e \in {"nula", "preparada", "em_andamento"}, i \in BOOLEAN :
           Resposta("concluir", s, [estado |-> e, iniciou |-> i]) \in Respostas
  BY DEF Respostas, Resposta
<1>2. /\ \A j \in Jogadores : /\ Resposta("marcada", j, Nada) \in Respostas
                              /\ Resposta("janelaPosta", j, Nada) \in Respostas
      /\ \A j \in Jogadores, v, e \in BOOLEAN :
           Resposta("lida", j, [vazia |-> v, emAndamento |-> e]) \in Respostas
  BY DEF Respostas, Resposta
<1>3. /\ \A l \in {"parar", "cancelar", "reagendar"} : Resposta("naoInicioLido", Nada, l) \in Respostas
      /\ \A l \in BOOLEAN : Resposta("cancelada", Nada, l) \in Respostas
      /\ \A j \in Jogadores, l \in {"aberta", "valida", "invalida"} :
           Resposta("validadeLida", j, l) \in Respostas
  BY DEF Respostas, Resposta
<1>4. /\ \A j \in Jogadores, l \in BOOLEAN : Resposta("conversaoLida", j, l) \in Respostas
      /\ \A l \in {Nada} \cup Avisos : Resposta("salva", Nada, l) \in Respostas
  BY DEF Respostas, Resposta
<1>5. /\ \A j \in Jogadores, l \in SUBSET Jogadores : Resposta("comandoLido", j, l) \in Respostas
      /\ \A l \in SUBSET BOOLEAN : Resposta("pendenteLido", Nada, l) \in Respostas
      /\ \A l \in SUBSET Avisos : Resposta("reenvioLido", Nada, l) \in Respostas
  BY DEF Respostas, Resposta
<1>6. QED
  BY <1>1, <1>2, <1>3, <1>4, <1>5

LEMMA PresencaTipada ==
  ASSUME Tipos, partida # Nada, NEW j, NEW p \in {"conectado", "em_reconexao"}
  PROVE  /\ ComPresenca(j, p) \in Partidas(roster) /\ ComPresenca(j, p) # Nada
         /\ ComPresenca(j, p).vivos = partida.vivos
         /\ ComPresenca(j, p).estado = partida.estado
         /\ ComPresenca(j, p).terminou = partida.terminou
         /\ ComPresenca(j, p).presenca = [partida.presenca EXCEPT ![j] = p]
<1>1. partida \in Partidas(roster)
  BY DEF Tipos
<1>2. ComPresenca(j, p) = [partida EXCEPT !.presenca[j] = p]
  BY DEF ComPresenca
<1>3. [partida EXCEPT !.presenca[j] = p] \in Partidas(roster)
  BY <1>1 DEF Partidas
<1>4. LET q == [partida EXCEPT !.presenca[j] = p]
      IN  /\ q.vivos = partida.vivos /\ q.estado = partida.estado
          /\ q.terminou = partida.terminou /\ q.presenca = [partida.presenca EXCEPT ![j] = p]
  BY <1>1 DEF Partidas
<1>5. QED
  BY <1>2, <1>3, <1>4, Elenco

LEMMA AvisoTipado ==
  ASSUME Tipos, NEW v \in SUBSET Jogadores, NEW d \in BOOLEAN
  PROVE  /\ Aviso(v, d) \in Avisos /\ Aviso(v, d) # Nada
         /\ Aviso(v, d).jogadores = v /\ Aviso(v, d).termino
<1>1. Aviso(v, d) \in Avisos
  BY DEF Aviso, Avisos
<1>2. QED
  BY <1>1, Elenco DEF Aviso

LEMMA EstadoTipado ==
  ASSUME Tipos, partida # Nada, NEW v \in SUBSET roster, NEW fim \in BOOLEAN
  PROVE  /\ ComEstado(v, fim) \in Partidas(roster) /\ ComEstado(v, fim) # Nada
         /\ ComEstado(v, fim).vivos = v
         /\ ComEstado(v, fim).estado = partida.estado
         /\ ComEstado(v, fim).terminou = fim
         /\ ComEstado(v, fim).presenca = partida.presenca
<1> DEFINE q == [partida EXCEPT !.vivos = v, !.terminou = fim]
<1>1. partida \in Partidas(roster)
  BY DEF Tipos
<1>2. q \in Partidas(roster)
  BY <1>1 DEF Partidas
<1>3. /\ q.vivos = v /\ q.estado = partida.estado /\ q.terminou = fim
      /\ q.presenca = partida.presenca
  BY <1>1 DEF Partidas
<1>4. ComEstado(v, fim) = q
  BY DEF ComEstado
<1>5. QED
  BY <1>2, <1>3, <1>4, Elenco

(* The oldest reply, and the rest.                                         *)
LEMMA Cabeca ==
  ASSUME Tipos, fio # <<>>
  PROVE  /\ Head(fio) \in Respostas /\ Tail(fio) \in Seq(Respostas)
         /\ Head(fio) = fio[1] /\ 1 \in DOMAIN fio
         /\ Anda(fio, 1, {}, Tail(fio))
         /\ \A r \in Respostas : /\ Anda(fio, 1, {r}, Append(Tail(fio), r))
                                 /\ Append(Tail(fio), r) \in Seq(Respostas)
  BY AndaTira, AndaTroca DEF Tipos

LEMMA Cauda ==
  ASSUME Tipos, NEW r \in Respostas
  PROVE  Anda(fio, 0, {r}, Append(fio, r)) /\ Append(fio, r) \in Seq(Respostas)
  BY AndaPoe DEF Tipos

(* What follows in the chain.                                              *)
Proximas == IF Len(cadeia) > 1 THEN {Leitura(cadeia[2].quem)} ELSE {}

LEMMA LeituraTipada ==
  ASSUME Tipos, NEW j \in Jogadores
  PROVE  Leitura(j) \in Respostas /\ Leitura(j).tipo = "conversaoLida" /\ Leitura(j).alvo = j
         /\ Leitura(j).lido = Ausente(j) /\ Ausente(j) \in BOOLEAN
<1>1. Ausente(j) \in BOOLEAN
  BY DEF Ausente
<1>2. QED
  BY <1>1, RespostasFeitas DEF Leitura, Resposta

LEMMA SegueACadeia ==
  ASSUME Tipos, cadeia # <<>>
  PROVE  /\ Head(cadeia) \in Tarefas /\ Tail(cadeia) \in Seq(Tarefas)
         /\ Proximas \subseteq Respostas
         /\ Anda(fio, 0, Proximas, fio \o ProximaLeitura)
         /\ fio \o ProximaLeitura \in Seq(Respostas)
         /\ fio # <<>> => /\ Anda(fio, 1, Proximas, Tail(fio) \o ProximaLeitura)
                          /\ Tail(fio) \o ProximaLeitura \in Seq(Respostas)
<1>1. cadeia \in Seq(Tarefas) /\ fio \in Seq(Respostas)
  BY DEF Tipos
<1>2. Head(cadeia) \in Tarefas /\ Tail(cadeia) \in Seq(Tarefas)
  BY <1>1, HeadTailProperties, EmptySeq
<1>3. CASE Len(cadeia) > 1
  <2>1. cadeia[2] \in Tarefas
    BY <1>1, <1>3, LenProperties, ElementOfSeq
  <2>2. cadeia[2].quem \in Jogadores
    BY <2>1 DEF Tarefas
  <2> DEFINE r == Leitura(cadeia[2].quem)
  <2>3. r \in Respostas
    BY <2>2, LeituraTipada
  <2>4. ProximaLeitura = <<r>> /\ Proximas = {r}
    BY <1>3 DEF ProximaLeitura, Proximas
  <2> HIDE DEF r
  <2>5. fio \o <<r>> = Append(fio, r)
    BY <1>1, <2>3, AndaComUm
  <2>6. ASSUME fio # <<>> PROVE Tail(fio) \o <<r>> = Append(Tail(fio), r)
    BY <2>3, <2>6, Cabeca, AndaComUm
  <2>7. QED
    BY <1>2, <2>3, <2>4, <2>5, <2>6, Cabeca, Cauda
<1>4. CASE ~ (Len(cadeia) > 1)
  <2>1. ProximaLeitura = <<>> /\ Proximas = {}
    BY <1>4 DEF ProximaLeitura, Proximas
  <2>2. fio \o <<>> = fio
    BY <1>1, AndaComVazio
  <2>3. fio # <<>> => Tail(fio) \o <<>> = Tail(fio)
    BY Cabeca, AndaComVazio
  <2>4. QED
    BY <1>1, <1>2, <2>1, <2>2, <2>3, Cabeca, AndaNada
<1>5. QED
  BY <1>3, <1>4

(* A command reads the match.                                              *)
Comanda ==
  /\ cadeia = <<>> /\ partida' = partida /\ devido' = devido
  /\ cedo' = (cedo \/ Preparada)
  /\ \E j \in Jogadores :
       /\ PodeComandar(j) /\ cadeia' = <<Tarefa(j, FALSE)>>
       /\ Anda(fio, 0, {Resposta("comandoLido", j, partida.vivos)}, fio')

(* How the match changes by itself, besides the mutations of the chain.    *)
Evolui ==
  \/ partida' = partida
  \/ Preparada /\ partida' = Nada
  \/ /\ partida # Nada /\ partida' # Nada
     /\ partida'.vivos = partida.vivos /\ partida'.terminou = partida.terminou
     /\ partida.estado = "em_andamento" => partida'.estado = "em_andamento"

(* One action at a time: types, the replies, the match.                    *)
LEMMA PedirPasso ==
  ASSUME Tipos, NEW s \in Soquetes, PedirConexao(s)
  PROVE  /\ Tipos' /\ Evolui
         /\ Anda(fio, 0, {Resposta("conectar", s, Nada)}, fio')
<1>1. Resposta("conectar", s, Nada) \in Respostas
  BY RespostasFeitas
<1>2. fio' = Append(fio, Resposta("conectar", s, Nada))
  BY DEF PedirConexao
<1>3. /\ fio' \in Seq(Respostas)
      /\ Anda(fio, 0, {Resposta("conectar", s, Nada)}, fio')
  BY <1>1, <1>2, Cauda
<1>4. /\ soquete' \in [Soquetes -> [fase : Fases, anterior : Soquetes \cup {Nada}]]
      /\ \A x \in Soquetes : soquete'[x].anterior = soquete[x].anterior
  BY DEF PedirConexao, Tipos, Fases
<1>5. abertas' \in Nat
  BY DEF PedirConexao, Tipos
<1>6. Tipos' /\ Evolui
  BY <1>3, <1>4, <1>5 DEF PedirConexao, Tipos, redis, lobby, Evolui
<1>7. QED
  BY <1>3, <1>6

LEMMA FecharAntesPasso ==
  ASSUME Tipos, NEW s \in Soquetes, FecharAntesDoListener(s)
  PROVE  Tipos' /\ Evolui
<1>1. /\ soquete' \in [Soquetes -> [fase : Fases, anterior : Soquetes \cup {Nada}]]
      /\ \A x \in Soquetes : soquete'[x].anterior = soquete[x].anterior
  BY DEF FecharAntesDoListener, Tipos, Fases
<1>2. QED
  BY <1>1 DEF FecharAntesDoListener, Tipos, redis, lobby, Evolui

LEMMA FecharPasso ==
  ASSUME Tipos, NEW s \in Soquetes, Fechar(s)
  PROVE  /\ Tipos' /\ Evolui
         /\ \/ Anda(fio, 0, {}, fio')
            \/ Anda(fio, 0, {Resposta("marcada", Dono(s), Nada)}, fio')
<1> DEFINE r == Resposta("marcada", Dono(s), Nada)
<1>1. /\ soquete' \in [Soquetes -> [fase : Fases, anterior : Soquetes \cup {Nada}]]
      /\ \A x \in Soquetes : soquete'[x].anterior = soquete[x].anterior
  BY DEF Fechar, Tipos, Fases
<1>2. Dono(s) \in Jogadores
  BY VidaAssumption
<1>3. r \in Respostas
  BY <1>2, RespostasFeitas
<1>4. CASE conexao[Dono(s)] = s
  <2>1. fio' = Append(fio, r) /\ partida' = ComPresenca(Dono(s), "em_reconexao")
    BY <1>4 DEF Fechar
  <2>2. fio' \in Seq(Respostas) /\ Anda(fio, 0, {r}, fio')
    BY <1>3, <2>1, Cauda
  <2>3. /\ conexao' \in [Jogadores -> Soquetes \cup {Nada}]
        /\ \A j \in Jogadores : conexao'[j] = Nada \/ conexao'[j] = conexao[j]
    BY <1>2, <1>4 DEF Fechar, Tipos
  <2>4. Evolui /\ partida' \in {Nada} \cup Partidas(roster)
    <3>1. CASE partida = Nada
      BY <2>1, <3>1 DEF ComPresenca, Evolui
    <3>2. CASE partida # Nada
      <4>1. /\ partida' \in Partidas(roster) /\ partida' # Nada
            /\ partida'.vivos = partida.vivos /\ partida'.terminou = partida.terminou
            /\ partida'.estado = partida.estado
        BY <2>1, <3>2, PresencaTipada
      <4>2. QED
        BY <3>2, <4>1 DEF Evolui
    <3>3. QED
      BY <3>1, <3>2
  <2>5. Tipos'
    BY <1>1, <2>2, <2>3, <2>4 DEF Fechar, Tipos, lobby
  <2>6. QED
    BY <2>2, <2>4, <2>5
<1>5. CASE conexao[Dono(s)] # s
  <2>1. Tipos' /\ Evolui /\ fio' = fio
    BY <1>1, <1>5 DEF Fechar, Tipos, lobby, Evolui
  <2>2. QED
    BY <2>1, AndaNada DEF Tipos
<1>6. QED
  BY <1>4, <1>5

(* The mutation of the chain that writes: j leaves, or the result comes.   *)
Muta(j, desistencia, N) ==
  /\ partida # Nada /\ ~partida.terminou /\ j \in partida.vivos
  /\ partida' # Nada /\ partida'.estado = partida.estado
  /\ partida'.presenca = partida.presenca
  /\ partida'.terminou \in BOOLEAN
  /\ \/ desistencia /\ partida'.vivos = partida.vivos \ {j}
     \/ partida'.terminou /\ ~desistencia /\ partida'.vivos = partida.vivos
  /\ desistencia /\ Cardinality(partida.vivos) = 2 => partida'.terminou
  /\ N = {Resposta("salva", Nada,
             IF partida'.terminou THEN Aviso(partida'.vivos, desistencia) ELSE Nada)}
  /\ N \subseteq Respostas

(* A command that read a match that was removed before it wrote.           *)
EmVao(N) ==
  /\ partida = Nada /\ partida' = Nada /\ cedo
  /\ \E av \in {Nada} \cup Avisos :
       N = {Resposta("salva", Nada, av)} /\ (av # Nada => av.termino)

LEMMA SalvarPasso ==
  ASSUME Tipos, fio # <<>>, NEW v \in SUBSET Jogadores, NEW fim \in BOOLEAN, NEW d \in BOOLEAN,
         Salvar(v, fim, d, Tail(fio)), partida # Nada => v \subseteq roster,
         NEW r, r = Resposta("salva", Nada, IF fim THEN Aviso(v, d) ELSE Nada)
  PROVE  /\ r \in Respostas /\ fio' \in Seq(Respostas) /\ Anda(fio, 1, {r}, fio')
         /\ partida = Nada => partida' = Nada
         /\ partida # Nada =>
              /\ partida' \in Partidas(roster) /\ partida' # Nada
              /\ partida'.vivos = v /\ partida'.terminou = fim
              /\ partida'.estado = partida.estado /\ partida'.presenca = partida.presenca
<1>1. (IF fim THEN Aviso(v, d) ELSE Nada) \in {Nada} \cup Avisos
  BY AvisoTipado
<1>2. r \in Respostas
  BY <1>1, RespostasFeitas
<1>3. fio' = Append(Tail(fio), r) /\ partida' = ComEstado(v, fim)
  BY DEF Salvar
<1>4. fio' \in Seq(Respostas) /\ Anda(fio, 1, {r}, fio')
  BY <1>2, <1>3, Cabeca
<1>5. partida = Nada => partida' = Nada
  BY <1>3 DEF ComEstado
<1>6. QED
  BY <1>2, <1>3, <1>4, <1>5, EstadoTipado

LEMMA ComandarPasso ==
  ASSUME Tipos, NEW j \in Jogadores, Comandar(j)
  PROVE  /\ Tipos' /\ Comanda
         /\ partida' = partida
         /\ Anda(fio, 0, {Resposta("comandoLido", j, partida.vivos)}, fio')
<1> DEFINE r == Resposta("comandoLido", j, partida.vivos)
<1>1. partida.vivos \in SUBSET Jogadores
  BY Elenco DEF Comandar, PodeComandar, Tipos, Partidas
<1>2. r \in Respostas
  BY <1>1, RespostasFeitas
<1>3. /\ fio' = Append(fio, r) /\ cadeia = <<>> /\ cadeia' = <<Tarefa(j, FALSE)>>
      /\ cedo' = (cedo \/ Preparada) /\ PodeComandar(j)
      /\ partida' = partida /\ devido' = devido
  BY DEF Comandar, redis
<1> HIDE DEF r
<1>4. fio' \in Seq(Respostas) /\ Anda(fio, 0, {r}, fio')
  BY <1>2, <1>3, Cauda
<1>5. cadeia' \in Seq(Tarefas)
  BY <1>3 DEF Tarefa, Tarefas
<1>6. cedo' \in BOOLEAN
  BY <1>3 DEF Tipos, Preparada
<1>7. Tipos'
  BY <1>4, <1>5, <1>6 DEF Comandar, Tipos, redis, lobby
<1>8. Comanda
  BY <1>3, <1>4 DEF Comanda, r
<1>9. QED
  BY <1>3, <1>4, <1>7, <1>8 DEF r

LEMMA DispararPasso ==
  ASSUME Tipos, NEW j \in Jogadores, DispararExpiracao(j)
  PROVE  /\ Tipos' /\ Evolui
         /\ \E r \in Respostas : r.tipo = "validadeLida" /\ Anda(fio, 0, {r}, fio')
<1> DEFINE r == Resposta("validadeLida", j,
                  IF j \in janela THEN "aberta"
                  ELSE IF Ausente(j) THEN "valida" ELSE "invalida")
<1>1. r \in Respostas /\ r.tipo = "validadeLida"
  BY RespostasFeitas DEF Resposta
<1>2. fio' = Append(fio, r)
  BY DEF DispararExpiracao
<1> HIDE DEF r
<1>3. fio' \in Seq(Respostas) /\ Anda(fio, 0, {r}, fio')
  BY <1>1, <1>2, Cauda
<1>4. Tipos' /\ Evolui
  BY <1>3 DEF DispararExpiracao, Tipos, redis, lobby, Evolui
<1>5. QED
  BY <1>1, <1>3, <1>4

LEMMA ExpirarPasso ==
  ASSUME Tipos, NEW j \in Jogadores, ExpirarJanela(j)
  PROVE  Tipos' /\ Evolui
  BY DEF ExpirarJanela, Tipos, memoria, lobby, Evolui

LEMMA SairPasso ==
  ASSUME Tipos, NEW j \in Jogadores, SairDeOrfa(j)
  PROVE  Tipos' /\ Evolui
<1>1. sala' \in [estado : {"encaminhada", "aberta"}, ativos : SUBSET Jogadores]
  BY DEF SairDeOrfa, Tipos
<1>2. QED
  BY <1>1 DEF SairDeOrfa, Tipos, redis, memoria, Evolui

LEMMA DesvincularPasso ==
  ASSUME Tipos, NEW j \in Jogadores, NEW chega \in BOOLEAN, Desvincular(j, chega)
  PROVE  Tipos' /\ Evolui
<1>1. sala' \in [estado : {"encaminhada", "aberta"}, ativos : SUBSET Jogadores]
  BY DEF Desvincular, Tipos
<1>2. QED
  BY <1>1 DEF Desvincular, Tipos, redis, Evolui

LEMMA RetornarPasso ==
  ASSUME Tipos, NEW r \in retornos, NEW chega \in BOOLEAN, Retornar(r, chega)
  PROVE  Tipos' /\ Evolui
<1>1. r.jogadores \in SUBSET Jogadores
  BY DEF Tipos, Avisos
<1>2. sala' \in [estado : {"encaminhada", "aberta"}, ativos : SUBSET Jogadores]
  BY <1>1 DEF Retornar, Tipos
<1>3. retornos' \in SUBSET Avisos /\ pendente' \in SUBSET BOOLEAN
  BY DEF Retornar, Tipos
<1>4. QED
  BY <1>2, <1>3 DEF Retornar, Tipos, Evolui

LEMMA NaoInicioPasso ==
  ASSUME Tipos, DispararNaoInicio
  PROVE  /\ Tipos' /\ Evolui
         /\ \E r \in Respostas : r.tipo = "naoInicioLido" /\ Anda(fio, 0, {r}, fio')
<1> DEFINE r == Resposta("naoInicioLido", Nada,
                  IF ~Preparada THEN "parar"
                  ELSE IF RosterTodoEmReconexao \/ velha THEN "cancelar"
                  ELSE "reagendar")
<1>1. r \in Respostas /\ r.tipo = "naoInicioLido"
  BY RespostasFeitas DEF Resposta
<1>2. fio' = Append(fio, r)
  BY DEF DispararNaoInicio
<1> HIDE DEF r
<1>3. fio' \in Seq(Respostas) /\ Anda(fio, 0, {r}, fio')
  BY <1>1, <1>2, Cauda
<1>4. Tipos' /\ Evolui
  BY <1>3 DEF DispararNaoInicio, Tipos, redis, lobby, Evolui
<1>5. QED
  BY <1>1, <1>3, <1>4

LEMMA CadeiaTipada ==
  ASSUME Tipos, cadeia # <<>>
  PROVE  JanelaLimpa \in SUBSET Jogadores /\ Head(cadeia).quem \in Jogadores
  BY SegueACadeia DEF JanelaLimpa, Tarefas, Tipos

LEMMA EnviarPasso ==
  ASSUME Tipos, cadeia # <<>>, EnviarRetorno
  PROVE  /\ Tipos' /\ Evolui
         /\ Anda(fio, 0, Proximas, fio')
<1>1. /\ fio' \in Seq(Respostas) /\ Anda(fio, 0, Proximas, fio')
      /\ cadeia' \in Seq(Tarefas)
  BY SegueACadeia DEF EnviarRetorno
<1>2. devido \in Avisos
  BY DEF EnviarRetorno, Tipos
<1>3. pendente' \in SUBSET BOOLEAN /\ retornos' \in SUBSET Avisos /\ enviado' \in BOOLEAN
  <2>1. devido.desistencia \in BOOLEAN
    BY <1>2 DEF Avisos
  <2>2. {devido.desistencia} \in SUBSET BOOLEAN
    BY <2>1
  <2>3. QED
    BY <1>2, <2>2 DEF EnviarRetorno, Tipos
<1>4. janela' \in SUBSET Jogadores
  BY CadeiaTipada DEF EnviarRetorno
<1>5. Tipos' /\ Evolui
  BY <1>1, <1>3, <1>4 DEF EnviarRetorno, Tipos, lobby, Evolui
<1>6. QED
  BY <1>1, <1>5

LEMMA EnvelhecerPasso ==
  ASSUME Tipos, Envelhecer
  PROVE  Tipos' /\ Evolui
  BY DEF Envelhecer, Tipos, redis, lobby, Evolui

LEMMA ExpirarPreparadaPasso ==
  ASSUME Tipos, ExpirarPreparada
  PROVE  Tipos' /\ Evolui
  BY DEF ExpirarPreparada, Tipos, memoria, lobby, Evolui

LEMMA CairPasso ==
  ASSUME Tipos, Cair
  PROVE  Tipos' /\ Evolui
<1>1. /\ soquete' \in [Soquetes -> [fase : Fases, anterior : Soquetes \cup {Nada}]]
      /\ \A s \in Soquetes : soquete'[s].anterior = Nada
  BY DEF Cair, Fases
<1>2. fio' \in Seq(Respostas) /\ cadeia' \in Seq(Tarefas)
  BY DEF Cair
<1>3. conexao' \in [Jogadores -> Soquetes \cup {Nada}] /\ \A j \in Jogadores : conexao'[j] = Nada
  BY DEF Cair
<1>4. quedas' \in Nat /\ noAr' \in BOOLEAN /\ enviado' \in BOOLEAN
  <2>1. quedas \in Nat
    BY DEF Tipos
  <2>2. quedas' = quedas + 1
    BY DEF Cair
  <2>3. noAr' = FALSE /\ enviado' = FALSE
    BY DEF Cair
  <2>4. quedas' \in Nat
    BY <2>1, <2>2
  <2>5. QED
    BY <2>3, <2>4
<1>5. UNCHANGED <<partida, janela, pendente, velha, sala, orfaos, roster, abertas, cedo>>
  BY DEF Cair, redis, lobby
<1>6. devido' = Nada /\ naoInicio' = Nada /\ avisos' = {} /\ retornos' = {} /\ expira' = {}
  BY DEF Cair
<1>7. QED
  BY <1>1, <1>2, <1>3, <1>4, <1>5, <1>6 DEF Tipos, Evolui

LEMMA VoltarPasso ==
  ASSUME Tipos, Voltar
  PROVE  Tipos' /\ Evolui
  BY DEF Voltar, NaoInicioRearmado, Tipos, lobby, Evolui

-----------------------------------------------------------------------------
(* The replies.                                                            *)
Fora == UNCHANGED <<velha, lobby, noAr, quedas, abertas, cedo>>

LEMMA ConectarPasso ==
  ASSUME Tipos, Fora, fio # <<>>, NEW s \in Soquetes, Conectar(s, Tail(fio))
  PROVE  /\ Tipos' /\ Evolui
         /\ \E e \in {"nula", "preparada", "em_andamento"}, i \in BOOLEAN :
              /\ Anda(fio, 1, {Resposta("concluir", s, [estado |-> e, iniciou |-> i])}, fio')
              /\ e = "nula" <=> partida = Nada
              /\ partida = Nada <=> partida' = Nada
         /\ partida # Nada => partida'.presenca = [partida.presenca EXCEPT ![Dono(s)] = "conectado"]
<1> DEFINE t == TransicaoDePresenca(Dono(s))
           r == Resposta("concluir", s, [estado |-> t.estado, iniciou |-> t.iniciou])
<1>1. /\ conexao' = [conexao EXCEPT ![Dono(s)] = s]
      /\ soquete' = [soquete EXCEPT ![s] = [fase |-> "registrado", anterior |-> conexao[Dono(s)]]]
      /\ partida' = t.partida
      /\ fio' = Append(Tail(fio), r)
      /\ UNCHANGED <<janela, pendente, naoInicio, expira, cadeia, devido, avisos,
                     retornos, enviado>>
  BY DEF Conectar
<1>2. Dono(s) \in Jogadores
  BY VidaAssumption
<1>3. /\ t.estado \in {"nula", "preparada", "em_andamento"} /\ t.iniciou \in BOOLEAN
      /\ t.estado = "nula" <=> partida = Nada
      /\ partida = Nada => t.partida = Nada
      /\ partida # Nada => /\ t.partida \in Partidas(roster) /\ t.partida # Nada
                           /\ t.partida.vivos = partida.vivos
                           /\ t.partida.terminou = partida.terminou
                           /\ partida.estado = "em_andamento" => t.partida.estado = "em_andamento"
                           /\ t.partida.presenca = [partida.presenca EXCEPT ![Dono(s)] = "conectado"]
  <2> DEFINE nova == ComPresenca(Dono(s), "conectado")
             inicia == /\ nova # Nada /\ nova.estado = "preparada"
                       /\ \A k \in roster : nova.presenca[k] = "conectado"
  <2>1. /\ t.partida = IF inicia THEN [nova EXCEPT !.estado = "em_andamento", !.prazo = FALSE]
                       ELSE nova
        /\ t.estado = IF nova = Nada THEN "nula"
                      ELSE IF inicia THEN "em_andamento" ELSE nova.estado
        /\ t.iniciou = inicia
    BY DEF TransicaoDePresenca
  <2>2. CASE partida = Nada
    <3>1. nova = Nada
      BY <2>2 DEF ComPresenca
    <3>2. inicia = FALSE
      BY <3>1
    <3>3. QED
      BY <2>1, <2>2, <3>1, <3>2
  <2>3. CASE partida # Nada
    <3>1. /\ nova \in Partidas(roster) /\ nova # Nada
          /\ nova.vivos = partida.vivos /\ nova.estado = partida.estado
          /\ nova.terminou = partida.terminou
          /\ nova.presenca = [partida.presenca EXCEPT ![Dono(s)] = "conectado"]
      BY <2>3, PresencaTipada
    <3> HIDE DEF nova
    <3>2. inicia \in BOOLEAN
      OBVIOUS
    <3> DEFINE outra == [nova EXCEPT !.estado = "em_andamento", !.prazo = FALSE]
    <3>3. /\ outra \in Partidas(roster)
          /\ outra.vivos = nova.vivos /\ outra.terminou = nova.terminou
          /\ outra.estado = "em_andamento" /\ outra.presenca = nova.presenca
      BY <3>1 DEF Partidas
    <3>4. outra # Nada
      BY <3>3, Elenco
    <3>5. nova.estado \in {"preparada", "em_andamento"}
      BY <3>1 DEF Partidas
    <3> HIDE DEF outra
    <3>6. t.partida = IF inicia THEN outra ELSE nova
      BY <2>1 DEF outra
    <3> HIDE DEF inicia
    <3>7. QED
      BY <2>1, <2>3, <3>1, <3>2, <3>3, <3>4, <3>5, <3>6
  <2>4. QED
    BY <2>2, <2>3
<1>4. r \in Respostas
  BY <1>3, RespostasFeitas
<1> HIDE DEF t
<1>5. fio' \in Seq(Respostas) /\ Anda(fio, 1, {r}, fio')
  BY <1>1, <1>4, Cabeca
<1>6. /\ conexao' \in [Jogadores -> Soquetes \cup {Nada}]
      /\ \A j \in Jogadores : conexao'[j] # Nada => Dono(conexao'[j]) = j
  BY <1>1, <1>2 DEF Tipos
<1>7. /\ soquete' \in [Soquetes -> [fase : Fases, anterior : Soquetes \cup {Nada}]]
      /\ \A x \in Soquetes : soquete'[x].anterior # Nada => Dono(soquete'[x].anterior) = Dono(x)
  BY <1>1, <1>2 DEF Tipos, Fases
<1>8. partida' \in {Nada} \cup Partidas(roster) /\ Evolui
  BY <1>1, <1>3 DEF Evolui
<1>9. Tipos'
  BY <1>1, <1>5, <1>6, <1>7, <1>8 DEF Tipos, Fora, lobby
<1>10. QED
  BY <1>1, <1>3, <1>5, <1>8, <1>9

LEMMA ConectarAnda ==
  ASSUME Tipos, Fora, fio # <<>>, NEW s \in Soquetes, Conectar(s, Tail(fio))
  PROVE  /\ Tipos' /\ Evolui
         /\ \E N : (\A x \in N : x.tipo = "concluir") /\ Anda(fio, 1, N, fio')
<1>1. PICK e, i : Anda(fio, 1, {Resposta("concluir", s, [estado |-> e, iniciou |-> i])}, fio')
  BY ConectarPasso
<1>2. \A x \in {Resposta("concluir", s, [estado |-> e, iniciou |-> i])} : x.tipo = "concluir"
  BY DEF Resposta
<1>3. QED
  BY <1>1, <1>2, ConectarPasso

LEMMA LimparPasso ==
  ASSUME Tipos, Fora, fio # <<>>, NEW s \in Soquetes, LimparAdmissaoFalha(s, Tail(fio))
  PROVE  Tipos' /\ Evolui /\ Anda(fio, 1, {}, fio')
<1> DEFINE j == Dono(s)
           a == soquete[s].anterior
<1>1. j \in Jogadores /\ a \in Soquetes \cup {Nada} /\ (a # Nada => Dono(a) = j)
  BY VidaAssumption DEF Tipos
<1>2. conexao' = [conexao EXCEPT ![j] = IF a # Nada /\ Aberto(a) THEN a
                                        ELSE IF @ = s THEN Nada ELSE @]
  BY DEF LimparAdmissaoFalha
<1>3. fio' = Tail(fio)
  BY DEF LimparAdmissaoFalha
<1>4. fio' \in Seq(Respostas) /\ Anda(fio, 1, {}, fio')
  BY <1>3, Cabeca
<1>5. /\ soquete' \in [Soquetes -> [fase : Fases, anterior : Soquetes \cup {Nada}]]
      /\ \A x \in Soquetes : soquete'[x].anterior \in {soquete[x].anterior, Nada}
  BY DEF LimparAdmissaoFalha, Tipos, Fases
<1> HIDE DEF j, a
<1>6. /\ conexao' \in [Jogadores -> Soquetes \cup {Nada}]
      /\ \A k \in Jogadores : conexao'[k] # Nada => Dono(conexao'[k]) = k
  BY <1>1, <1>2 DEF Tipos
<1>7. Tipos' /\ Evolui
  BY <1>4, <1>5, <1>6 DEF LimparAdmissaoFalha, Tipos, Fora, redis, lobby, Evolui
<1>8. QED
  BY <1>4, <1>7

(* What an admission reads of the pending return.                          *)
Pendencia == IF Encerrada /\ ~enviado THEN {Resposta("pendenteLido", Nada, pendente)} ELSE {}

LEMMA PendenciaTipada ==
  ASSUME Tipos, fio # <<>>
  PROVE  /\ Tail(fio) \o PendenciaLida \in Seq(Respostas)
         /\ Anda(fio, 1, Pendencia, Tail(fio) \o PendenciaLida)
         /\ Pendencia \subseteq Respostas /\ \A r \in Pendencia : r.tipo = "pendenteLido"
<1> DEFINE r == Resposta("pendenteLido", Nada, pendente)
<1>1. r \in Respostas /\ r.tipo = "pendenteLido"
  BY RespostasFeitas DEF Tipos, Resposta
<1>2. CASE Encerrada /\ ~enviado
  <2>1. PendenciaLida = <<r>> /\ Pendencia = {r}
    BY <1>2 DEF PendenciaLida, Pendencia
  <2> HIDE DEF r
  <2>2. Tail(fio) \o <<r>> = Append(Tail(fio), r)
    BY <1>1, Cabeca, AndaComUm
  <2>3. QED
    BY <1>1, <2>1, <2>2, Cabeca
<1>3. CASE ~ (Encerrada /\ ~enviado)
  <2>1. PendenciaLida = <<>> /\ Pendencia = {}
    BY <1>3 DEF PendenciaLida, Pendencia
  <2>2. Tail(fio) \o <<>> = Tail(fio)
    BY Cabeca, AndaComVazio
  <2>3. QED
    BY <2>1, <2>2, Cabeca
<1>4. QED
  BY <1>2, <1>3

(* The admission is concluded.                                             *)
Admite(s, t, resto) ==
  LET j == Dono(s)
      a == soquete[s].anterior
  IN  /\ t.estado # "nula"
      /\ fio' = resto \o PendenciaLida
      /\ naoInicio' = IF t.iniciou THEN Nada ELSE naoInicio
      /\ expira' = IF t.estado = "em_andamento" THEN expira \ {j} ELSE expira
      /\ janela' = IF t.estado = "em_andamento" THEN janela \ {j} ELSE janela
      /\ soquete' = [x \in Soquetes |->
           IF x = s THEN [fase |-> Listener(s), anterior |-> Nada]
           ELSE IF x = a THEN [soquete[x] EXCEPT !.fase = Fechado(@)]
           ELSE soquete[x]]
      /\ UNCHANGED <<partida, pendente, conexao, cadeia, devido, avisos, retornos, enviado>>

LEMMA ConcluirCasos ==
  ASSUME NEW s, NEW t, NEW resto, Concluir(s, t, resto)
  PROVE  \/ t.estado = "nula" /\ LimparAdmissaoFalha(s, resto)
         \/ Admite(s, t, resto)
  BY DEF Concluir, Admite

LEMMA FasesTipadas ==
  /\ \A s \in Soquetes : Listener(s) \in {"admitido", "fantasma", "livre"}
  /\ \A f \in Fases : Fechado(f) \in Fases /\ (Fechado(f) = "admitido" => f = "admitido")
  BY DEF Listener, Fechado, Fases

LEMMA AdmitePasso ==
  ASSUME Tipos, Fora, fio # <<>>, NEW s \in Soquetes, NEW t, Admite(s, t, Tail(fio))
  PROVE  Tipos' /\ Evolui /\ Anda(fio, 1, Pendencia, fio')
<1>1. fio' = Tail(fio) \o PendenciaLida
  BY DEF Admite
<1>2. fio' \in Seq(Respostas) /\ Anda(fio, 1, Pendencia, fio')
  BY <1>1, PendenciaTipada
<1>3. enviado' \in BOOLEAN /\ retornos' \in SUBSET Avisos
  BY DEF Admite, Tipos
<1>4. /\ soquete' \in [Soquetes -> [fase : Fases, anterior : Soquetes \cup {Nada}]]
      /\ \A x \in Soquetes : soquete'[x].anterior \in {soquete[x].anterior, Nada}
  <2> DEFINE a == soquete[s].anterior
  <2>1. soquete' = [x \in Soquetes |->
           IF x = s THEN [fase |-> Listener(s), anterior |-> Nada]
           ELSE IF x = a THEN [soquete[x] EXCEPT !.fase = Fechado(@)]
           ELSE soquete[x]]
    BY DEF Admite
  <2>2. ASSUME NEW x \in Soquetes
        PROVE  /\ soquete'[x] \in [fase : Fases, anterior : Soquetes \cup {Nada}]
               /\ soquete'[x].anterior \in {soquete[x].anterior, Nada}
    <3>1. soquete[x] \in [fase : Fases, anterior : Soquetes \cup {Nada}]
      BY DEF Tipos
    <3>2. Fechado(soquete[x].fase) \in Fases
      BY <3>1, FasesTipadas
    <3>3. CASE x = s
      <4>1. soquete'[x] = [fase |-> Listener(s), anterior |-> Nada]
        BY <2>1, <3>3
      <4>2. Listener(s) \in Fases
        BY FasesTipadas DEF Fases
      <4>3. QED
        BY <4>1, <4>2
    <3>4. CASE x # s /\ x = a
      <4>1. soquete'[x] = [soquete[x] EXCEPT !.fase = Fechado(soquete[x].fase)]
        BY <2>1, <3>4
      <4>2. QED
        BY <3>1, <3>2, <4>1
    <3>5. CASE x # s /\ x # a
      BY <2>1, <3>1, <3>5
    <3>6. QED
      BY <3>3, <3>4, <3>5
  <2>3. QED
    BY <2>1, <2>2
<1>5. janela' \in SUBSET Jogadores /\ expira' \in SUBSET Jogadores /\ naoInicio' \in {Nada, "dez", "teto"}
  BY DEF Admite, Tipos
<1>6. UNCHANGED <<partida, pendente, conexao, cadeia, devido, avisos>>
  BY DEF Admite
<1>7. Tipos' /\ Evolui
  BY <1>2, <1>3, <1>4, <1>5, <1>6 DEF Tipos, Fora, lobby, Evolui
<1>8. QED
  BY <1>2, <1>7

(* The pending return is read again, and sent.                             *)
LEMMA LerReenvioPasso ==
  ASSUME Tipos, Fora, fio # <<>>, NEW p \in SUBSET BOOLEAN, LerReenvio(p, Tail(fio))
  PROVE  /\ Tipos' /\ Evolui
         /\ \E N : /\ Anda(fio, 1, N, fio') /\ N \subseteq Respostas
                   /\ \A r \in N : /\ r.tipo = "reenvioLido"
                                    /\ \A av \in r.lido : /\ av.termino /\ Encerrada
                                                          /\ av.jogadores = partida.vivos
                   /\ Encerrada /\ p # {} /\ ~enviado =>
                        \E r \in N : r.tipo = "reenvioLido" /\ r.lido # {}
<1> DEFINE L == IF Encerrada THEN {Aviso(partida.vivos, b) : b \in p} ELSE {}
           r == Resposta("reenvioLido", Nada, L)
<1>1. ASSUME Encerrada, NEW b \in p
      PROVE  /\ Aviso(partida.vivos, b) \in Avisos
             /\ Aviso(partida.vivos, b).jogadores = partida.vivos
             /\ Aviso(partida.vivos, b).termino
  <2>1. partida.vivos \in SUBSET Jogadores
    BY <1>1, Elenco DEF Encerrada, Tipos, Partidas
  <2>2. b \in BOOLEAN
    OBVIOUS
  <2>3. QED
    BY <2>1, <2>2, AvisoTipado
<1>2. /\ L \in SUBSET Avisos
      /\ \A av \in L : av.termino /\ Encerrada /\ av.jogadores = partida.vivos
      /\ Encerrada /\ p # {} => L # {}
  BY <1>1
<1> HIDE DEF L
<1>3. r \in Respostas /\ r.tipo = "reenvioLido" /\ r.lido = L
  BY <1>2, RespostasFeitas DEF Resposta
<1>4. fio' = IF p = {} \/ enviado THEN Tail(fio) ELSE Append(Tail(fio), r)
  BY DEF LerReenvio, L
<1> HIDE DEF r
<1>5. PICK N : /\ N \in {{}, {r}} /\ Anda(fio, 1, N, fio') /\ fio' \in Seq(Respostas)
               /\ p # {} /\ ~enviado => N = {r}
  <2>1. CASE p = {} \/ enviado
    BY <1>4, <2>1, Cabeca
  <2>2. CASE ~ (p = {} \/ enviado)
    BY <1>3, <1>4, <2>2, Cabeca
  <2>3. QED
    BY <2>1, <2>2
<1>6. Tipos' /\ Evolui
  BY <1>5 DEF LerReenvio, Tipos, Fora, redis, lobby, Evolui
<1>7. QED
  BY <1>2, <1>3, <1>5, <1>6

LEMMA ReenviarPasso ==
  ASSUME Tipos, Fora, fio # <<>>, NEW L \in SUBSET Avisos, Reenviar(L, Tail(fio))
  PROVE  Tipos' /\ Evolui /\ Anda(fio, 1, {}, fio')
<1>1. fio' \in Seq(Respostas) /\ Anda(fio, 1, {}, fio')
  BY Cabeca DEF Reenviar
<1>2. enviado' \in BOOLEAN /\ retornos' \in SUBSET Avisos
  BY DEF Reenviar, Tipos
<1>3. Tipos' /\ Evolui
  BY <1>1, <1>2 DEF Reenviar, Tipos, Fora, redis, lobby, Evolui
<1>4. QED
  BY <1>1, <1>3

LEMMA MarcadaPasso ==
  ASSUME Tipos, Fora, fio # <<>>, NEW j \in Jogadores, Marcada(j, Tail(fio))
  PROVE  /\ Tipos' /\ Evolui
         /\ \E r \in Respostas : r.tipo = "lida" /\ Anda(fio, 1, {r}, fio')
<1> DEFINE v == Preparada /\ RosterTodoEmReconexao
           r == Resposta("lida", j, [vazia |-> v, emAndamento |-> EmAndamento])
<1>1. v \in BOOLEAN /\ EmAndamento \in BOOLEAN
  BY DEF EmAndamento, Preparada
<1>2. fio' = Append(Tail(fio), r)
  BY DEF Marcada
<1> HIDE DEF v
<1>3. r \in Respostas /\ r.tipo = "lida"
  BY <1>1, RespostasFeitas DEF Resposta
<1> HIDE DEF r
<1>4. fio' \in Seq(Respostas) /\ Anda(fio, 1, {r}, fio')
  BY <1>2, <1>3, Cabeca
<1>5. Tipos' /\ Evolui
  BY <1>4 DEF Marcada, Tipos, Fora, redis, lobby, Evolui
<1>6. QED
  BY <1>3, <1>4, <1>5

LEMMA LidaPasso ==
  ASSUME Tipos, Fora, fio # <<>>, NEW j \in Jogadores, NEW p, Lida(j, p, Tail(fio))
  PROVE  /\ Tipos' /\ Evolui
         /\ \/ Anda(fio, 1, {}, fio')
            \/ \E r \in Respostas : r.tipo = "janelaPosta" /\ Anda(fio, 1, {r}, fio')
<1> DEFINE r == Resposta("janelaPosta", j, Nada)
<1>1. r \in Respostas /\ r.tipo = "janelaPosta"
  BY RespostasFeitas DEF Resposta
<1>2. fio' = Tail(fio) \/ fio' = Append(Tail(fio), r)
  BY DEF Lida
<1> HIDE DEF r
<1>3. fio' \in Seq(Respostas) /\ (Anda(fio, 1, {}, fio') \/ Anda(fio, 1, {r}, fio'))
  BY <1>1, <1>2, Cabeca
<1>4. naoInicio' \in {Nada, "dez", "teto"} /\ janela' \in SUBSET Jogadores
  BY DEF Lida, Tipos
<1>5. Tipos' /\ Evolui
  BY <1>3, <1>4 DEF Lida, Tipos, Fora, lobby, Evolui
<1>6. QED
  BY <1>1, <1>3, <1>5

LEMMA JanelaPasso ==
  ASSUME Tipos, Fora, fio # <<>>, NEW j \in Jogadores, JanelaPosta(j, Tail(fio))
  PROVE  Tipos' /\ Evolui /\ Anda(fio, 1, {}, fio')
<1>1. fio' \in Seq(Respostas) /\ Anda(fio, 1, {}, fio')
  BY Cabeca DEF JanelaPosta
<1>2. Tipos' /\ Evolui
  BY <1>1 DEF JanelaPosta, Tipos, Fora, redis, lobby, Evolui
<1>3. QED
  BY <1>1, <1>2

LEMMA NaoInicioLidoPasso ==
  ASSUME Tipos, Fora, fio # <<>>, NEW d \in {"parar", "cancelar", "reagendar"},
         NaoInicioLido(d, Tail(fio))
  PROVE  /\ Tipos' /\ Evolui
         /\ \/ partida' = partida /\ Anda(fio, 1, {}, fio')
            \/ /\ Anda(fio, 1, {Resposta("cancelada", Nada, Preparada)}, fio')
               /\ partida' = IF Preparada THEN Nada ELSE partida
<1> DEFINE r == Resposta("cancelada", Nada, Preparada)
<1>1. r \in Respostas
  <2>1. Preparada \in BOOLEAN
    BY DEF Preparada
  <2>2. QED
    BY <2>1, RespostasFeitas
<1>2. \/ partida' = partida /\ fio' = Tail(fio)
      \/ fio' = Append(Tail(fio), r) /\ partida' = IF Preparada THEN Nada ELSE partida
  BY DEF NaoInicioLido, Cancelavel
<1> HIDE DEF r
<1>3. fio' \in Seq(Respostas) /\ (\/ partida' = partida /\ Anda(fio, 1, {}, fio')
                                  \/ /\ Anda(fio, 1, {r}, fio')
                                     /\ partida' = IF Preparada THEN Nada ELSE partida)
  BY <1>1, <1>2, Cabeca
<1>4. naoInicio' \in {Nada, "dez", "teto"}
  BY DEF NaoInicioLido, Tipos
<1>5. Evolui /\ partida' \in {Nada} \cup Partidas(roster)
  BY <1>2 DEF Evolui, Tipos
<1>6. Tipos'
  BY <1>3, <1>4, <1>5 DEF NaoInicioLido, Tipos, Fora, lobby
<1>7. QED
  BY <1>3, <1>5, <1>6 DEF r

LEMMA CanceladaPasso ==
  ASSUME Tipos, Fora, fio # <<>>, NEW feita, Cancelada(feita, Tail(fio))
  PROVE  Tipos' /\ Evolui /\ Anda(fio, 1, {}, fio')
<1>1. fio' \in Seq(Respostas) /\ Anda(fio, 1, {}, fio')
  BY Cabeca DEF Cancelada
<1>2. [jogadores |-> roster, desistencia |-> FALSE, termino |-> FALSE] \in Avisos
  BY Elenco DEF Avisos
<1>3. retornos' \in SUBSET Avisos /\ naoInicio' \in {Nada, "dez", "teto"}
  BY <1>2 DEF Cancelada, Tipos
<1>4. /\ soquete' \in [Soquetes -> [fase : Fases, anterior : Soquetes \cup {Nada}]]
      /\ \A x \in Soquetes : soquete'[x].anterior = soquete[x].anterior
  <2>1. \/ soquete' = soquete
        \/ soquete' = [s \in Soquetes |-> IF soquete[s].fase = "admitido"
               THEN [soquete[s] EXCEPT !.fase = "fechando"] ELSE soquete[s]]
    BY DEF Cancelada
  <2>2. CASE soquete' = soquete
    BY <2>2 DEF Tipos
  <2>3. CASE soquete' = [s \in Soquetes |-> IF soquete[s].fase = "admitido"
               THEN [soquete[s] EXCEPT !.fase = "fechando"] ELSE soquete[s]]
    BY <2>3 DEF Tipos, Fases
  <2>4. QED
    BY <2>1, <2>2, <2>3
<1>5. Tipos' /\ Evolui
  BY <1>1, <1>3, <1>4 DEF Cancelada, Tipos, Fora, redis, lobby, Evolui
<1>6. QED
  BY <1>1, <1>5

LEMMA ValidadePasso ==
  ASSUME Tipos, Fora, fio # <<>>, NEW j \in Jogadores, NEW v, ValidadeLida(j, v, Tail(fio))
  PROVE  /\ Tipos' /\ Evolui
         /\ \/ /\ v = "valida" /\ cadeia = <<>> /\ cadeia' = <<Tarefa(j, TRUE)>>
               /\ Anda(fio, 1, {Leitura(j)}, fio')
            \/ /\ v = "valida" /\ cadeia # <<>> /\ cadeia' = Append(cadeia, Tarefa(j, TRUE))
               /\ Anda(fio, 1, {}, fio')
            \/ cadeia' = cadeia /\ Anda(fio, 1, {}, fio')
<1>1. Leitura(j) \in Respostas
  BY LeituraTipada
<1>2. Tarefa(j, TRUE) \in Tarefas
  BY DEF Tarefa, Tarefas
<1>3. \/ v = "valida" /\ cadeia = <<>> /\ cadeia' = Append(cadeia, Tarefa(j, TRUE))
           /\ fio' = Append(Tail(fio), Leitura(j))
      \/ v = "valida" /\ cadeia # <<>> /\ cadeia' = Append(cadeia, Tarefa(j, TRUE))
           /\ fio' = Tail(fio)
      \/ cadeia' = cadeia /\ fio' = Tail(fio)
  BY DEF ValidadeLida, VagaNaCadeia
<1>4. Append(cadeia, Tarefa(j, TRUE)) \in Seq(Tarefas)
  BY <1>2, AppendProperties DEF Tipos
<1>5. Append(<<>>, Tarefa(j, TRUE)) = <<Tarefa(j, TRUE)>>
  OBVIOUS
<1>6. /\ fio' \in Seq(Respostas) /\ cadeia' \in Seq(Tarefas)
      /\ \/ /\ v = "valida" /\ cadeia = <<>> /\ cadeia' = <<Tarefa(j, TRUE)>>
            /\ Anda(fio, 1, {Leitura(j)}, fio')
         \/ /\ v = "valida" /\ cadeia # <<>> /\ cadeia' = Append(cadeia, Tarefa(j, TRUE))
            /\ Anda(fio, 1, {}, fio')
         \/ cadeia' = cadeia /\ Anda(fio, 1, {}, fio')
  <2>1. /\ Tail(fio) \in Seq(Respostas) /\ Anda(fio, 1, {}, Tail(fio))
        /\ Append(Tail(fio), Leitura(j)) \in Seq(Respostas)
        /\ Anda(fio, 1, {Leitura(j)}, Append(Tail(fio), Leitura(j)))
    BY <1>1, Cabeca
  <2>2. cadeia \in Seq(Tarefas)
    BY DEF Tipos
  <2>3. QED
    BY <1>3, <1>4, <1>5, <2>1, <2>2
<1>7. janela' \in SUBSET Jogadores
  BY DEF ValidadeLida, Tipos
<1>8. Tipos' /\ Evolui
  BY <1>6, <1>7 DEF ValidadeLida, Tipos, Fora, lobby, Evolui
<1>9. QED
  BY <1>6, <1>8

(* A conversion that still finds its Jogador absent.                       *)
LEMMA ConversaoPasso ==
  ASSUME Tipos, Fora, fio # <<>>, cadeia # <<>>, NEW j \in Jogadores,
         partida # Nada, ~partida.terminou, j \in partida.vivos,
         ConversaoLida(j, TRUE, Tail(fio))
  PROVE  /\ Tipos' /\ cadeia' = cadeia
         /\ \E N : Muta(j, TRUE, N) /\ Anda(fio, 1, N, fio')
<1>1. PICK fim \in FimDaDesistencia(partida.vivos) :
        Salvar(partida.vivos \ {j}, fim, TRUE, Tail(fio)) /\ UNCHANGED <<janela, cadeia>>
  BY DEF ConversaoLida
<1>2. fim \in BOOLEAN /\ (Cardinality(partida.vivos) = 2 => fim)
  BY DEF FimDaDesistencia
<1> DEFINE v == partida.vivos \ {j}
           r == Resposta("salva", Nada, IF fim THEN Aviso(v, TRUE) ELSE Nada)
<1>3. v \in SUBSET roster /\ v \in SUBSET Jogadores
  BY Elenco DEF Tipos, Partidas
<1>4. /\ r \in Respostas /\ fio' \in Seq(Respostas) /\ Anda(fio, 1, {r}, fio')
      /\ partida' \in Partidas(roster) /\ partida' # Nada
      /\ partida'.vivos = v /\ partida'.terminou = fim
      /\ partida'.estado = partida.estado /\ partida'.presenca = partida.presenca
  <2> HIDE DEF v
  <2>1. Salvar(v, fim, TRUE, Tail(fio))
    BY <1>1 DEF v
  <2>2. QED
    BY <1>2, <1>3, <2>1, SalvarPasso
<1>5. Muta(j, TRUE, {r})
  BY <1>2, <1>4 DEF Muta
<1>6. UNCHANGED <<pendente, conexao, soquete, naoInicio, expira, devido, avisos,
                 retornos, enviado, janela, cadeia>>
  BY <1>1 DEF ConversaoLida
<1>7. Tipos'
  BY <1>4, <1>6 DEF Tipos, Fora, lobby
<1>8. QED
  BY <1>4, <1>5, <1>6, <1>7

(* A command is judged on what it read, and written.                       *)
LEMMA ComandoPasso ==
  ASSUME Tipos, Fora, fio # <<>>, NEW j \in Jogadores, NEW vivos \in SUBSET Jogadores,
         j \in vivos, partida # Nada => ~partida.terminou /\ partida.vivos = vivos,
         ~cedo => partida # Nada, ComandoLido(j, vivos, Tail(fio))
  PROVE  /\ Tipos' /\ cadeia' = cadeia
         /\ \E N : /\ Anda(fio, 1, N, fio')
                   /\ EmVao(N) \/ \E d \in BOOLEAN : Muta(j, d, N)
<1>1. PICK v \in SUBSET Jogadores, fim \in BOOLEAN, d \in BOOLEAN :
        /\ Salvar(v, fim, d, Tail(fio))
        /\ \/ v = vivos \ {j} /\ d = TRUE /\ (Cardinality(vivos) = 2 => fim = TRUE)
           \/ v = vivos /\ fim = TRUE /\ d = FALSE
  <2>1. CASE \E fim \in FimDaDesistencia(vivos) : Salvar(vivos \ {j}, fim, TRUE, Tail(fio))
    <3>1. PICK fim \in FimDaDesistencia(vivos) : Salvar(vivos \ {j}, fim, TRUE, Tail(fio))
      BY <2>1
    <3>2. fim \in BOOLEAN /\ (Cardinality(vivos) = 2 => fim = TRUE)
      BY DEF FimDaDesistencia
    <3>3. QED
      BY <3>1, <3>2
  <2>2. CASE Salvar(vivos, TRUE, FALSE, Tail(fio))
    BY <2>2
  <2>3. QED
    BY <2>1, <2>2 DEF ComandoLido
<1> DEFINE r == Resposta("salva", Nada, IF fim THEN Aviso(v, d) ELSE Nada)
<1>2. v \in SUBSET Jogadores /\ (partida # Nada => v \subseteq roster)
  BY <1>1 DEF Tipos, Partidas
<1>3. /\ r \in Respostas /\ fio' \in Seq(Respostas) /\ Anda(fio, 1, {r}, fio')
      /\ partida = Nada => partida' = Nada
      /\ partida # Nada =>
           /\ partida' \in Partidas(roster) /\ partida' # Nada
           /\ partida'.vivos = v /\ partida'.terminou = fim
           /\ partida'.estado = partida.estado /\ partida'.presenca = partida.presenca
  BY <1>1, <1>2, SalvarPasso
<1>4. partida # Nada => Muta(j, d, {r})
  BY <1>1, <1>3 DEF Muta
<1>5. partida = Nada => EmVao({r})
  <2>1. IF fim THEN Aviso(v, d) \in Avisos /\ Aviso(v, d).termino ELSE TRUE
    BY <1>2, AvisoTipado
  <2>2. QED
    BY <1>3, <2>1 DEF EmVao
<1>6. UNCHANGED <<janela, pendente, conexao, soquete, naoInicio, expira, cadeia, devido,
                 avisos, retornos, enviado>>
  BY DEF ComandoLido
<1>7. Tipos'
  BY <1>3, <1>6 DEF Tipos, Fora, lobby
<1>8. QED
  BY <1>3, <1>4, <1>5, <1>6, <1>7

(* One that does not.                                                      *)
LEMMA DispensaPasso ==
  ASSUME Tipos, Fora, fio # <<>>, cadeia # <<>>, NEW j, ConversaoLida(j, FALSE, Tail(fio))
  PROVE  /\ Tipos' /\ Evolui /\ cadeia' = Tail(cadeia)
         /\ Anda(fio, 1, Proximas, fio')
<1>1. /\ janela' = JanelaLimpa /\ fio' = Tail(fio) \o ProximaLeitura
      /\ cadeia' = Tail(cadeia) /\ partida' = partida
      /\ UNCHANGED <<pendente, conexao, soquete, naoInicio, expira, devido, avisos,
                     retornos, enviado>>
  BY DEF ConversaoLida
<1>2. /\ fio' \in Seq(Respostas) /\ Anda(fio, 1, Proximas, fio')
      /\ cadeia' \in Seq(Tarefas) /\ janela' \in SUBSET Jogadores
  BY <1>1, SegueACadeia, CadeiaTipada
<1>3. Tipos' /\ Evolui
  BY <1>1, <1>2 DEF Tipos, Fora, lobby, Evolui
<1>4. QED
  BY <1>1, <1>2, <1>3

(* The post-batch work of a mutation without término.                      *)
LEMMA SalvoPasso ==
  ASSUME Tipos, Fora, fio # <<>>, cadeia # <<>>, Salvo(Nada, Tail(fio))
  PROVE  /\ Tipos' /\ Evolui /\ cadeia' = Tail(cadeia)
         /\ avisos' = avisos \cup {Head(cadeia).quem} /\ devido' = devido
         /\ Anda(fio, 1, Proximas, fio')
<1>1. /\ avisos' = avisos \cup {Head(cadeia).quem} /\ janela' = JanelaLimpa
      /\ fio' = Tail(fio) \o ProximaLeitura /\ cadeia' = Tail(cadeia)
      /\ UNCHANGED <<partida, devido, pendente, conexao, soquete, naoInicio, expira,
                     retornos, enviado>>
  BY DEF Salvo
<1>2. /\ fio' \in Seq(Respostas) /\ Anda(fio, 1, Proximas, fio')
      /\ cadeia' \in Seq(Tarefas)
  BY <1>1, SegueACadeia
<1>3. janela' \in SUBSET Jogadores /\ avisos' \in SUBSET Jogadores
  BY <1>1, CadeiaTipada DEF Tipos
<1>4. Tipos' /\ Evolui
  BY <1>1, <1>2, <1>3 DEF Tipos, Fora, lobby, Evolui
<1>5. QED
  BY <1>1, <1>2, <1>4

(* With término: retention and the detaches; the return is owed.           *)
LEMMA TerminoPasso ==
  ASSUME Tipos, Fora, fio # <<>>, NEW aviso \in Avisos, Salvo(aviso, Tail(fio))
  PROVE  /\ Tipos' /\ Evolui /\ cadeia' = cadeia /\ devido' = aviso
         /\ avisos' = avisos \cup (roster \ aviso.jogadores)
         /\ partida # Nada => partida'.presenca = partida.presenca
         /\ Anda(fio, 1, {}, fio')
<1>1. aviso # Nada
  BY Elenco
<1>2. /\ partida' = IF partida = Nada THEN Nada ELSE [partida EXCEPT !.prazo = TRUE]
      /\ devido' = aviso /\ avisos' = avisos \cup (roster \ aviso.jogadores)
      /\ fio' = Tail(fio)
      /\ UNCHANGED <<janela, cadeia, pendente, conexao, soquete, naoInicio, expira,
                     retornos, enviado>>
  BY <1>1 DEF Salvo
<1>3. fio' \in Seq(Respostas) /\ Anda(fio, 1, {}, fio')
  BY <1>2, Cabeca
<1>4. /\ partida' \in {Nada} \cup Partidas(roster) /\ Evolui
      /\ partida # Nada => partida'.presenca = partida.presenca
  <2>1. CASE partida = Nada
    BY <1>2, <2>1 DEF Evolui
  <2>2. CASE partida # Nada
    <3> DEFINE q == [partida EXCEPT !.prazo = TRUE]
    <3>1. /\ q \in Partidas(roster) /\ q.vivos = partida.vivos
          /\ q.terminou = partida.terminou /\ q.estado = partida.estado
          /\ q.presenca = partida.presenca
      BY <2>2 DEF Tipos, Partidas
    <3>2. partida' = q
      BY <1>2, <2>2
    <3> HIDE DEF q
    <3>3. partida' # Nada
      BY <3>1, <3>2, Elenco
    <3>4. QED
      BY <2>2, <3>1, <3>2, <3>3 DEF Evolui
  <2>3. QED
    BY <2>1, <2>2
<1>5. avisos' \in SUBSET Jogadores
  BY <1>2, Elenco DEF Tipos
<1>6. Tipos'
  BY <1>2, <1>3, <1>4, <1>5 DEF Tipos, Fora, lobby
<1>7. QED
  BY <1>2, <1>3, <1>4, <1>6

-----------------------------------------------------------------------------
(* Every step, as the chain sees it.                                       *)
Mutadora(r) == r.tipo \in {"comandoLido", "conversaoLida", "salva"}

Quieta ==
  /\ \E d, N :
       /\ d \in {0, 1} /\ Anda(fio, d, N, fio') /\ \A r \in N : ~ Mutadora(r)
       /\ d = 1 => fio # <<>> /\ ~ Mutadora(fio[1])
  /\ Evolui /\ devido' = devido /\ cedo' = cedo
  /\ \/ cadeia' = cadeia
     \/ cadeia # <<>> /\ \E x \in Tarefas : cadeia' = Append(cadeia, x)

Escreve ==
  /\ fio # <<>>
  /\ fio[1].tipo = "comandoLido" \/ (fio[1].tipo = "conversaoLida" /\ fio[1].lido)
  /\ cadeia' = cadeia /\ devido' = devido /\ cedo' = cedo
  /\ \E N : /\ Anda(fio, 1, N, fio')
            /\ EmVao(N) \/ \E d \in BOOLEAN : Muta(fio[1].alvo, d, N)

Entra ==
  /\ cadeia = <<>> /\ fio # <<>> /\ ~ Mutadora(fio[1])
  /\ \E j \in Jogadores : cadeia' = <<Tarefa(j, TRUE)>> /\ Anda(fio, 1, {Leitura(j)}, fio')
  /\ partida' = partida /\ devido' = devido /\ cedo' = cedo

Solta ==
  /\ fio # <<>> /\ Mutadora(fio[1]) /\ cadeia # <<>>
  /\ cadeia' = Tail(cadeia) /\ Anda(fio, 1, Proximas, fio')
  /\ partida' = partida /\ devido' = devido /\ cedo' = cedo

Deve ==
  /\ fio # <<>> /\ fio[1].tipo = "salva" /\ fio[1].lido # Nada
  /\ cadeia' = cadeia /\ devido' = fio[1].lido /\ Anda(fio, 1, {}, fio')
  /\ Evolui /\ cedo' = cedo

Envia ==
  /\ devido # Nada /\ devido' = Nada /\ cadeia # <<>>
  /\ cadeia' = Tail(cadeia) /\ Anda(fio, 0, Proximas, fio')
  /\ partida' = partida /\ cedo' = cedo

Queda ==
  fio' = <<>> /\ cadeia' = <<>> /\ devido' = Nada /\ partida' = partida /\ cedo' = cedo

PassoDaCadeia ==
  Quieta \/ Comanda \/ Escreve \/ Entra \/ Solta \/ Deve \/ Envia \/ Queda

(* A quiet step that leaves the replies as they are.                       *)
LEMMA SemResposta ==
  ASSUME Tipos, Evolui, UNCHANGED <<fio, cadeia, devido, cedo>>
  PROVE  Quieta
<1>1. Anda(fio, 0, {}, fio')
  BY AndaNada DEF Tipos
<1>2. QED
  BY <1>1 DEF Quieta

LEMMA UmaResposta ==
  ASSUME Tipos, Evolui, UNCHANGED <<cadeia, devido, cedo>>,
         NEW r, r.tipo \notin {"comandoLido", "conversaoLida", "salva"}, Anda(fio, 0, {r}, fio')
  PROVE  Quieta
  BY DEF Quieta, Mutadora

(* A reply of another kind is handled, and at most one follows it.         *)
LEMMA OutraResposta ==
  ASSUME Tipos, Evolui, UNCHANGED <<cadeia, devido, cedo>>, fio # <<>>,
         Head(fio).tipo \notin {"comandoLido", "conversaoLida", "salva"},
         NEW N, Anda(fio, 1, N, fio'),
         \A r \in N : r.tipo \notin {"comandoLido", "conversaoLida", "salva"}
  PROVE  Quieta
<1>1. ~ Mutadora(fio[1])
  BY Cabeca DEF Mutadora
<1>2. QED
  BY <1>1 DEF Quieta, Mutadora

(* It may also find a place behind the mutation that runs.                 *)
LEMMA RespostaCalada ==
  ASSUME Tipos, Evolui, devido' = devido, cedo' = cedo, fio # <<>>, ~ Mutadora(fio[1]),
         Anda(fio, 1, {}, fio'),
         \/ cadeia' = cadeia
         \/ cadeia # <<>> /\ \E x \in Tarefas : cadeia' = Append(cadeia, x)
  PROVE  Quieta
<1>1. \A r \in {} : ~ Mutadora(r)
  OBVIOUS
<1>2. QED
  BY <1>1 DEF Quieta

(* The running mutation is the head of the chain.                          *)
LEMMA CadeiaAtiva ==
  ASSUME Tipos, Corrente
  PROVE  /\ fio # <<>> /\ Mutadora(Head(fio)) => cadeia # <<>> /\ EmCurso = {1} /\ devido = Nada
         /\ devido # Nada => cadeia # <<>> /\ EmCurso = {}
         /\ cadeia = <<>> => EmCurso = {} /\ devido = Nada
<1>1. ASSUME fio # <<>>, Mutadora(Head(fio)) PROVE 1 \in EmCurso
  BY <1>1, Cabeca DEF EmCurso, Mutadora
<1>2. QED
  BY <1>1 DEF Corrente

LEMMA RespostaClassificada ==
  ASSUME Tipos, Corrente, Lote, Responder
  PROVE  Tipos' /\ PassoDaCadeia
<1> DEFINE r     == Head(fio)
           resto == Tail(fio)
<1>1. fio # <<>> /\ Fora /\ r \in Respostas /\ r = fio[1] /\ Certa(r) /\ cedo' = cedo
  BY Cabeca DEF Responder, Fora, Lote
<1>2. CASE r.tipo = "conectar" /\ Conectar(r.alvo, resto)
  <2>1. r.alvo \in Soquetes
    BY <1>1, <1>2, RespostaTipada
  <2>2. /\ Tipos' /\ Evolui
        /\ \E N : (\A x \in N : x.tipo = "concluir") /\ Anda(fio, 1, N, fio')
    BY <1>1, <1>2, <2>1, ConectarAnda
  <2>3. UNCHANGED <<cadeia, devido>>
    BY <1>2 DEF Conectar
  <2>4. Quieta
    BY <1>1, <1>2, <2>2, <2>3, OutraResposta
  <2>5. QED
    BY <2>2, <2>4 DEF PassoDaCadeia
<1>3. CASE r.tipo = "concluir" /\ Concluir(r.alvo, r.lido, resto)
  <2>1. r.alvo \in Soquetes
    BY <1>1, <1>3, RespostaTipada
  <2>2. LimparAdmissaoFalha(r.alvo, resto) \/ Admite(r.alvo, r.lido, resto)
    BY <1>3, ConcluirCasos
  <2>3. /\ Tipos' /\ Evolui
        /\ \E N : (\A x \in N : x.tipo = "pendenteLido") /\ Anda(fio, 1, N, fio')
    BY <1>1, <2>1, <2>2, LimparPasso, AdmitePasso, PendenciaTipada
  <2>4. UNCHANGED <<cadeia, devido>>
    BY <2>2 DEF LimparAdmissaoFalha, Admite
  <2>5. Quieta
    BY <1>1, <1>3, <2>3, <2>4, OutraResposta
  <2>6. QED
    BY <2>3, <2>5 DEF PassoDaCadeia
<1>4. CASE r.tipo = "marcada" /\ Marcada(r.alvo, resto)
  <2>1. r.alvo \in Jogadores
    BY <1>1, <1>4, RespostaTipada
  <2>2. /\ Tipos' /\ Evolui
        /\ \E N : (\A x \in N : x.tipo = "lida") /\ Anda(fio, 1, N, fio')
    BY <1>1, <1>4, <2>1, MarcadaPasso
  <2>3. UNCHANGED <<cadeia, devido>>
    BY <1>4 DEF Marcada
  <2>4. Quieta
    BY <1>1, <1>4, <2>2, <2>3, OutraResposta
  <2>5. QED
    BY <2>2, <2>4 DEF PassoDaCadeia
<1>5. CASE r.tipo = "lida" /\ Lida(r.alvo, r.lido, resto)
  <2>1. r.alvo \in Jogadores
    BY <1>1, <1>5, RespostaTipada
  <2>2. /\ Tipos' /\ Evolui
        /\ \E N : (\A x \in N : x.tipo = "janelaPosta") /\ Anda(fio, 1, N, fio')
    BY <1>1, <1>5, <2>1, LidaPasso
  <2>3. UNCHANGED <<cadeia, devido>>
    BY <1>5 DEF Lida
  <2>4. Quieta
    BY <1>1, <1>5, <2>2, <2>3, OutraResposta
  <2>5. QED
    BY <2>2, <2>4 DEF PassoDaCadeia
<1>6. CASE r.tipo = "janelaPosta" /\ JanelaPosta(r.alvo, resto)
  <2>1. r.alvo \in Jogadores
    BY <1>1, <1>6, RespostaTipada
  <2>2. Tipos' /\ Evolui /\ Anda(fio, 1, {}, fio')
    BY <1>1, <1>6, <2>1, JanelaPasso
  <2>3. UNCHANGED <<cadeia, devido>>
    BY <1>6 DEF JanelaPosta
  <2>4. Quieta
    BY <1>1, <1>6, <2>2, <2>3, OutraResposta
  <2>5. QED
    BY <2>2, <2>4 DEF PassoDaCadeia
<1>7. CASE r.tipo = "naoInicioLido" /\ NaoInicioLido(r.lido, resto)
  <2>1. r.lido \in {"parar", "cancelar", "reagendar"}
    BY <1>1, <1>7, RespostaTipada
  <2>2. /\ Tipos' /\ Evolui
        /\ \E N : (\A x \in N : x.tipo = "cancelada") /\ Anda(fio, 1, N, fio')
    BY <1>1, <1>7, <2>1, NaoInicioLidoPasso DEF Resposta
  <2>3. UNCHANGED <<cadeia, devido>>
    BY <1>7 DEF NaoInicioLido
  <2>4. Quieta
    BY <1>1, <1>7, <2>2, <2>3, OutraResposta
  <2>5. QED
    BY <2>2, <2>4 DEF PassoDaCadeia
<1>8. CASE r.tipo = "cancelada" /\ Cancelada(r.lido, resto)
  <2>1. Tipos' /\ Evolui /\ Anda(fio, 1, {}, fio')
    BY <1>1, <1>8, CanceladaPasso
  <2>2. UNCHANGED <<cadeia, devido>>
    BY <1>8 DEF Cancelada
  <2>3. Quieta
    BY <1>1, <1>8, <2>1, <2>2, OutraResposta
  <2>4. QED
    BY <2>1, <2>3 DEF PassoDaCadeia
<1>9. CASE r.tipo = "validadeLida" /\ ValidadeLida(r.alvo, r.lido, resto)
  <2>1. r.alvo \in Jogadores /\ ~ Mutadora(fio[1])
    BY <1>1, <1>9, RespostaTipada DEF Mutadora
  <2>2. /\ Tipos' /\ Evolui
        /\ \/ /\ cadeia = <<>> /\ cadeia' = <<Tarefa(r.alvo, TRUE)>>
              /\ Anda(fio, 1, {Leitura(r.alvo)}, fio')
           \/ /\ cadeia # <<>> /\ cadeia' = Append(cadeia, Tarefa(r.alvo, TRUE))
              /\ Anda(fio, 1, {}, fio')
           \/ cadeia' = cadeia /\ Anda(fio, 1, {}, fio')
    BY <1>1, <1>9, <2>1, ValidadePasso
  <2>3. partida' = partida /\ devido' = devido
    BY <1>9 DEF ValidadeLida
  <2>4. Tarefa(r.alvo, TRUE) \in Tarefas
    BY <2>1 DEF Tarefa, Tarefas
  <2>5. Entra \/ Quieta
    <3>1. ASSUME cadeia = <<>>, cadeia' = <<Tarefa(r.alvo, TRUE)>>,
                 Anda(fio, 1, {Leitura(r.alvo)}, fio')
          PROVE  Entra
      BY <1>1, <2>1, <2>3, <3>1 DEF Entra
    <3>2. ASSUME Anda(fio, 1, {}, fio'), cadeia # <<>>,
                 cadeia' = Append(cadeia, Tarefa(r.alvo, TRUE))
          PROVE  Quieta
      BY <1>1, <2>1, <2>2, <2>3, <2>4, <3>2, RespostaCalada
    <3>3. ASSUME Anda(fio, 1, {}, fio'), cadeia' = cadeia
          PROVE  Quieta
      BY <1>1, <2>1, <2>2, <2>3, <3>3, RespostaCalada
    <3>4. QED
      BY <2>2, <3>1, <3>2, <3>3
  <2>6. QED
    BY <2>2, <2>5 DEF PassoDaCadeia
<1>10. CASE r.tipo = "conversaoLida" /\ ConversaoLida(r.alvo, r.lido, resto)
  <2>1. r.alvo \in Jogadores /\ r.lido \in BOOLEAN
    BY <1>1, <1>10, RespostaTipada
  <2>2. cadeia # <<>> /\ Mutadora(fio[1]) /\ devido' = devido
    BY <1>1, <1>10, CadeiaAtiva DEF Mutadora, ConversaoLida
  <2>3. CASE r.lido = TRUE
    <3>1. partida # Nada /\ ~partida.terminou /\ r.alvo \in partida.vivos
      BY <1>1, <1>10, <2>3 DEF Certa
    <3>2. ConversaoLida(r.alvo, TRUE, resto)
      BY <1>10, <2>3
    <3>3. /\ Tipos' /\ cadeia' = cadeia
          /\ \E N : Muta(r.alvo, TRUE, N) /\ Anda(fio, 1, N, fio')
      BY <1>1, <2>1, <2>2, <3>1, <3>2, ConversaoPasso
    <3>4. Escreve
      BY <1>1, <1>10, <2>2, <2>3, <3>3 DEF Escreve
    <3>5. QED
      BY <3>3, <3>4 DEF PassoDaCadeia
  <2>4. CASE r.lido = FALSE
    <3>1. ConversaoLida(r.alvo, FALSE, resto)
      BY <1>10, <2>4
    <3>2. Tipos' /\ cadeia' = Tail(cadeia) /\ Anda(fio, 1, Proximas, fio')
      BY <1>1, <2>1, <2>2, <3>1, DispensaPasso
    <3>3. partida' = partida
      BY <3>1 DEF ConversaoLida
    <3>4. Solta
      BY <1>1, <2>2, <3>2, <3>3 DEF Solta
    <3>5. QED
      BY <3>2, <3>4 DEF PassoDaCadeia
  <2>5. QED
    BY <2>1, <2>3, <2>4
<1>11. CASE r.tipo = "salva" /\ Salvo(r.lido, resto)
  <2>1. r.lido \in {Nada} \cup Avisos
    BY <1>1, <1>11, RespostaTipada
  <2>2. cadeia # <<>> /\ Mutadora(fio[1])
    BY <1>1, <1>11, CadeiaAtiva DEF Mutadora
  <2>3. CASE r.lido = Nada
    <3>1. Salvo(Nada, resto)
      BY <1>11, <2>3
    <3>2. Tipos' /\ cadeia' = Tail(cadeia) /\ devido' = devido /\ Anda(fio, 1, Proximas, fio')
      BY <1>1, <2>2, <3>1, SalvoPasso
    <3>3. partida' = partida
      BY <3>1 DEF Salvo
    <3>4. Solta
      BY <1>1, <2>2, <3>2, <3>3 DEF Solta
    <3>5. QED
      BY <3>2, <3>4 DEF PassoDaCadeia
  <2>4. CASE r.lido \in Avisos
    <3>1. r.lido # Nada
      BY <2>4, Elenco
    <3>2. Tipos' /\ Evolui /\ cadeia' = cadeia /\ devido' = r.lido /\ Anda(fio, 1, {}, fio')
      BY <1>1, <1>11, <2>4, TerminoPasso
    <3>3. Deve
      BY <1>1, <1>11, <3>1, <3>2 DEF Deve
    <3>4. QED
      BY <3>2, <3>3 DEF PassoDaCadeia
  <2>5. QED
    BY <2>1, <2>3, <2>4
<1>12. CASE r.tipo = "comandoLido" /\ ComandoLido(r.alvo, r.lido, resto)
  <2>1. /\ r.alvo \in Jogadores /\ r.lido \in SUBSET Jogadores /\ devido' = devido
        /\ r.alvo \in r.lido /\ (~cedo => partida # Nada)
        /\ partida # Nada => ~partida.terminou /\ partida.vivos = r.lido
    BY <1>1, <1>12, RespostaTipada DEF Certa, ComandoLido
  <2>2. cadeia # <<>>
    BY <1>1, <1>12, CadeiaAtiva DEF Mutadora
  <2>3. /\ Tipos' /\ cadeia' = cadeia
        /\ \E N : /\ Anda(fio, 1, N, fio')
                  /\ EmVao(N) \/ \E d \in BOOLEAN : Muta(r.alvo, d, N)
    BY <1>1, <1>12, <2>1, <2>2, ComandoPasso
  <2>4. Escreve
    <3>1. fio # <<>> /\ fio[1].tipo = "comandoLido" /\ cadeia' = cadeia
      BY <1>1, <1>12, <2>3
    <3>2. devido' = devido /\ cedo' = cedo
      BY <1>1, <2>1
    <3>3. \E N : /\ Anda(fio, 1, N, fio')
                 /\ EmVao(N) \/ \E d \in BOOLEAN : Muta(fio[1].alvo, d, N)
      BY <1>1, <2>3
    <3>4. QED
      BY <3>1, <3>2, <3>3 DEF Escreve
  <2>5. QED
    BY <2>3, <2>4 DEF PassoDaCadeia
<1>13. CASE r.tipo = "pendenteLido" /\ LerReenvio(r.lido, resto)
  <2>1. r.lido \in SUBSET BOOLEAN
    BY <1>1, <1>13, RespostaTipada
  <2>2. /\ Tipos' /\ Evolui
        /\ \E N : (\A x \in N : x.tipo = "reenvioLido") /\ Anda(fio, 1, N, fio')
    BY <1>1, <1>13, <2>1, LerReenvioPasso
  <2>3. UNCHANGED <<cadeia, devido>>
    BY <1>13 DEF LerReenvio
  <2>4. Quieta
    BY <1>1, <1>13, <2>2, <2>3, OutraResposta
  <2>5. QED
    BY <2>2, <2>4 DEF PassoDaCadeia
<1>14. CASE r.tipo = "reenvioLido" /\ Reenviar(r.lido, resto)
  <2>1. r.lido \in SUBSET Avisos
    BY <1>1, <1>14, RespostaTipada
  <2>2. Tipos' /\ Evolui /\ Anda(fio, 1, {}, fio')
    BY <1>1, <1>14, <2>1, ReenviarPasso
  <2>3. UNCHANGED <<cadeia, devido>>
    BY <1>14 DEF Reenviar
  <2>4. Quieta
    BY <1>1, <1>14, <2>2, <2>3, OutraResposta
  <2>5. QED
    BY <2>2, <2>4 DEF PassoDaCadeia
<1>15. QED
  BY <1>2, <1>3, <1>4, <1>5, <1>6, <1>7, <1>8, <1>9, <1>10, <1>11, <1>12, <1>13, <1>14
     DEF Responder

LEMMA PassoClassificado ==
  ASSUME Tipos, Corrente, Lote, Next
  PROVE  Tipos' /\ PassoDaCadeia
<1>1. ASSUME NEW s \in Soquetes, PedirConexao(s) PROVE Tipos' /\ Quieta
  <2>1. Tipos' /\ Evolui /\ Anda(fio, 0, {Resposta("conectar", s, Nada)}, fio')
    BY <1>1, PedirPasso
  <2>2. UNCHANGED <<cadeia, devido, cedo>> /\ Resposta("conectar", s, Nada).tipo = "conectar"
    BY <1>1 DEF PedirConexao, Resposta
  <2>3. QED
    BY <2>1, <2>2, UmaResposta
<1>2. ASSUME NEW s \in Soquetes, FecharAntesDoListener(s) PROVE Tipos' /\ Quieta
  BY <1>2, FecharAntesPasso, SemResposta DEF FecharAntesDoListener
<1>3. ASSUME NEW s \in Soquetes, Fechar(s) PROVE Tipos' /\ Quieta
  <2>1. /\ Tipos' /\ Evolui
        /\ Anda(fio, 0, {}, fio') \/ Anda(fio, 0, {Resposta("marcada", Dono(s), Nada)}, fio')
    BY <1>3, FecharPasso
  <2>2. UNCHANGED <<cadeia, devido, cedo>> /\ Resposta("marcada", Dono(s), Nada).tipo = "marcada"
    BY <1>3 DEF Fechar, Resposta
  <2>3. CASE Anda(fio, 0, {}, fio')
    BY <2>1, <2>2, <2>3 DEF Quieta
  <2>4. CASE Anda(fio, 0, {Resposta("marcada", Dono(s), Nada)}, fio')
    BY <2>1, <2>2, <2>4, UmaResposta
  <2>5. QED
    BY <2>1, <2>3, <2>4
<1>4. ASSUME NEW j \in Jogadores, Comandar(j) PROVE Tipos' /\ Comanda
  BY <1>4, ComandarPasso
<1>6. ASSUME NEW j \in Jogadores, DispararExpiracao(j) PROVE Tipos' /\ Quieta
  <2>1. PICK r \in Respostas : r.tipo = "validadeLida" /\ Anda(fio, 0, {r}, fio')
    BY <1>6, DispararPasso
  <2>2. Tipos' /\ Evolui /\ UNCHANGED <<cadeia, devido, cedo>>
    BY <1>6, DispararPasso DEF DispararExpiracao
  <2>3. QED
    BY <2>1, <2>2, UmaResposta
<1>7. ASSUME NEW j \in Jogadores, ExpirarJanela(j) PROVE Tipos' /\ Quieta
  BY <1>7, ExpirarPasso, SemResposta DEF ExpirarJanela, memoria
<1>8. ASSUME NEW j \in Jogadores, SairDeOrfa(j) PROVE Tipos' /\ Quieta
  BY <1>8, SairPasso, SemResposta DEF SairDeOrfa, memoria
<1>9. ASSUME NEW j \in Jogadores, NEW chega \in BOOLEAN, Desvincular(j, chega) PROVE Tipos' /\ Quieta
  BY <1>9, DesvincularPasso, SemResposta DEF Desvincular
<1>10. ASSUME NEW r \in retornos, NEW chega \in BOOLEAN, Retornar(r, chega) PROVE Tipos' /\ Quieta
  BY <1>10, RetornarPasso, SemResposta DEF Retornar
<1>11. ASSUME DispararNaoInicio PROVE Tipos' /\ Quieta
  <2>1. PICK r \in Respostas : r.tipo = "naoInicioLido" /\ Anda(fio, 0, {r}, fio')
    BY <1>11, NaoInicioPasso
  <2>2. Tipos' /\ Evolui /\ UNCHANGED <<cadeia, devido, cedo>>
    BY <1>11, NaoInicioPasso DEF DispararNaoInicio
  <2>3. QED
    BY <2>1, <2>2, UmaResposta
<1>12. ASSUME EnviarRetorno PROVE Tipos' /\ Envia
  <2>1. cadeia # <<>>
    BY <1>12, CadeiaAtiva DEF EnviarRetorno
  <2>2. Tipos' /\ Anda(fio, 0, Proximas, fio')
    BY <1>12, <2>1, EnviarPasso
  <2>3. QED
    BY <1>12, <2>1, <2>2 DEF EnviarRetorno, Envia
<1>13. ASSUME Envelhecer PROVE Tipos' /\ Quieta
  BY <1>13, EnvelhecerPasso, SemResposta DEF Envelhecer
<1>14. ASSUME ExpirarPreparada PROVE Tipos' /\ Quieta
  BY <1>14, ExpirarPreparadaPasso, SemResposta DEF ExpirarPreparada, memoria
<1>15. ASSUME Cair PROVE Tipos' /\ Queda
  BY <1>15, CairPasso DEF Cair, Queda, redis
<1>16. ASSUME Voltar PROVE Tipos' /\ Quieta
  BY <1>16, VoltarPasso, SemResposta DEF Voltar
<1>17. QED
  BY <1>1, <1>2, <1>3, <1>4, <1>6, <1>7, <1>8, <1>9, <1>10, <1>11, <1>12, <1>13,
     <1>14, <1>15, <1>16, RespostaClassificada DEF Next, PassoDaCadeia

-----------------------------------------------------------------------------
(* The chain.                                                              *)

LEMMA EmCursoNat ==
  ASSUME Tipos
  PROVE  EmCurso \subseteq Nat \ {0} /\ Len(fio) \in Nat
  BY LenProperties DEF EmCurso, Tipos

LEMMA EmCursoNatDepois ==
  ASSUME Tipos'
  PROVE  EmCurso' \subseteq Nat \ {0}
  BY LenProperties DEF EmCurso, Tipos

LEMMA ContaRespostas ==
  ASSUME Tipos, Tipos', NEW d \in {0, 1}, NEW N, Anda(fio, d, N, fio')
  PROVE  /\ \A i \in EmCurso' : \/ i + d \in EmCurso /\ fio'[i] = fio[i + d]
                                \/ /\ i = Len(fio) - d + 1 /\ fio'[i] \in N /\ Mutadora(fio'[i])
         /\ \A i \in EmCurso : i > d => i - d \in EmCurso'
         /\ \A r \in N : Mutadora(r) => Len(fio) - d + 1 \in EmCurso'
  BY DEF Anda, EmCurso, Mutadora

(* No reply of a mutation comes or goes.                                   *)
LEMMA CorrenteQuieta ==
  ASSUME Tipos, Tipos', Corrente, Quieta
  PROVE  Corrente'
<1>1. PICK d, N :
        /\ d \in {0, 1} /\ Anda(fio, d, N, fio') /\ \A r \in N : ~ Mutadora(r)
        /\ d = 1 => fio # <<>> /\ ~ Mutadora(fio[1])
  BY DEF Quieta
<1>2. \A i \in EmCurso' : i + d \in EmCurso
  BY <1>1, ContaRespostas
<1>3. \A i \in EmCurso : i > d
  <2>1. 1 \in EmCurso => Mutadora(fio[1])
    BY DEF EmCurso, Mutadora
  <2>2. QED
    BY <1>1, <2>1, EmCursoNat
<1>4. EmCurso = {} <=> EmCurso' = {}
  BY <1>1, <1>2, <1>3, ContaRespostas
<1>5. \A i, k \in EmCurso' : i = k
  <2> SUFFICES ASSUME NEW i \in EmCurso', NEW k \in EmCurso' PROVE i = k
    OBVIOUS
  <2>1. i + d = k + d
    BY <1>2 DEF Corrente
  <2>2. i \in Nat /\ k \in Nat
    BY EmCursoNatDepois
  <2>3. QED
    BY <1>1, <2>1, <2>2
<1>6. cadeia' = <<>> <=> cadeia = <<>>
  <2>1. cadeia' = cadeia \/ (cadeia # <<>> /\ \E x \in Tarefas : cadeia' = Append(cadeia, x))
    BY DEF Quieta
  <2>2. \A x \in Tarefas : Append(cadeia, x) # <<>>
    <3> SUFFICES ASSUME NEW x \in Tarefas PROVE Append(cadeia, x) # <<>>
      OBVIOUS
    <3>1. cadeia \in Seq(Tarefas)
      BY DEF Tipos
    <3>2. Len(Append(cadeia, x)) = Len(cadeia) + 1 /\ Len(cadeia) \in Nat
      BY <3>1, AppendProperties, LenProperties
    <3>3. QED
      BY <3>2
  <2>3. QED
    BY <2>1, <2>2
<1>7. devido' = devido
  BY DEF Quieta
<1>8. QED
  BY <1>4, <1>5, <1>6, <1>7 DEF Corrente

(* The only reply of a mutation, if there is one, is handled, and those of *)
(* N are the only ones that may follow: at most one.                       *)
LEMMA CorrenteTroca ==
  ASSUME Tipos, Tipos', Corrente, NEW d \in {0, 1}, NEW N, Anda(fio, d, N, fio'),
         \A i \in EmCurso : i <= d
  PROVE  /\ \A i, k \in EmCurso' : i = k
         /\ EmCurso' = {} <=> \A r \in N : ~ Mutadora(r)
         /\ \A i \in DOMAIN fio' : Mutadora(fio'[i]) => fio'[i] \in N
<1>1. \A i \in EmCurso' : i = Len(fio) - d + 1 /\ fio'[i] \in N /\ Mutadora(fio'[i])
  <2> SUFFICES ASSUME NEW i \in EmCurso'
               PROVE  i = Len(fio) - d + 1 /\ fio'[i] \in N /\ Mutadora(fio'[i])
    OBVIOUS
  <2>1. i \in Nat \ {0}
    BY EmCursoNatDepois
  <2>2. i + d \notin EmCurso
    BY <2>1
  <2>3. QED
    BY <2>2, ContaRespostas
<1>2. \A i \in DOMAIN fio' : Mutadora(fio'[i]) => i \in EmCurso'
  BY DEF EmCurso, Mutadora
<1>3. QED
  BY <1>1, <1>2, ContaRespostas

LEMMA SegueUma ==
  ASSUME Tipos, cadeia # <<>>
  PROVE  /\ Tail(cadeia) = <<>> <=> Proximas = {}
         /\ \A r \in Proximas :
              /\ Mutadora(r) /\ r.tipo = "conversaoLida" /\ r.lido = Ausente(r.alvo)
              /\ Tail(cadeia) # <<>> /\ Head(Tail(cadeia)).quem = r.alvo
<1>1. /\ cadeia \in Seq(Tarefas) /\ Len(cadeia) \in Nat /\ Len(cadeia) > 0
      /\ Tail(cadeia) \in Seq(Tarefas) /\ Len(Tail(cadeia)) = Len(cadeia) - 1
  BY HeadTailProperties, EmptySeq, LenProperties DEF Tipos
<1>2. Tail(cadeia) = <<>> <=> ~ (Len(cadeia) > 1)
  <2>1. Tail(cadeia) = <<>> <=> Len(Tail(cadeia)) = 0
    BY <1>1, EmptySeq
  <2>2. QED
    BY <1>1, <2>1
<1>3. CASE Len(cadeia) > 1
  <2>1. cadeia[2] \in Tarefas
    BY <1>1, <1>3, LenProperties, ElementOfSeq
  <2>2. cadeia[2].quem \in Jogadores
    BY <2>1 DEF Tarefas
  <2>3. Head(Tail(cadeia)) = cadeia[2]
    BY <1>1, <1>3, HeadTailProperties, EmptySeq
  <2> DEFINE r == Leitura(cadeia[2].quem)
  <2>4. Proximas = {r}
    BY <1>3 DEF Proximas
  <2>5. r.tipo = "conversaoLida" /\ r.alvo = cadeia[2].quem /\ r.lido = Ausente(cadeia[2].quem)
    BY <2>2, LeituraTipada
  <2> HIDE DEF r
  <2>6. QED
    BY <1>2, <1>3, <2>3, <2>4, <2>5 DEF Mutadora
<1>4. CASE ~ (Len(cadeia) > 1)
  BY <1>2, <1>4 DEF Proximas
<1>5. QED
  BY <1>3, <1>4

(* What is written is answered, match or not.                              *)
LEMMA SalvaMutadora ==
  ASSUME NEW j, NEW N, EmVao(N) \/ \E d \in BOOLEAN : Muta(j, d, N)
  PROVE  /\ \E r \in N : Mutadora(r)
         /\ \A r \in N : r.tipo = "salva"
<1>1. \E l : N = {Resposta("salva", Nada, l)}
  BY DEF EmVao, Muta
<1>2. QED
  BY <1>1 DEF Resposta, Mutadora

LEMMA CorrenteFica ==
  ASSUME Tipos, Tipos', Corrente, PassoDaCadeia
  PROVE  Corrente'
<1>1. CASE Quieta
  BY <1>1, CorrenteQuieta
<1>2. CASE Comanda
  <2>1. EmCurso = {} /\ devido = Nada
    BY <1>2, CadeiaAtiva DEF Comanda
  <2>2. PICK j \in Jogadores : /\ cadeia' = <<Tarefa(j, FALSE)>>
                               /\ Anda(fio, 0, {Resposta("comandoLido", j, partida.vivos)}, fio')
    BY <1>2 DEF Comanda
  <2>3. Mutadora(Resposta("comandoLido", j, partida.vivos))
    BY DEF Resposta, Mutadora
  <2>4. EmCurso' # {} /\ \A i, k \in EmCurso' : i = k
    BY <2>1, <2>2, <2>3, CorrenteTroca
  <2>5. cadeia' # <<>> /\ devido' = Nada
    BY <1>2, <2>1, <2>2 DEF Comanda
  <2>6. QED
    BY <2>4, <2>5 DEF Corrente
<1>3. CASE Escreve
  <2>1. EmCurso = {1} /\ devido = Nada /\ cadeia # <<>>
    BY <1>3, CadeiaAtiva, Cabeca DEF Escreve, Mutadora
  <2>2. PICK N : /\ Anda(fio, 1, N, fio')
                 /\ EmVao(N) \/ \E d \in BOOLEAN : Muta(fio[1].alvo, d, N)
    BY <1>3 DEF Escreve
  <2>3. \E r \in N : Mutadora(r)
    BY <2>2, SalvaMutadora
  <2>4. EmCurso' # {} /\ \A i, k \in EmCurso' : i = k
    BY <2>1, <2>2, <2>3, CorrenteTroca
  <2>5. cadeia' # <<>> /\ devido' = Nada
    BY <1>3, <2>1 DEF Escreve
  <2>6. QED
    BY <2>4, <2>5 DEF Corrente
<1>4. CASE Entra
  <2>1. EmCurso = {} /\ devido = Nada
    BY <1>4, CadeiaAtiva DEF Entra
  <2>2. PICK j \in Jogadores : cadeia' = <<Tarefa(j, TRUE)>> /\ Anda(fio, 1, {Leitura(j)}, fio')
    BY <1>4 DEF Entra
  <2>3. Mutadora(Leitura(j))
    BY LeituraTipada DEF Mutadora
  <2>4. EmCurso' # {} /\ \A i, k \in EmCurso' : i = k
    BY <2>1, <2>2, <2>3, CorrenteTroca
  <2>5. cadeia' # <<>> /\ devido' = Nada
    BY <1>4, <2>1, <2>2 DEF Entra
  <2>6. QED
    BY <2>4, <2>5 DEF Corrente
<1>5. CASE Solta
  <2>1. EmCurso = {1} /\ devido = Nada
    BY <1>5, CadeiaAtiva, Cabeca DEF Solta
  <2>2. (EmCurso' = {} <=> \A r \in Proximas : ~ Mutadora(r)) /\ \A i, k \in EmCurso' : i = k
    BY <1>5, <2>1, CorrenteTroca DEF Solta
  <2>3. cadeia' = <<>> <=> EmCurso' = {}
    BY <1>5, <2>2, SegueUma DEF Solta
  <2>4. QED
    BY <1>5, <2>1, <2>2, <2>3 DEF Corrente, Solta
<1>6. CASE Deve
  <2>1. EmCurso = {1} /\ cadeia # <<>>
    BY <1>6, CadeiaAtiva, Cabeca DEF Deve, Mutadora
  <2>2. EmCurso' = {}
    BY <1>6, <2>1, CorrenteTroca DEF Deve
  <2>3. QED
    BY <1>6, <2>1, <2>2 DEF Corrente, Deve
<1>7. CASE Envia
  <2>1. EmCurso = {}
    BY <1>7, CadeiaAtiva DEF Envia
  <2>2. (EmCurso' = {} <=> \A r \in Proximas : ~ Mutadora(r)) /\ \A i, k \in EmCurso' : i = k
    BY <1>7, <2>1, CorrenteTroca DEF Envia
  <2>3. cadeia' = <<>> <=> EmCurso' = {}
    BY <1>7, <2>2, SegueUma DEF Envia
  <2>4. QED
    BY <1>7, <2>2, <2>3 DEF Corrente, Envia
<1>8. CASE Queda
  <2>1. EmCurso' = {}
    BY <1>8, EmptySeq DEF Queda, EmCurso
  <2>2. QED
    BY <1>8, <2>1 DEF Queda, Corrente
<1>9. QED
  BY <1>1, <1>2, <1>3, <1>4, <1>5, <1>6, <1>7, <1>8 DEF PassoDaCadeia

-----------------------------------------------------------------------------
(* What the replies say.                                                   *)
LEMMA DizFica ==
  ASSUME Tipos, NoTempo, Evolui, cedo' = cedo, NEW r, Diz(r)
  PROVE  Diz(r)'
  BY DEF Diz, Fim, Evolui, NoTempo, Preparada, Tipos

LEMMA CertaFica ==
  ASSUME Tipos, NoTempo, Evolui, cedo' = cedo, NEW r, Certa(r),
         Mutadora(r) => Head(cadeia').quem = Head(cadeia).quem
  PROVE  Certa(r)'
<1>1. ASSUME r.tipo = "conversaoLida", r.lido
      PROVE  /\ partida' # Nada /\ partida'.estado = "em_andamento" /\ ~partida'.terminou
             /\ r.alvo \in partida'.vivos /\ Head(cadeia').quem = r.alvo
  BY <1>1 DEF Certa, Evolui, Preparada, Mutadora
<1>2. ASSUME r.tipo = "salva", r.lido = Nada, partida' # Nada
      PROVE  Head(cadeia').quem \notin partida'.vivos
  BY <1>2 DEF Certa, Evolui, Mutadora
<1>3. ASSUME r.tipo = "salva", r.lido # Nada PROVE Diz(r.lido)'
  <2>1. Diz(r.lido)
    BY <1>3 DEF Certa
  <2>2. QED
    BY <2>1, DizFica
<1>4. ASSUME r.tipo = "comandoLido"
      PROVE  /\ r.alvo \in r.lido /\ Head(cadeia').quem = r.alvo
             /\ partida' # Nada => ~partida'.terminou /\ partida'.vivos = r.lido
             /\ ~cedo' => partida' # Nada /\ partida'.estado = "em_andamento"
  BY <1>4 DEF Certa, Evolui, Preparada, Mutadora
<1>5. QED
  BY <1>1, <1>2, <1>3, <1>4 DEF Certa

(* The reply of the mutation that just wrote.                              *)
LEMMA CertaNasce ==
  ASSUME Tipos, NoTempo, NEW j, NEW d \in BOOLEAN, NEW N, Muta(j, d, N), Tipos',
         Head(cadeia').quem = j, NEW r \in N
  PROVE  Certa(r)'
<1>1. r = Resposta("salva", Nada, IF partida'.terminou THEN Aviso(partida'.vivos, d) ELSE Nada)
  BY DEF Muta
<1>2. partida' # Nada
  BY DEF Muta
<1>3. CASE partida'.terminou
  <2>1. PICK av : av = Aviso(partida'.vivos, d)
    OBVIOUS
  <2>2. /\ av.jogadores = partida'.vivos /\ av.desistencia = d /\ av.termino = TRUE
        /\ av = [jogadores |-> partida'.vivos, desistencia |-> d, termino |-> TRUE]
    BY <2>1 DEF Aviso
  <2>3. Diz(av)'
    BY <1>2, <1>3, <2>2 DEF Diz, Fim
  <2>4. r.lido = av /\ r.tipo = "salva"
    BY <1>1, <1>3, <2>1 DEF Resposta
  <2>5. av # Nada
    <3>1. partida'.vivos \subseteq Jogadores
      BY <1>2, VidaAssumption DEF Tipos, Partidas
    <3>2. av \in Avisos
      BY <2>2, <3>1 DEF Avisos
    <3>3. QED
      BY <3>2, VidaAssumption
  <2>6. QED
    BY <2>3, <2>4, <2>5 DEF Certa
<1>4. CASE ~ partida'.terminou
  <2>1. r.lido = Nada /\ r.tipo = "salva"
    BY <1>1, <1>4 DEF Resposta
  <2>2. partida'.vivos = partida.vivos \ {j}
    BY <1>4 DEF Muta
  <2>3. QED
    BY <2>1, <2>2 DEF Certa
<1>5. QED
  BY <1>3, <1>4

LEMMA CertaEmVao ==
  ASSUME Tipos, NEW N, EmVao(N), cedo' = cedo, NEW r \in N
  PROVE  Certa(r)'
<1>1. PICK av \in {Nada} \cup Avisos :
        N = {Resposta("salva", Nada, av)} /\ (av # Nada => av.termino)
  BY DEF EmVao
<1>2. r.tipo = "salva" /\ r.lido = av
  BY <1>1 DEF Resposta
<1>3. av # Nada => Diz(av)'
  BY <1>1 DEF EmVao, Diz, Fim
<1>4. QED
  BY <1>2, <1>3 DEF Certa, EmVao

(* A command that was read just now.                                       *)
LEMMA CertaComanda ==
  ASSUME Tipos, NEW j, PodeComandar(j), partida' = partida, cedo' = (cedo \/ Preparada),
         Head(cadeia').quem = j, NEW r, r = Resposta("comandoLido", j, partida.vivos)
  PROVE  Certa(r)'
<1>1. r.tipo = "comandoLido" /\ r.alvo = j /\ r.lido = partida.vivos
  BY DEF Resposta
<1>2. /\ partida # Nada /\ ~partida.terminou /\ j \in partida.vivos
      /\ partida.estado \in {"preparada", "em_andamento"}
  BY DEF PodeComandar, Tipos, Partidas
<1>3. ~cedo' => partida.estado = "em_andamento"
  BY <1>2 DEF Preparada
<1>4. QED
  BY <1>1, <1>2, <1>3 DEF Certa

LEMMA CertaOutra ==
  ASSUME NEW r, ~ Mutadora(r)
  PROVE  Certa(r)'
  BY DEF Certa, Mutadora

(* A conversion that was read just now.                                    *)
LEMMA CertaLida ==
  ASSUME Tipos, partida' = partida, NEW r,
         r.tipo = "conversaoLida", r.lido = Ausente(r.alvo), Head(cadeia').quem = r.alvo
  PROVE  Certa(r)'
  BY DEF Certa, Ausente, EmAndamento

LEMMA CabecaFica ==
  ASSUME NEW X, NEW q \in Seq(X), q # <<>>, NEW x \in X
  PROVE  Head(Append(q, x)) = Head(q)
<1>1. Len(q) \in Nat \ {0} /\ Head(q) = q[1]
  BY EmptySeq, HeadTailProperties
<1>2. Append(q, x)[1] = q[1] /\ Append(q, x) \in Seq(X) /\ Len(Append(q, x)) = Len(q) + 1
  BY <1>1, AppendProperties
<1>3. Append(q, x) # <<>>
  BY <1>1, <1>2, EmptySeq
<1>4. QED
  BY <1>1, <1>2, <1>3, HeadTailProperties

(* When no reply of a mutation stays, those that come decide.              *)
LEMMA LoteDaTroca ==
  ASSUME Tipos, Tipos', Corrente, NEW d \in {0, 1}, NEW N, Anda(fio, d, N, fio'),
         \A i \in EmCurso : i <= d, \A r \in N : Certa(r)'
  PROVE  (\A i \in DOMAIN fio : Certa(fio[i]))'
<1> SUFFICES ASSUME NEW i \in DOMAIN fio' PROVE Certa(fio[i])'
  OBVIOUS
<1>1. PICK r : r = fio'[i]
  OBVIOUS
<1>2. CASE Mutadora(r)
  <2>1. r \in N
    BY <1>1, <1>2, CorrenteTroca
  <2>2. QED
    BY <1>1, <2>1
<1>3. CASE ~ Mutadora(r)
  BY <1>1, <1>3, CertaOutra
<1>4. QED
  BY <1>2, <1>3

LEMMA LoteFica ==
  ASSUME Tipos, Tipos', Corrente, Lote, NoTempo, PassoDaCadeia
  PROVE  Lote'
<1>1. CASE Quieta
  <2>1. PICK d, N : d \in {0, 1} /\ Anda(fio, d, N, fio') /\ \A r \in N : ~ Mutadora(r)
    BY <1>1 DEF Quieta
  <2>2. ASSUME NEW i \in DOMAIN fio' PROVE Certa(fio[i])'
    <3>1. PICK r : r = fio'[i]
      OBVIOUS
    <3>2. CASE ~ Mutadora(r)
      BY <3>1, <3>2, CertaOutra
    <3>3. CASE Mutadora(r)
      <4>1. i + d \in DOMAIN fio /\ r = fio[i + d]
        BY <2>1, <3>1, <3>3 DEF Anda
      <4>2. Certa(r)
        BY <4>1 DEF Lote
      <4>3. cadeia # <<>>
        <5>1. i + d \in EmCurso
          BY <3>3, <4>1 DEF EmCurso, Mutadora
        <5>2. QED
          BY <5>1 DEF Corrente
      <4>4. Head(cadeia') = Head(cadeia)
        <5>1. \A x \in Tarefas : Head(Append(cadeia, x)) = Head(cadeia)
          BY <4>3, CabecaFica DEF Tipos
        <5>2. QED
          BY <1>1, <5>1 DEF Quieta
      <4>5. Certa(r)'
        BY <1>1, <4>2, <4>4, CertaFica DEF Quieta
      <4>6. QED
        BY <3>1, <4>5
    <3>4. QED
      BY <3>2, <3>3
  <2>3. devido' # Nada => Diz(devido)'
    <3>1. PICK r : r = devido
      OBVIOUS
    <3>2. Diz(r) => Diz(r)'
      BY <1>1, DizFica DEF Quieta
    <3>3. QED
      BY <1>1, <3>1, <3>2 DEF Quieta, Lote
  <2>4. QED
    BY <2>2, <2>3 DEF Lote
<1>2. CASE Comanda
  <2>1. EmCurso = {} /\ devido' = Nada
    BY <1>2, CadeiaAtiva DEF Comanda
  <2>2. PICK j \in Jogadores : /\ cadeia' = <<Tarefa(j, FALSE)>> /\ PodeComandar(j)
                               /\ Anda(fio, 0, {Resposta("comandoLido", j, partida.vivos)}, fio')
    BY <1>2 DEF Comanda
  <2>3. Head(cadeia').quem = j
    BY <2>2 DEF Tarefa
  <2>4. ASSUME NEW r \in {Resposta("comandoLido", j, partida.vivos)} PROVE Certa(r)'
    BY <1>2, <2>2, <2>3, CertaComanda DEF Comanda
  <2>5. (\A i \in DOMAIN fio : Certa(fio[i]))'
    BY <2>1, <2>2, <2>4, LoteDaTroca
  <2>6. QED
    BY <2>1, <2>5 DEF Lote
<1>3. CASE Escreve
  <2>1. EmCurso = {1} /\ devido' = Nada /\ cadeia # <<>>
    BY <1>3, CadeiaAtiva, Cabeca DEF Escreve, Mutadora
  <2>2. PICK j, N : /\ j = fio[1].alvo /\ Anda(fio, 1, N, fio')
                    /\ EmVao(N) \/ \E d \in BOOLEAN : Muta(j, d, N)
    BY <1>3 DEF Escreve
  <2>3. Head(cadeia').quem = j
    BY <1>3, <2>2, Cabeca DEF Escreve, Lote, Certa
  <2>4. \A r \in N : Certa(r)'
    BY <1>3, <2>2, <2>3, CertaNasce, CertaEmVao DEF Escreve
  <2>5. (\A i \in DOMAIN fio : Certa(fio[i]))'
    BY <2>1, <2>2, <2>4, LoteDaTroca
  <2>6. QED
    BY <2>1, <2>5 DEF Lote
<1>4. CASE Entra
  <2>1. EmCurso = {} /\ devido' = Nada
    BY <1>4, CadeiaAtiva DEF Entra
  <2>2. PICK j \in Jogadores : cadeia' = <<Tarefa(j, TRUE)>> /\ Anda(fio, 1, {Leitura(j)}, fio')
    BY <1>4 DEF Entra
  <2>3. Head(cadeia').quem = j
    BY <2>2 DEF Tarefa
  <2>4. ASSUME NEW r \in {Leitura(j)} PROVE Certa(r)'
    <3>1. r.tipo = "conversaoLida" /\ r.alvo = j /\ r.lido = Ausente(j)
      BY LeituraTipada
    <3>2. QED
      BY <1>4, <2>3, <3>1, CertaLida DEF Entra
  <2>5. (\A i \in DOMAIN fio : Certa(fio[i]))'
    BY <2>1, <2>2, <2>4, LoteDaTroca
  <2>6. QED
    BY <2>1, <2>5 DEF Lote
<1>5. CASE Solta
  <2>1. EmCurso = {1} /\ devido' = Nada
    BY <1>5, CadeiaAtiva, Cabeca DEF Solta
  <2>2. ASSUME NEW r \in Proximas PROVE Certa(r)'
    <3>1. r.tipo = "conversaoLida" /\ r.lido = Ausente(r.alvo) /\ Head(cadeia').quem = r.alvo
      BY <1>5, SegueUma DEF Solta
    <3>2. QED
      BY <1>5, <3>1, CertaLida DEF Solta
  <2>3. (\A i \in DOMAIN fio : Certa(fio[i]))'
    BY <1>5, <2>1, <2>2, LoteDaTroca DEF Solta
  <2>4. QED
    BY <2>1, <2>3 DEF Lote
<1>6. CASE Deve
  <2>1. EmCurso = {1} /\ Certa(fio[1])
    BY <1>6, CadeiaAtiva, Cabeca DEF Deve, Mutadora, Lote
  <2>2. (\A i \in DOMAIN fio : Certa(fio[i]))'
    BY <1>6, <2>1, LoteDaTroca DEF Deve
  <2>3. PICK r : r = fio[1].lido
    OBVIOUS
  <2>4. Diz(r)
    BY <1>6, <2>1, <2>3 DEF Deve, Certa
  <2>5. Diz(r)' /\ devido' = r
    BY <1>6, <2>3, <2>4, DizFica DEF Deve
  <2>6. QED
    BY <2>2, <2>5 DEF Lote
<1>7. CASE Envia
  <2>1. EmCurso = {} /\ devido' = Nada
    BY <1>7, CadeiaAtiva DEF Envia
  <2>2. ASSUME NEW r \in Proximas PROVE Certa(r)'
    <3>1. r.tipo = "conversaoLida" /\ r.lido = Ausente(r.alvo) /\ Head(cadeia').quem = r.alvo
      BY <1>7, SegueUma DEF Envia
    <3>2. QED
      BY <1>7, <3>1, CertaLida DEF Envia
  <2>3. (\A i \in DOMAIN fio : Certa(fio[i]))'
    BY <1>7, <2>1, <2>2, LoteDaTroca DEF Envia
  <2>4. QED
    BY <2>1, <2>3 DEF Lote
<1>8. CASE Queda
  BY <1>8, EmptySeq DEF Queda, Lote
<1>9. QED
  BY <1>1, <1>2, <1>3, <1>4, <1>5, <1>6, <1>7, <1>8 DEF PassoDaCadeia

LEMMA NoTempoFica ==
  ASSUME Tipos, Tipos', Lote, NoTempo, PassoDaCadeia
  PROVE  NoTempo'
<1>1. CASE Evolui /\ cedo' = cedo
  BY <1>1 DEF NoTempo, Evolui
<1>2. CASE Comanda
  BY <1>2 DEF Comanda, PodeComandar, NoTempo
<1>3. CASE Escreve
  <2>1. Certa(fio[1])
    BY <1>3, Cabeca DEF Escreve, Lote
  <2>2. ~cedo /\ partida # Nada => partida.estado = "em_andamento"
    BY <1>3, <2>1 DEF Escreve, Certa
  <2>3. QED
    BY <1>3, <2>2 DEF Escreve, EmVao, Muta, NoTempo
<1>4. QED
  BY <1>1, <1>2, <1>3 DEF PassoDaCadeia, Quieta, Entra, Solta, Deve, Envia, Queda, Evolui

LEMMA BastamFica ==
  ASSUME Tipos, Tipos', Bastam, PassoDaCadeia
  PROVE  Bastam'
<1>1. CASE Evolui
  BY <1>1 DEF Bastam, Evolui
<1>2. ASSUME NEW j, NEW d \in BOOLEAN, NEW N, Muta(j, d, N) PROVE Bastam'
  <2>1. IsFiniteSet(partida.vivos)
    <3>1. partida.vivos \subseteq roster
      BY <1>2 DEF Muta, Tipos, Partidas
    <3>2. QED
      BY <3>1, Elenco, FS_Subset
  <2>2. /\ Cardinality(partida.vivos) \in Nat
        /\ Cardinality(partida.vivos \ {j}) = Cardinality(partida.vivos) - 1
    BY <1>2, <2>1, FS_CardinalityType, FS_RemoveElement DEF Muta
  <2>3. Cardinality(partida.vivos) >= 2
    BY <1>2 DEF Bastam, Muta
  <2>4. /\ partida'.terminou \in BOOLEAN
        /\ \/ d /\ partida'.vivos = partida.vivos \ {j}
           \/ partida'.terminou /\ partida'.vivos = partida.vivos
        /\ d /\ Cardinality(partida.vivos) = 2 => partida'.terminou
    BY <1>2 DEF Muta
  <2>5. CASE partida'.vivos = partida.vivos /\ partida'.terminou
    BY <2>2, <2>3, <2>5 DEF Bastam
  <2>6. CASE d /\ partida'.vivos = partida.vivos \ {j}
    <3>1. Cardinality(partida'.vivos) = Cardinality(partida.vivos) - 1
      BY <2>2, <2>6
    <3>2. Cardinality(partida.vivos) = 2 => partida'.terminou
      BY <2>4, <2>6
    <3>3. QED
      BY <2>2, <2>3, <2>4, <3>1, <3>2 DEF Bastam
  <2>7. QED
    BY <2>4, <2>5, <2>6
<1>3. CASE Escreve
  <2>1. PICK N : EmVao(N) \/ \E d \in BOOLEAN : Muta(fio[1].alvo, d, N)
    BY <1>3 DEF Escreve
  <2>2. QED
    BY <1>1, <1>2, <2>1 DEF EmVao, Evolui
<1>4. QED
  BY <1>1, <1>3 DEF PassoDaCadeia, Quieta, Entra, Solta, Deve, Envia, Queda, Evolui, Comanda

-----------------------------------------------------------------------------
(* Every step, as the match sees it.                                       *)
Avanca ==
  /\ partida = Nada => partida' = Nada
  /\ partida # Nada /\ partida' = Nada => Preparada
  /\ partida' # Nada => partida'.vivos \subseteq partida.vivos
  /\ partida' # Nada /\ EmAndamento => partida'.estado = "em_andamento"
  /\ Fim => Fim'
  /\ Fim /\ partida' # Nada => partida'.vivos = partida.vivos
  /\ cedo => cedo'

LEMMA PartidaAvanca ==
  ASSUME Tipos, PassoDaCadeia
  PROVE  Avanca
<1>1. cedo => cedo'
  BY DEF PassoDaCadeia, Quieta, Comanda, Escreve, Entra, Solta, Deve, Envia, Queda
<1>2. CASE Evolui
  <2>1. Fim => Fim'
    BY <1>2 DEF Evolui, Fim
  <2>2. QED
    BY <1>1, <1>2, <2>1 DEF Avanca, Evolui, Fim, Preparada, EmAndamento
<1>3. ASSUME NEW j, NEW d, NEW N, Muta(j, d, N) PROVE Avanca
  BY <1>1, <1>3 DEF Avanca, Muta, Fim, EmAndamento
<1>4. QED
  BY <1>2, <1>3 DEF PassoDaCadeia, Quieta, Entra, Solta, Deve, Envia, Queda, Evolui,
                    Comanda, Escreve, EmVao

(* A match that started is never removed.                                  *)
LEMMA NaoRemoveIniciada ==
  ASSUME Tipos, PassoDaCadeia, EmAndamento
  PROVE  partida' # Nada
  BY PartidaAvanca DEF Avanca, EmAndamento, Preparada

-----------------------------------------------------------------------------
(* Every step, as the admissions, the cancellation and the return that is   *)
(* read again see it.                                                      *)
Recado(r) == r.tipo \in {"concluir", "cancelada", "pendenteLido", "reenvioLido"}

Admitidos == {s \in Soquetes : soquete[s].fase = "admitido"}

Alheia ==
  /\ \E d, N :
       /\ d \in {0, 1} /\ Anda(fio, d, N, fio') /\ \A r \in N : ~ Recado(r)
       /\ d = 1 => fio # <<>> /\ ~ Recado(fio[1])
  /\ noAr' = noAr /\ (partida' = Nada => partida = Nada)
  /\ Admitidos' \subseteq Admitidos

Conecta == fio # <<>> /\ fio[1].tipo = "conectar" /\ Fora
           /\ \E s \in Soquetes : Conectar(s, Tail(fio))

Conclui == fio # <<>> /\ fio[1].tipo = "concluir" /\ Fora
           /\ \E s \in Soquetes : \/ fio[1].lido.estado = "nula" /\ LimparAdmissaoFalha(s, Tail(fio))
                                  \/ Admite(s, fio[1].lido, Tail(fio))

Cancelando == /\ fio # <<>> /\ fio[1].tipo = "naoInicioLido" /\ Fora /\ soquete' = soquete
              /\ Anda(fio, 1, {Resposta("cancelada", Nada, Preparada)}, fio')
              /\ partida' = IF Preparada THEN Nada ELSE partida

Cancelado == fio # <<>> /\ fio[1].tipo = "cancelada" /\ Fora /\ Cancelada(fio[1].lido, Tail(fio))

Relido == fio # <<>> /\ fio[1].tipo = "pendenteLido" /\ Fora /\ LerReenvio(fio[1].lido, Tail(fio))

Reenviado == fio # <<>> /\ fio[1].tipo = "reenvioLido" /\ Fora /\ Reenviar(fio[1].lido, Tail(fio))

PassoDoRecado == Alheia \/ Conecta \/ Conclui \/ Cancelando \/ Cancelado \/ Relido \/ Reenviado
                   \/ Cair \/ Voltar \/ ExpirarPreparada

LEMMA SemRecado ==
  ASSUME Tipos, UNCHANGED <<fio, soquete, noAr>>, partida' = Nada => partida = Nada
  PROVE  Alheia
<1>1. Anda(fio, 0, {}, fio')
  BY AndaNada DEF Tipos
<1>2. Admitidos' \subseteq Admitidos
  BY DEF Admitidos
<1>3. QED
  BY <1>1, <1>2 DEF Alheia

LEMMA UmRecado ==
  ASSUME Tipos, noAr' = noAr, partida' = Nada => partida = Nada, Admitidos' \subseteq Admitidos,
         NEW r, ~ Recado(r), Anda(fio, 0, {r}, fio')
  PROVE  Alheia
  BY DEF Alheia

LEMMA OutroRecado ==
  ASSUME Tipos, noAr' = noAr, partida' = Nada => partida = Nada, Admitidos' \subseteq Admitidos,
         fio # <<>>, ~ Recado(Head(fio)),
         NEW N, \A r \in N : ~ Recado(r), Anda(fio, 1, N, fio')
  PROVE  Alheia
<1>1. ~ Recado(fio[1])
  BY Cabeca
<1>2. QED
  BY <1>1 DEF Alheia

LEMMA RecadoDaResposta ==
  ASSUME Tipos, Corrente, Lote, Responder
  PROVE  PassoDoRecado
<1> DEFINE r     == Head(fio)
           resto == Tail(fio)
<1>1. fio # <<>> /\ Fora /\ r \in Respostas /\ r = fio[1] /\ Certa(r) /\ noAr' = noAr
  BY Cabeca DEF Responder, Fora, Lote
<1>2. CASE r.tipo = "conectar" /\ Conectar(r.alvo, resto)
  <2>1. r.alvo \in Soquetes
    BY <1>1, <1>2, RespostaTipada
  <2>2. QED
    BY <1>1, <1>2, <2>1 DEF Conecta, PassoDoRecado
<1>3. CASE r.tipo = "concluir" /\ Concluir(r.alvo, r.lido, resto)
  <2>1. r.alvo \in Soquetes
    BY <1>1, <1>3, RespostaTipada
  <2>2. \/ r.lido.estado = "nula" /\ LimparAdmissaoFalha(r.alvo, resto)
        \/ Admite(r.alvo, r.lido, resto)
    BY <1>3, ConcluirCasos
  <2>3. QED
    BY <1>1, <1>3, <2>1, <2>2 DEF Conclui, PassoDoRecado
<1>4. CASE r.tipo = "marcada" /\ Marcada(r.alvo, resto)
  <2>1. r.alvo \in Jogadores
    BY <1>1, <1>4, RespostaTipada
  <2>2. PICK x \in Respostas : x.tipo = "lida" /\ Anda(fio, 1, {x}, fio')
    BY <1>1, <1>4, <2>1, MarcadaPasso
  <2>3. UNCHANGED <<partida, soquete>>
    BY <1>4 DEF Marcada, redis
  <2>4. ~ Recado(r) /\ ~ Recado(x) /\ Admitidos' \subseteq Admitidos
    BY <1>4, <2>2, <2>3 DEF Recado, Admitidos
  <2>5. QED
    BY <1>1, <2>2, <2>3, <2>4, OutroRecado DEF PassoDoRecado
<1>5. CASE r.tipo = "lida" /\ Lida(r.alvo, r.lido, resto)
  <2>1. r.alvo \in Jogadores
    BY <1>1, <1>5, RespostaTipada
  <2>2. PICK N : Anda(fio, 1, N, fio') /\ \A x \in N : x.tipo = "janelaPosta"
    <3>1. CASE Anda(fio, 1, {}, fio')
      BY <3>1
    <3>2. CASE \E x \in Respostas : x.tipo = "janelaPosta" /\ Anda(fio, 1, {x}, fio')
      <4>1. PICK x \in Respostas : x.tipo = "janelaPosta" /\ Anda(fio, 1, {x}, fio')
        BY <3>2
      <4>2. \A y \in {x} : y.tipo = "janelaPosta"
        BY <4>1
      <4>3. QED
        BY <4>1, <4>2
    <3>3. QED
      BY <1>1, <1>5, <2>1, <3>1, <3>2, LidaPasso
  <2>3. UNCHANGED <<partida, soquete>>
    BY <1>5 DEF Lida
  <2>4. ~ Recado(r) /\ (\A x \in N : ~ Recado(x)) /\ Admitidos' \subseteq Admitidos
    BY <1>5, <2>2, <2>3 DEF Recado, Admitidos
  <2>5. QED
    BY <1>1, <2>2, <2>3, <2>4, OutroRecado DEF PassoDoRecado
<1>6. CASE r.tipo = "janelaPosta" /\ JanelaPosta(r.alvo, resto)
  <2>1. r.alvo \in Jogadores
    BY <1>1, <1>6, RespostaTipada
  <2>2. Anda(fio, 1, {}, fio')
    BY <1>1, <1>6, <2>1, JanelaPasso
  <2>3. UNCHANGED <<partida, soquete>>
    BY <1>6 DEF JanelaPosta, redis
  <2>4. ~ Recado(r) /\ Admitidos' \subseteq Admitidos
    BY <1>6, <2>3 DEF Recado, Admitidos
  <2>5. QED
    BY <1>1, <2>2, <2>3, <2>4, OutroRecado DEF PassoDoRecado
<1>7. CASE r.tipo = "naoInicioLido" /\ NaoInicioLido(r.lido, resto)
  <2>1. r.lido \in {"parar", "cancelar", "reagendar"}
    BY <1>1, <1>7, RespostaTipada
  <2>2. \/ partida' = partida /\ Anda(fio, 1, {}, fio')
        \/ /\ Anda(fio, 1, {Resposta("cancelada", Nada, Preparada)}, fio')
           /\ partida' = IF Preparada THEN Nada ELSE partida
    BY <1>1, <1>7, <2>1, NaoInicioLidoPasso
  <2>3. soquete' = soquete
    BY <1>7 DEF NaoInicioLido
  <2>4. ~ Recado(r) /\ Admitidos' \subseteq Admitidos
    BY <1>7, <2>3 DEF Recado, Admitidos
  <2>5. CASE partida' = partida /\ Anda(fio, 1, {}, fio')
    BY <1>1, <2>4, <2>5, OutroRecado DEF PassoDoRecado
  <2>6. CASE /\ Anda(fio, 1, {Resposta("cancelada", Nada, Preparada)}, fio')
             /\ partida' = IF Preparada THEN Nada ELSE partida
    BY <1>1, <1>7, <2>3, <2>6 DEF Cancelando, PassoDoRecado
  <2>7. QED
    BY <2>2, <2>5, <2>6
<1>8. CASE r.tipo = "cancelada" /\ Cancelada(r.lido, resto)
  BY <1>1, <1>8 DEF Cancelado, PassoDoRecado
<1>9. CASE r.tipo = "validadeLida" /\ ValidadeLida(r.alvo, r.lido, resto)
  <2>1. r.alvo \in Jogadores
    BY <1>1, <1>9, RespostaTipada
  <2>2. Anda(fio, 1, {Leitura(r.alvo)}, fio') \/ Anda(fio, 1, {}, fio')
    BY <1>1, <1>9, <2>1, ValidadePasso
  <2>3. UNCHANGED <<partida, soquete>>
    BY <1>9 DEF ValidadeLida
  <2>4. ~ Recado(r) /\ ~ Recado(Leitura(r.alvo)) /\ Admitidos' \subseteq Admitidos
    BY <1>9, <2>1, <2>3, LeituraTipada DEF Recado, Admitidos
  <2>5. QED
    BY <1>1, <2>2, <2>3, <2>4, OutroRecado DEF PassoDoRecado
<1>10. CASE r.tipo = "conversaoLida" /\ ConversaoLida(r.alvo, r.lido, resto)
  <2>1. r.alvo \in Jogadores /\ r.lido \in BOOLEAN /\ cadeia # <<>>
    BY <1>1, <1>10, RespostaTipada, CadeiaAtiva DEF Mutadora
  <2>2. ~ Recado(r) /\ Admitidos' \subseteq Admitidos
    BY <1>10 DEF Recado, Admitidos, ConversaoLida
  <2>3. CASE r.lido = TRUE
    <3>1. partida # Nada /\ ~partida.terminou /\ r.alvo \in partida.vivos
      BY <1>1, <1>10, <2>3 DEF Certa
    <3>2. ConversaoLida(r.alvo, TRUE, resto)
      BY <1>10, <2>3
    <3>3. PICK N : Muta(r.alvo, TRUE, N) /\ Anda(fio, 1, N, fio')
      BY <1>1, <2>1, <3>1, <3>2, ConversaoPasso
    <3>4. partida' # Nada /\ \A x \in N : ~ Recado(x)
      BY <3>3, SalvaMutadora DEF Muta, Recado
    <3>5. QED
      BY <1>1, <2>2, <3>3, <3>4, OutroRecado DEF PassoDoRecado
  <2>4. CASE r.lido = FALSE
    <3>1. ConversaoLida(r.alvo, FALSE, resto)
      BY <1>10, <2>4
    <3>2. Anda(fio, 1, Proximas, fio') /\ partida' = partida
      BY <1>1, <2>1, <3>1, DispensaPasso DEF ConversaoLida
    <3>3. \A x \in Proximas : ~ Recado(x)
      BY <2>1, SegueUma DEF Recado
    <3>4. QED
      BY <1>1, <2>2, <3>2, <3>3, OutroRecado DEF PassoDoRecado
  <2>5. QED
    BY <2>1, <2>3, <2>4
<1>11. CASE r.tipo = "salva" /\ Salvo(r.lido, resto)
  <2>1. r.lido \in {Nada} \cup Avisos /\ cadeia # <<>>
    BY <1>1, <1>11, RespostaTipada, CadeiaAtiva DEF Mutadora
  <2>2. ~ Recado(r) /\ Admitidos' \subseteq Admitidos
    BY <1>11 DEF Recado, Admitidos, Salvo
  <2>3. CASE r.lido = Nada
    <3>1. Salvo(Nada, resto)
      BY <1>11, <2>3
    <3>2. Anda(fio, 1, Proximas, fio') /\ partida' = partida
      BY <1>1, <2>1, <3>1, SalvoPasso DEF Salvo
    <3>3. \A x \in Proximas : ~ Recado(x)
      BY <2>1, SegueUma DEF Recado
    <3>4. QED
      BY <1>1, <2>2, <3>2, <3>3, OutroRecado DEF PassoDoRecado
  <2>4. CASE r.lido \in Avisos
    <3>1. Evolui /\ Anda(fio, 1, {}, fio') /\ r.lido # Nada
      BY <1>1, <1>11, <2>4, TerminoPasso, Elenco
    <3>2. partida' = Nada => partida = Nada
      <4>1. partida' = IF partida = Nada THEN Nada ELSE [partida EXCEPT !.prazo = TRUE]
        BY <1>11, <3>1 DEF Salvo
      <4>2. ASSUME partida # Nada PROVE [partida EXCEPT !.prazo = TRUE] # Nada
        <5>1. [partida EXCEPT !.prazo = TRUE] \in Partidas(roster)
          BY <4>2 DEF Tipos, Partidas
        <5>2. QED
          BY <5>1, Elenco
      <4>3. QED
        BY <4>1, <4>2
    <3>3. QED
      BY <1>1, <2>2, <3>1, <3>2, OutroRecado DEF PassoDoRecado
  <2>5. QED
    BY <2>1, <2>3, <2>4
<1>12. CASE r.tipo = "comandoLido" /\ ComandoLido(r.alvo, r.lido, resto)
  <2>1. ~ Recado(r) /\ Admitidos' \subseteq Admitidos
    BY <1>12 DEF Recado, Admitidos, ComandoLido
  <2>2. /\ r.alvo \in Jogadores /\ r.lido \in SUBSET Jogadores
        /\ r.alvo \in r.lido /\ (~cedo => partida # Nada)
        /\ partida # Nada => ~partida.terminou /\ partida.vivos = r.lido
    BY <1>1, <1>12, RespostaTipada DEF Certa
  <2>3. PICK N : /\ Anda(fio, 1, N, fio')
                 /\ EmVao(N) \/ \E d \in BOOLEAN : Muta(r.alvo, d, N)
    BY <1>1, <1>12, <2>2, ComandoPasso
  <2>4. (partida' = Nada => partida = Nada) /\ \A x \in N : ~ Recado(x)
    BY <2>3, SalvaMutadora DEF EmVao, Muta, Recado
  <2>5. QED
    BY <1>1, <2>1, <2>3, <2>4, OutroRecado DEF PassoDoRecado
<1>13. CASE \/ r.tipo = "pendenteLido" /\ LerReenvio(r.lido, resto)
            \/ r.tipo = "reenvioLido" /\ Reenviar(r.lido, resto)
  BY <1>1, <1>13 DEF Relido, Reenviado, PassoDoRecado
<1>14. QED
  BY <1>2, <1>3, <1>4, <1>5, <1>6, <1>7, <1>8, <1>9, <1>10, <1>11, <1>12, <1>13 DEF Responder

LEMMA RecadoDoPasso ==
  ASSUME Tipos, Corrente, Lote, Next
  PROVE  PassoDoRecado
<1>1. ASSUME NEW s \in Soquetes, PedirConexao(s) PROVE PassoDoRecado
  <2>1. Anda(fio, 0, {Resposta("conectar", s, Nada)}, fio')
    BY <1>1, PedirPasso
  <2>2. ~ Recado(Resposta("conectar", s, Nada))
    BY DEF Recado, Resposta
  <2>3. noAr' = noAr /\ partida' = partida
    BY <1>1 DEF PedirConexao, redis
  <2>4. Admitidos' \subseteq Admitidos
    BY <1>1 DEF PedirConexao, Admitidos, Tipos
  <2>5. QED
    BY <2>1, <2>2, <2>3, <2>4, UmRecado DEF PassoDoRecado
<1>2. ASSUME NEW s \in Soquetes, FecharAntesDoListener(s) PROVE PassoDoRecado
  <2>1. Admitidos' \subseteq Admitidos
    BY <1>2 DEF FecharAntesDoListener, Admitidos, Tipos
  <2>2. Anda(fio, 0, {}, fio') /\ partida' = partida /\ noAr' = noAr
    BY <1>2, AndaNada DEF FecharAntesDoListener, redis, Tipos
  <2>3. QED
    BY <2>1, <2>2 DEF Alheia, PassoDoRecado
<1>3. ASSUME NEW s \in Soquetes, Fechar(s) PROVE PassoDoRecado
  <2>1. Admitidos' \subseteq Admitidos
    BY <1>3 DEF Fechar, Admitidos, Tipos
  <2>2. PICK N : Anda(fio, 0, N, fio') /\ \A r \in N : ~ Recado(r)
    <3>1. ~ Recado(Resposta("marcada", Dono(s), Nada))
      BY DEF Recado, Resposta
    <3>2. CASE Anda(fio, 0, {}, fio')
      BY <3>2
    <3>3. CASE Anda(fio, 0, {Resposta("marcada", Dono(s), Nada)}, fio')
      <4>1. \A r \in {Resposta("marcada", Dono(s), Nada)} : ~ Recado(r)
        BY <3>1
      <4>2. QED
        BY <3>3, <4>1
    <3>4. QED
      BY <1>3, <3>2, <3>3, FecharPasso
  <2>3. partida' = Nada => partida = Nada
    BY <1>3, PresencaTipada DEF Fechar
  <2>4. noAr' = noAr
    BY <1>3 DEF Fechar
  <2>5. QED
    BY <2>1, <2>2, <2>3, <2>4 DEF Alheia, PassoDoRecado
<1>4. ASSUME NEW j \in Jogadores, Comandar(j) PROVE PassoDoRecado
  <2>1. Anda(fio, 0, {Resposta("comandoLido", j, partida.vivos)}, fio') /\ partida' = partida
    BY <1>4, ComandarPasso
  <2>2. ~ Recado(Resposta("comandoLido", j, partida.vivos))
    BY DEF Resposta, Recado
  <2>3. UNCHANGED <<soquete, noAr>>
    BY <1>4 DEF Comandar
  <2>4. Admitidos' \subseteq Admitidos
    BY <2>3 DEF Admitidos
  <2>5. QED
    BY <2>1, <2>2, <2>3, <2>4, UmRecado DEF PassoDoRecado
<1>5. ASSUME NEW j \in Jogadores, DispararExpiracao(j) PROVE PassoDoRecado
  <2>1. PICK r \in Respostas : r.tipo = "validadeLida" /\ Anda(fio, 0, {r}, fio')
    BY <1>5, DispararPasso
  <2>2. UNCHANGED <<partida, soquete, noAr>> /\ ~ Recado(r)
    BY <1>5, <2>1 DEF DispararExpiracao, redis, Recado
  <2>3. Admitidos' \subseteq Admitidos
    BY <2>2 DEF Admitidos
  <2>4. QED
    BY <2>1, <2>2, <2>3, UmRecado DEF PassoDoRecado
<1>6. ASSUME NEW j \in Jogadores, ExpirarJanela(j) PROVE PassoDoRecado
  BY <1>6, SemRecado DEF ExpirarJanela, memoria, PassoDoRecado
<1>7. ASSUME NEW j \in Jogadores, SairDeOrfa(j) PROVE PassoDoRecado
  BY <1>7, SemRecado DEF SairDeOrfa, memoria, redis, PassoDoRecado
<1>8. ASSUME NEW j \in Jogadores, NEW chega \in BOOLEAN, Desvincular(j, chega) PROVE PassoDoRecado
  BY <1>8, SemRecado DEF Desvincular, redis, PassoDoRecado
<1>9. ASSUME NEW r \in retornos, NEW chega \in BOOLEAN, Retornar(r, chega) PROVE PassoDoRecado
  BY <1>9, SemRecado DEF Retornar, PassoDoRecado
<1>10. CASE DispararNaoInicio
  <2>1. PICK r \in Respostas : r.tipo = "naoInicioLido" /\ Anda(fio, 0, {r}, fio')
    BY <1>10, NaoInicioPasso
  <2>2. UNCHANGED <<partida, soquete, noAr>> /\ ~ Recado(r)
    BY <1>10, <2>1 DEF DispararNaoInicio, redis, Recado
  <2>3. Admitidos' \subseteq Admitidos
    BY <2>2 DEF Admitidos
  <2>4. QED
    BY <2>1, <2>2, <2>3, UmRecado DEF PassoDoRecado
<1>11. CASE Responder
  BY <1>11, RecadoDaResposta
<1>12. CASE EnviarRetorno
  <2>1. cadeia # <<>>
    BY <1>12, CadeiaAtiva DEF EnviarRetorno
  <2>2. Anda(fio, 0, Proximas, fio') /\ \A r \in Proximas : ~ Recado(r)
    BY <1>12, <2>1, EnviarPasso, SegueUma DEF Recado
  <2>3. UNCHANGED <<partida, soquete, noAr>>
    BY <1>12 DEF EnviarRetorno
  <2>4. Admitidos' \subseteq Admitidos
    BY <2>3 DEF Admitidos
  <2>5. QED
    BY <2>2, <2>3, <2>4 DEF Alheia, PassoDoRecado
<1>13. CASE Envelhecer
  BY <1>13, SemRecado DEF Envelhecer, redis, PassoDoRecado
<1>14. CASE ExpirarPreparada \/ Cair \/ Voltar
  BY <1>14 DEF PassoDoRecado
<1>15. QED
  BY <1>1, <1>2, <1>3, <1>4, <1>5, <1>6, <1>7, <1>8, <1>9, <1>10, <1>11, <1>12, <1>13,
     <1>14 DEF Next

-----------------------------------------------------------------------------
(* A dead process remembers nothing.                                       *)
LEMMA ParadoFica ==
  ASSUME Tipos, Parado, Next
  PROVE  Parado'
<1>1. CASE Cair
  <2>1. \A s \in Soquetes : soquete'[s].fase = "livre"
    BY <1>1 DEF Cair
  <2>2. QED
    BY <1>1, <2>1 DEF Cair, Parado
<1>2. CASE Voltar
  BY <1>2 DEF Voltar, Parado
<1>3. ASSUME noAr, noAr' = noAr PROVE Parado'
  BY <1>3 DEF Parado
<1>4. ASSUME UNCHANGED <<conexao, soquete, fio, cadeia, devido, avisos, retornos, enviado, noAr>>
      PROVE  Parado'
  BY <1>4 DEF Parado
<1>5. ASSUME NEW s \in Soquetes, PedirConexao(s) \/ FecharAntesDoListener(s) \/ Fechar(s)
      PROVE  noAr /\ noAr' = noAr
  BY <1>5 DEF PedirConexao, FecharAntesDoListener, Fechar
<1>6. ASSUME NEW j \in Jogadores, \/ Comandar(j) \/ DispararExpiracao(j)
                                  \/ \E chega \in BOOLEAN : Desvincular(j, chega)
      PROVE  noAr /\ noAr' = noAr
  BY <1>6 DEF Comandar, DispararExpiracao, Desvincular
<1>7. ASSUME NEW j \in Jogadores, ExpirarJanela(j) \/ SairDeOrfa(j)
      PROVE  UNCHANGED <<conexao, soquete, fio, cadeia, devido, avisos, retornos, enviado, noAr>>
  BY <1>7 DEF ExpirarJanela, SairDeOrfa, memoria
<1>8. ASSUME NEW r \in retornos, NEW chega \in BOOLEAN, Retornar(r, chega)
      PROVE  noAr /\ noAr' = noAr
  BY <1>8 DEF Retornar
<1>9. ASSUME DispararNaoInicio \/ Responder \/ EnviarRetorno PROVE noAr /\ noAr' = noAr
  BY <1>9 DEF DispararNaoInicio, Responder, EnviarRetorno
<1>10. ASSUME Envelhecer \/ ExpirarPreparada
       PROVE  UNCHANGED <<conexao, soquete, fio, cadeia, devido, avisos, retornos, enviado, noAr>>
  BY <1>10 DEF Envelhecer, ExpirarPreparada, memoria
<1>11. QED
  BY <1>1, <1>2, <1>3, <1>4, <1>5, <1>6, <1>7, <1>8, <1>9, <1>10 DEF Next

LEMMA RelidoAnda ==
  ASSUME Tipos, Relido \/ Reenviado
  PROVE  /\ fio # <<>> /\ 1 \in DOMAIN fio
         /\ UNCHANGED <<partida, pendente, soquete, noAr, sala, orfaos, avisos, cedo>>
         /\ \E N : Anda(fio, 1, N, fio') /\ \A r \in N : r.tipo = "reenvioLido"
<1>1. /\ fio # <<>> /\ 1 \in DOMAIN fio /\ fio[1] \in Respostas /\ Fora
      /\ UNCHANGED <<partida, pendente, soquete, avisos>>
  BY Cabeca DEF Relido, Reenviado, LerReenvio, Reenviar, redis
<1>2. CASE Relido
  <2>1. fio[1].lido \in SUBSET BOOLEAN
    BY <1>1, <1>2, RespostaTipada DEF Relido
  <2>2. \E N : Anda(fio, 1, N, fio') /\ \A r \in N : r.tipo = "reenvioLido"
    BY <1>2, <2>1, LerReenvioPasso DEF Relido
  <2>3. QED
    BY <1>1, <2>2 DEF Fora, lobby
<1>3. CASE Reenviado
  <2>1. fio[1].lido \in SUBSET Avisos
    BY <1>1, <1>3, RespostaTipada DEF Reenviado
  <2>2. Anda(fio, 1, {}, fio')
    BY <1>3, <2>1, ReenviarPasso DEF Reenviado
  <2>3. QED
    BY <1>1, <2>2 DEF Fora, lobby
<1>4. QED
  BY <1>2, <1>3

LEMMA RecadosFicam ==
  ASSUME Tipos, Tipos', Recados, PassoDaCadeia, PassoDoRecado
  PROVE  Recados'
<1>1. partida = Nada => partida' = Nada
  BY PartidaAvanca DEF Avanca
<1>2. ASSUME NEW d \in {0, 1}, NEW N, Anda(fio, d, N, fio'),
             \A r \in N : /\ r.tipo = "concluir" /\ r.lido.estado = "nula" => partida' = Nada
                          /\ r.tipo = "cancelada" /\ r.lido => partida' = Nada
      PROVE  Recados'
  <2>1. ASSUME NEW i \in DOMAIN fio', Nula(i)' \/ Cancela(i)' PROVE partida' = Nada
    <3>1. CASE i + d \in DOMAIN fio /\ fio'[i] = fio[i + d]
      <4>1. Nula(i + d) \/ Cancela(i + d)
        BY <2>1, <3>1 DEF Nula, Cancela
      <4>2. QED
        BY <1>1, <3>1, <4>1 DEF Recados
    <3>2. CASE fio'[i] \in N
      BY <1>2, <2>1, <3>2 DEF Nula, Cancela
    <3>3. QED
      BY <1>2, <3>1, <3>2 DEF Anda
  <2>2. QED
    BY <2>1 DEF Recados
<1>3. CASE Alheia
  <2>1. PICK d, N : d \in {0, 1} /\ Anda(fio, d, N, fio') /\ \A r \in N : ~ Recado(r)
    BY <1>3 DEF Alheia
  <2>2. QED
    BY <1>2, <2>1 DEF Recado
<1>4. CASE Conecta
  <2>1. PICK s \in Soquetes : fio # <<>> /\ Fora /\ Conectar(s, Tail(fio))
    BY <1>4 DEF Conecta
  <2>2. PICK e \in {"nula", "preparada", "em_andamento"}, i \in BOOLEAN :
          /\ Anda(fio, 1, {Resposta("concluir", s, [estado |-> e, iniciou |-> i])}, fio')
          /\ e = "nula" <=> partida = Nada
          /\ partida = Nada <=> partida' = Nada
    BY <2>1, ConectarPasso
  <2>3. \A r \in {Resposta("concluir", s, [estado |-> e, iniciou |-> i])} :
          /\ r.tipo = "concluir" /\ r.lido.estado = "nula" => partida' = Nada
          /\ r.tipo # "cancelada"
    BY <2>2 DEF Resposta
  <2>4. QED
    BY <1>2, <2>2, <2>3
<1>5. CASE Conclui
  <2>1. PICK s \in Soquetes : \/ LimparAdmissaoFalha(s, Tail(fio))
                              \/ Admite(s, fio[1].lido, Tail(fio))
    BY <1>5 DEF Conclui
  <2>2. PICK N : Anda(fio, 1, N, fio') /\ \A r \in N : r.tipo = "pendenteLido"
    BY <1>5, <2>1, LimparPasso, AdmitePasso, PendenciaTipada DEF Conclui
  <2>3. QED
    BY <1>2, <2>2
<1>6. CASE Cancelando
  <2>1. \A r \in {Resposta("cancelada", Nada, Preparada)} :
          r.tipo = "cancelada" /\ r.lido = Preparada
    BY DEF Resposta
  <2>2. Preparada => partida' = Nada
    BY <1>6 DEF Cancelando
  <2>3. QED
    BY <1>2, <1>6, <2>1, <2>2 DEF Cancelando
<1>7. CASE Cancelado
  <2>1. Anda(fio, 1, {}, fio')
    BY <1>7, CanceladaPasso DEF Cancelado
  <2>2. QED
    BY <1>2, <2>1
<1>a. CASE Relido \/ Reenviado
  <2>1. PICK N : Anda(fio, 1, N, fio') /\ \A r \in N : r.tipo = "reenvioLido"
    BY <1>a, RelidoAnda
  <2>2. QED
    BY <1>2, <2>1
<1>8. CASE Cair
  BY <1>8 DEF Cair, Recados
<1>9. CASE Voltar \/ ExpirarPreparada
  <2>1. fio' = fio
    BY <1>9 DEF Voltar, ExpirarPreparada, memoria
  <2>2. Anda(fio, 0, {}, fio')
    BY <2>1, AndaNada DEF Tipos
  <2>3. QED
    BY <1>2, <2>2
<1>10. QED
  BY <1>3, <1>4, <1>5, <1>6, <1>7, <1>a, <1>8, <1>9 DEF PassoDoRecado

(* A reply of an admission that says there is a match is before that of    *)
(* the cancellation, which closes whoever is admitted.                     *)
HaCancela(i) == \E k \in DOMAIN fio : k > i /\ Cancela(k)

LEMMA CancelaAnda ==
  ASSUME Tipos, Tipos', NEW d \in {0, 1}, NEW N, Anda(fio, d, N, fio'), NEW i \in Nat,
         HaCancela(i + d)
  PROVE  HaCancela(i)'
<1>1. PICK k \in DOMAIN fio : k > i + d /\ Cancela(k)
  BY DEF HaCancela
<1>2. k \in Nat
  BY <1>1, LenProperties DEF Tipos
<1>3. k - d \in DOMAIN fio' /\ fio'[k - d] = fio[k] /\ k - d > i
  BY <1>1, <1>2 DEF Anda
<1>4. QED
  BY <1>1, <1>3 DEF HaCancela, Cancela

LEMMA CancelamentoFica ==
  ASSUME Tipos, Tipos', Recados, Parado, Cancelamento, PassoDaCadeia, PassoDoRecado
  PROVE  Cancelamento'
<1> DEFINE Positiva(r) == r.tipo = "concluir" /\ r.lido.estado # "nula"
<1>1. ASSUME noAr, partida = Nada
      PROVE  /\ Admitidos # {} => HaCancela(0)
             /\ \A i \in DOMAIN fio : Positiva(fio[i]) => HaCancela(i)
  <2>1. \A k \in DOMAIN fio : k > 0
    BY LenProperties DEF Tipos
  <2>2. QED
    BY <1>1, <2>1 DEF Cancelamento, HaCancela, Admitidos
<1>2. ASSUME /\ Admitidos' # {} => HaCancela(0)'
             /\ \A i \in DOMAIN fio' : Positiva(fio'[i]) => HaCancela(i)'
      PROVE  Cancelamento'
  BY <1>2 DEF Cancelamento, HaCancela, Admitidos
<1>3. (\A i \in DOMAIN fio : i \in Nat /\ i > 0) /\ (\A i \in DOMAIN fio' : i \in Nat /\ i > 0)
  BY LenProperties DEF Tipos
<1> HIDE DEF Positiva
(* No new reply but a cancellation, and those handled do not matter.       *)
<1>4. ASSUME NEW d \in {0, 1}, NEW N, Anda(fio, d, N, fio'), \A r \in N : ~ Positiva(r),
             noAr, partida = Nada,
             d = 1 => fio # <<>> /\ (~ Cancela(1) \/ Admitidos' = {}),
             Admitidos' \subseteq Admitidos \/ HaCancela(1)
      PROVE  Cancelamento'
  <2>1. ASSUME NEW i \in DOMAIN fio', Positiva(fio'[i]) PROVE HaCancela(i)'
    <3>1. i + d \in DOMAIN fio /\ fio'[i] = fio[i + d]
      BY <1>4, <2>1 DEF Anda
    <3>2. HaCancela(i + d)
      BY <1>1, <1>4, <2>1, <3>1
    <3>3. QED
      BY <1>3, <1>4, <3>2, CancelaAnda
  <2>2. ASSUME Admitidos' # {} PROVE HaCancela(0)'
    <3>1. HaCancela(d)
      <4>1. HaCancela(0) \/ HaCancela(1)
        BY <1>1, <1>4, <2>2
      <4>2. HaCancela(1) => HaCancela(0)
        BY <1>3 DEF HaCancela
      <4>3. d = 1 /\ HaCancela(0) => HaCancela(1)
        <5>1. ASSUME d = 1, NEW k \in DOMAIN fio, k > 0, Cancela(k) PROVE k > 1
          BY <1>3, <1>4, <2>2, <5>1
        <5>2. QED
          BY <5>1 DEF HaCancela
      <4>4. QED
        BY <1>4, <4>1, <4>2, <4>3
    <3>2. HaCancela(0 + d)
      BY <1>4, <3>1
    <3>3. QED
      BY <1>4, <3>2, CancelaAnda
  <2>3. QED
    BY <1>2, <2>1, <2>2
<1>5. CASE Alheia
  <2>1. PICK d, N : /\ d \in {0, 1} /\ Anda(fio, d, N, fio') /\ \A r \in N : ~ Recado(r)
                    /\ d = 1 => fio # <<>> /\ ~ Recado(fio[1])
    BY <1>5 DEF Alheia
  <2>2. (\A r \in N : ~ Positiva(r)) /\ (d = 1 => ~ Cancela(1))
    BY <2>1 DEF Recado, Positiva, Cancela
  <2>3. SUFFICES ASSUME noAr', partida' = Nada PROVE Cancelamento'
    BY DEF Cancelamento
  <2>4. noAr /\ partida = Nada /\ Admitidos' \subseteq Admitidos
    BY <1>5, <2>3 DEF Alheia
  <2>5. QED
    BY <1>4, <2>1, <2>2, <2>4
<1>6. CASE Conecta
  <2>1. PICK s \in Soquetes : fio # <<>> /\ Fora /\ Conectar(s, Tail(fio))
    BY <1>6 DEF Conecta
  <2>2. PICK e \in {"nula", "preparada", "em_andamento"}, i \in BOOLEAN :
          /\ Anda(fio, 1, {Resposta("concluir", s, [estado |-> e, iniciou |-> i])}, fio')
          /\ e = "nula" <=> partida = Nada
          /\ partida = Nada <=> partida' = Nada
    BY <2>1, ConectarPasso
  <2>3. SUFFICES ASSUME noAr', partida' = Nada PROVE Cancelamento'
    BY DEF Cancelamento
  <2>4. noAr /\ partida = Nada /\ ~ Cancela(1)
    BY <1>6, <2>1, <2>2, <2>3 DEF Fora, Conecta, Cancela
  <2>5. \A r \in {Resposta("concluir", s, [estado |-> e, iniciou |-> i])} : ~ Positiva(r)
    BY <2>2, <2>4 DEF Resposta, Positiva
  <2>6. Admitidos' \subseteq Admitidos
    BY <2>1 DEF Conectar, Admitidos, Tipos
  <2>7. QED
    BY <1>4, <2>1, <2>2, <2>4, <2>5, <2>6
<1>7. CASE Conclui
  <2>1. SUFFICES ASSUME noAr', partida' = Nada PROVE Cancelamento'
    BY DEF Cancelamento
  <2>2. PICK s \in Soquetes :
          \/ fio[1].lido.estado = "nula" /\ LimparAdmissaoFalha(s, Tail(fio))
          \/ fio[1].lido.estado # "nula" /\ Admite(s, fio[1].lido, Tail(fio))
    BY <1>7 DEF Conclui, Admite
  <2>3. PICK N : /\ Anda(fio, 1, N, fio') /\ partida' = partida
                 /\ \A r \in N : ~ Positiva(r)
    <3>1. \A r \in Pendencia : ~ Positiva(r)
      BY <1>7, PendenciaTipada DEF Conclui, Positiva
    <3>2. QED
      BY <1>7, <2>2, <3>1, LimparPasso, AdmitePasso DEF Conclui, LimparAdmissaoFalha, Admite, redis
  <2>4. noAr /\ partida = Nada /\ fio # <<>> /\ ~ Cancela(1) /\ 1 \in DOMAIN fio
    BY <1>7, <2>1, <2>3, Cabeca DEF Conclui, Fora, Cancela
  <2>5. CASE fio[1].lido.estado = "nula" /\ LimparAdmissaoFalha(s, Tail(fio))
    <3>1. Admitidos' \subseteq Admitidos
      BY <2>5 DEF LimparAdmissaoFalha, Admitidos, Tipos
    <3>2. QED
      BY <1>4, <2>3, <2>4, <3>1
  <2>6. CASE fio[1].lido.estado # "nula" /\ Admite(s, fio[1].lido, Tail(fio))
    <3>1. Positiva(fio[1])
      BY <1>7, <2>6 DEF Conclui, Positiva
    <3>2. HaCancela(1)
      BY <1>1, <2>4, <3>1
    <3>3. QED
      BY <1>4, <2>3, <2>4, <3>2
  <2>7. QED
    BY <2>2, <2>5, <2>6
<1>8. CASE Cancelando
  <2>1. SUFFICES ASSUME noAr', partida' = Nada PROVE Cancelamento'
    BY DEF Cancelamento
  <2> DEFINE r == Resposta("cancelada", Nada, Preparada)
  <2>2. /\ Anda(fio, 1, {r}, fio') /\ fio # <<>> /\ noAr /\ Admitidos' \subseteq Admitidos
        /\ ~ Cancela(1) /\ partida' = IF Preparada THEN Nada ELSE partida
    BY <1>8, <2>1 DEF Cancelando, Fora, Admitidos, Cancela
  <2>3. r.tipo = "cancelada" /\ r.lido = Preparada /\ ~ Positiva(r)
    BY DEF Resposta, Positiva
  <2> HIDE DEF r
  <2>4. CASE Preparada
    <3>1. PICK n \in Nat : n = Len(fio) /\ n > 0 /\ n \in DOMAIN fio' /\ fio'[n] = r
      BY <2>2, LenProperties, EmptySeq DEF Anda, Tipos
    <3>2. fio'[n].tipo = "cancelada" /\ fio'[n].lido
      BY <2>3, <2>4, <3>1
    <3>3. \A i \in Nat : i < n => HaCancela(i)'
      BY <3>1, <3>2 DEF HaCancela, Cancela
    <3>4. ASSUME NEW i \in DOMAIN fio', Positiva(fio'[i]) PROVE i < n
      <4>1. i + 1 \in DOMAIN fio
        BY <2>2, <2>3, <3>4 DEF Anda
      <4>2. QED
        BY <1>3, <3>1, <3>4, <4>1, LenProperties DEF Tipos
    <3>5. QED
      BY <1>2, <1>3, <3>1, <3>3, <3>4
  <2>5. CASE ~ Preparada
    <3>1. \A x \in {r} : ~ Positiva(x)
      BY <2>3
    <3>2. partida = Nada
      BY <2>1, <2>2, <2>5
    <3>3. QED
      BY <1>4, <2>2, <3>1, <3>2
  <2>6. QED
    BY <2>4, <2>5
<1>9. CASE Cancelado
  <2>1. SUFFICES ASSUME noAr', partida' = Nada PROVE Cancelamento'
    BY DEF Cancelamento
  <2>2. /\ Anda(fio, 1, {}, fio') /\ fio # <<>> /\ noAr /\ partida = Nada
        /\ Cancelada(fio[1].lido, Tail(fio)) /\ fio[1].tipo = "cancelada"
    BY <1>9, <2>1, CanceladaPasso DEF Cancelado, Fora, Cancelada, redis
  <2>3. CASE fio[1].lido
    <3>1. Admitidos' = {}
      BY <2>2, <2>3 DEF Cancelada, Admitidos, Tipos
    <3>2. QED
      BY <1>4, <2>2, <3>1
  <2>4. CASE ~ fio[1].lido
    <3>1. Admitidos' \subseteq Admitidos /\ ~ Cancela(1)
      BY <2>2, <2>4 DEF Cancelada, Admitidos, Cancela
    <3>2. QED
      BY <1>4, <2>2, <3>1
  <2>5. QED
    BY <2>3, <2>4
<1>a. CASE Relido \/ Reenviado
  <2>1. SUFFICES ASSUME noAr', partida' = Nada PROVE Cancelamento'
    BY DEF Cancelamento
  <2>2. PICK N : Anda(fio, 1, N, fio') /\ \A r \in N : r.tipo = "reenvioLido"
    BY <1>a, RelidoAnda
  <2>3. noAr /\ partida = Nada /\ fio # <<>> /\ ~ Cancela(1) /\ Admitidos' \subseteq Admitidos
    BY <1>a, <2>1, RelidoAnda DEF Relido, Reenviado, Cancela, Admitidos
  <2>4. \A r \in N : ~ Positiva(r)
    BY <2>2 DEF Positiva
  <2>5. QED
    BY <1>4, <2>2, <2>3, <2>4
<1>10. CASE Cair
  BY <1>10 DEF Cair, Cancelamento
<1>11. CASE Voltar
  <2>1. Admitidos' = {} /\ DOMAIN fio' = {}
    BY <1>11 DEF Voltar, Parado, Admitidos
  <2>2. QED
    BY <1>2, <2>1
<1>12. CASE ExpirarPreparada
  BY <1>12 DEF ExpirarPreparada, Cancelamento
<1>13. QED
  BY <1>5, <1>6, <1>7, <1>8, <1>9, <1>a, <1>10, <1>11, <1>12 DEF PassoDoRecado

LEMMA SemCancelaNinguem ==
  ASSUME Cancelamento, fio = <<>>
  PROVE  NinguemEmPartidaCancelada
  BY DEF Cancelamento, NinguemEmPartidaCancelada

-----------------------------------------------------------------------------
(* The presence of who has a connection in force.                          *)
Espelhada == \A j \in roster : partida.presenca[j] = "conectado" <=> conexao[j] # Nada

Calma == /\ conexao' = conexao /\ roster' = roster /\ quedas' = quedas
         /\ partida' # Nada => partida # Nada /\ partida'.presenca = partida.presenca

LEMMA EspelhadaFica ==
  ASSUME PresencaSegueRegistro, Calma
  PROVE  PresencaSegueRegistro'
  BY DEF PresencaSegueRegistro, Calma

(* Only the transition to conectado and the one to em_reconexao touch it.  *)
LEMMA EspelhadaMuda ==
  ASSUME Tipos, PresencaSegueRegistro, roster' = roster, quedas' = quedas,
         NEW s \in Soquetes, NEW p \in {"conectado", "em_reconexao"}, NEW c \in Soquetes \cup {Nada},
         p = "conectado" <=> c # Nada,
         conexao' = [conexao EXCEPT ![Dono(s)] = c],
         partida' # Nada => /\ partida # Nada
                            /\ partida'.presenca = [partida.presenca EXCEPT ![Dono(s)] = p]
  PROVE  PresencaSegueRegistro'
<1>1. SUFFICES ASSUME quedas = 0, partida' # Nada, partida # Nada, NEW j \in roster
               PROVE  partida'.presenca[j] = "conectado" <=> conexao'[j] # Nada
  BY DEF PresencaSegueRegistro
<1>2. partida.presenca[j] = "conectado" <=> conexao[j] # Nada
  BY <1>1 DEF PresencaSegueRegistro
<1>3. j \in Jogadores /\ partida.presenca \in [roster -> {"conectado", "em_reconexao"}]
  BY <1>1, Elenco DEF Tipos, Partidas
<1>4. conexao \in [Jogadores -> Soquetes \cup {Nada}]
  BY DEF Tipos
<1>5. CASE j = Dono(s)
  BY <1>1, <1>3, <1>4, <1>5
<1>6. CASE j # Dono(s)
  BY <1>1, <1>2, <1>3, <1>4, <1>6
<1>7. QED
  BY <1>5, <1>6

LEMMA PresencaDaResposta ==
  ASSUME Tipos, Corrente, Lote, Recados, PresencaSegueRegistro, Responder
  PROVE  PresencaSegueRegistro'
<1> DEFINE r     == Head(fio)
           resto == Tail(fio)
<1>1. /\ fio # <<>> /\ Fora /\ r \in Respostas /\ r = fio[1] /\ 1 \in DOMAIN fio /\ Certa(r)
      /\ roster' = roster /\ quedas' = quedas
  BY Cabeca DEF Responder, Fora, Lote, lobby
<1>2. CASE r.tipo = "conectar" /\ Conectar(r.alvo, resto)
  <2>1. r.alvo \in Soquetes
    BY <1>1, <1>2, RespostaTipada
  <2>2. /\ partida = Nada <=> partida' = Nada
        /\ partida # Nada => partida'.presenca = [partida.presenca EXCEPT ![Dono(r.alvo)] = "conectado"]
    BY <1>1, <1>2, <2>1, ConectarPasso
  <2>3. conexao' = [conexao EXCEPT ![Dono(r.alvo)] = r.alvo]
    BY <1>2 DEF Conectar
  <2>4. r.alvo # Nada
    BY <2>1, VidaAssumption
  <2>5. QED
    BY <1>1, <2>1, <2>2, <2>3, <2>4, EspelhadaMuda
<1>3. CASE r.tipo = "concluir" /\ Concluir(r.alvo, r.lido, resto)
  <2>1. CASE r.lido.estado = "nula" /\ LimparAdmissaoFalha(r.alvo, resto)
    <3>1. partida = Nada
      BY <1>1, <1>3, <2>1 DEF Recados, Nula
    <3>2. QED
      BY <2>1, <3>1 DEF LimparAdmissaoFalha, redis, PresencaSegueRegistro
  <2>2. CASE Admite(r.alvo, r.lido, resto)
    BY <1>1, <2>2, EspelhadaFica DEF Admite, Calma
  <2>3. QED
    BY <1>3, <2>1, <2>2, ConcluirCasos
<1>4. CASE r.tipo = "marcada" /\ Marcada(r.alvo, resto)
  BY <1>1, <1>4, EspelhadaFica DEF Marcada, redis, Calma
<1>5. CASE r.tipo = "lida" /\ Lida(r.alvo, r.lido, resto)
  BY <1>1, <1>5, EspelhadaFica DEF Lida, Calma
<1>6. CASE r.tipo = "janelaPosta" /\ JanelaPosta(r.alvo, resto)
  BY <1>1, <1>6, EspelhadaFica DEF JanelaPosta, redis, Calma
<1>7. CASE r.tipo = "naoInicioLido" /\ NaoInicioLido(r.lido, resto)
  <2>1. partida' = partida \/ partida' = Nada
    <3>1. r.lido \in {"parar", "cancelar", "reagendar"}
      BY <1>1, <1>7, RespostaTipada
    <3>2. QED
      BY <1>1, <1>7, <3>1, NaoInicioLidoPasso
  <2>2. conexao' = conexao
    BY <1>7 DEF NaoInicioLido
  <2>3. QED
    BY <1>1, <2>1, <2>2, EspelhadaFica DEF Calma
<1>8. CASE r.tipo = "cancelada" /\ Cancelada(r.lido, resto)
  BY <1>1, <1>8, EspelhadaFica DEF Cancelada, redis, Calma
<1>9. CASE r.tipo = "validadeLida" /\ ValidadeLida(r.alvo, r.lido, resto)
  BY <1>1, <1>9, EspelhadaFica DEF ValidadeLida, Calma
<1>10. CASE r.tipo = "conversaoLida" /\ ConversaoLida(r.alvo, r.lido, resto)
  <2>1. r.alvo \in Jogadores /\ r.lido \in BOOLEAN /\ cadeia # <<>> /\ conexao' = conexao
    BY <1>1, <1>10, RespostaTipada, CadeiaAtiva DEF Mutadora, ConversaoLida
  <2>2. CASE r.lido = TRUE
    <3>1. partida # Nada /\ ~partida.terminou /\ r.alvo \in partida.vivos
      BY <1>1, <1>10, <2>2 DEF Certa
    <3>2. ConversaoLida(r.alvo, TRUE, resto)
      BY <1>10, <2>2
    <3>3. PICK N : Muta(r.alvo, TRUE, N)
      BY <1>1, <2>1, <3>1, <3>2, ConversaoPasso
    <3>4. QED
      BY <1>1, <2>1, <3>3, EspelhadaFica DEF Muta, Calma
  <2>3. CASE r.lido = FALSE
    <3>1. ConversaoLida(r.alvo, FALSE, resto)
      BY <1>10, <2>3
    <3>2. partida' = partida
      BY <3>1 DEF ConversaoLida
    <3>3. QED
      BY <1>1, <2>1, <3>2, EspelhadaFica DEF Calma
  <2>4. QED
    BY <2>1, <2>2, <2>3
<1>11. CASE r.tipo = "salva" /\ Salvo(r.lido, resto)
  <2>1. r.lido \in {Nada} \cup Avisos /\ conexao' = conexao
    BY <1>1, <1>11, RespostaTipada DEF Salvo
  <2>2. CASE r.lido = Nada
    <3>1. partida' = partida
      BY <1>11, <2>2 DEF Salvo
    <3>2. QED
      BY <1>1, <2>1, <3>1, EspelhadaFica DEF Calma
  <2>3. CASE r.lido \in Avisos
    <3>1. partida # Nada => partida'.presenca = partida.presenca
      BY <1>1, <1>11, <2>3, TerminoPasso
    <3>2. partida = Nada => partida' = Nada
      BY <1>11, <2>3, Elenco DEF Salvo
    <3>3. QED
      BY <1>1, <2>1, <3>1, <3>2, EspelhadaFica DEF Calma
  <2>4. QED
    BY <2>1, <2>2, <2>3
<1>12. CASE r.tipo = "comandoLido" /\ ComandoLido(r.alvo, r.lido, resto)
  <2>1. /\ r.alvo \in Jogadores /\ r.lido \in SUBSET Jogadores /\ conexao' = conexao
        /\ r.alvo \in r.lido /\ (~cedo => partida # Nada)
        /\ partida # Nada => ~partida.terminou /\ partida.vivos = r.lido
    BY <1>1, <1>12, RespostaTipada DEF Certa, ComandoLido
  <2>2. \E N : EmVao(N) \/ \E d \in BOOLEAN : Muta(r.alvo, d, N)
    BY <1>1, <1>12, <2>1, ComandoPasso
  <2>3. QED
    BY <1>1, <2>1, <2>2, EspelhadaFica DEF EmVao, Muta, Calma
<1>13. CASE \/ r.tipo = "pendenteLido" /\ LerReenvio(r.lido, resto)
            \/ r.tipo = "reenvioLido" /\ Reenviar(r.lido, resto)
  BY <1>1, <1>13, EspelhadaFica DEF LerReenvio, Reenviar, redis, Calma
<1>14. QED
  BY <1>2, <1>3, <1>4, <1>5, <1>6, <1>7, <1>8, <1>9, <1>10, <1>11, <1>12, <1>13 DEF Responder

LEMMA PresencaFica ==
  ASSUME Tipos, Corrente, Lote, Recados, PresencaSegueRegistro, Next
  PROVE  PresencaSegueRegistro'
<1>1. ASSUME NEW s \in Soquetes, PedirConexao(s) \/ FecharAntesDoListener(s)
      PROVE  PresencaSegueRegistro'
  BY <1>1, EspelhadaFica DEF PedirConexao, FecharAntesDoListener, redis, lobby, Calma
<1>2. ASSUME NEW s \in Soquetes, Fechar(s) PROVE PresencaSegueRegistro'
  <2>1. roster' = roster /\ quedas' = quedas
    BY <1>2 DEF Fechar, lobby
  <2>2. CASE conexao[Dono(s)] = s
    <3>1. /\ conexao' = [conexao EXCEPT ![Dono(s)] = Nada]
          /\ partida' = ComPresenca(Dono(s), "em_reconexao")
      BY <1>2, <2>2 DEF Fechar
    <3>2. partida' # Nada => /\ partida # Nada
                             /\ partida'.presenca = [partida.presenca EXCEPT ![Dono(s)] = "em_reconexao"]
      <4>1. partida = Nada => partida' = Nada
        BY <3>1 DEF ComPresenca
      <4>2. QED
        BY <3>1, <4>1, PresencaTipada
    <3>3. QED
      BY <2>1, <3>1, <3>2, EspelhadaMuda
  <2>3. CASE conexao[Dono(s)] # s
    BY <1>2, <2>1, <2>3, EspelhadaFica DEF Fechar, Calma
  <2>4. QED
    BY <2>2, <2>3
<1>3. ASSUME NEW j \in Jogadores, Comandar(j) PROVE PresencaSegueRegistro'
  BY <1>3, EspelhadaFica DEF Comandar, redis, lobby, Calma
<1>4. ASSUME NEW j \in Jogadores, DispararExpiracao(j) \/ ExpirarJanela(j) \/ SairDeOrfa(j)
      PROVE  PresencaSegueRegistro'
  BY <1>4, EspelhadaFica DEF DispararExpiracao, ExpirarJanela, SairDeOrfa, redis, memoria, lobby, Calma
<1>5. ASSUME NEW j \in Jogadores, NEW chega \in BOOLEAN, Desvincular(j, chega)
      PROVE  PresencaSegueRegistro'
  BY <1>5, EspelhadaFica DEF Desvincular, redis, Calma
<1>6. ASSUME NEW r \in retornos, NEW chega \in BOOLEAN, Retornar(r, chega)
      PROVE  PresencaSegueRegistro'
  BY <1>6, EspelhadaFica DEF Retornar, Calma
<1>7. CASE DispararNaoInicio \/ EnviarRetorno \/ Envelhecer
  BY <1>7, EspelhadaFica DEF DispararNaoInicio, EnviarRetorno, Envelhecer, redis, lobby, Calma
<1>8. CASE Responder
  BY <1>8, PresencaDaResposta
<1>9. CASE ExpirarPreparada
  BY <1>9, EspelhadaFica DEF ExpirarPreparada, memoria, lobby, Calma
<1>10. CASE Cair
  BY <1>10 DEF Cair, PresencaSegueRegistro, Tipos
<1>11. CASE Voltar
  BY <1>11, EspelhadaFica DEF Voltar, lobby, Calma
<1>12. QED
  BY <1>1, <1>2, <1>3, <1>4, <1>5, <1>6, <1>7, <1>8, <1>9, <1>10, <1>11 DEF Next

-----------------------------------------------------------------------------
(* Every step, as the lobby and the return see it.                         *)
LobbyParada ==
  /\ UNCHANGED <<sala, orfaos, pendente, enviado, retornos>>
  /\ partida' # Nada => (avisos' \ avisos) \cap partida'.vivos = {}

Reenviada ==
  /\ UNCHANGED <<sala, orfaos, pendente, avisos, partida>> /\ enviado' = TRUE
  /\ \E L : L # {} /\ (\A r \in L : Diz(r)) /\ retornos' = retornos \cup L

NaoIniciada ==
  /\ partida = Nada /\ UNCHANGED <<sala, orfaos, pendente, enviado, avisos, partida>>
  /\ retornos' = retornos \cup {[jogadores |-> roster, desistencia |-> FALSE, termino |-> FALSE]}

PassoDaDevolucao ==
  \/ LobbyParada \/ Reenviada \/ NaoIniciada \/ EnviarRetorno \/ Cair
  \/ \E j \in Jogadores, chega \in BOOLEAN : Desvincular(j, chega)
  \/ \E j \in Jogadores : SairDeOrfa(j)
  \/ \E r \in retornos, chega \in BOOLEAN : Retornar(r, chega)

LEMMA LobbyQuieto ==
  ASSUME UNCHANGED <<sala, orfaos, pendente, enviado, retornos, avisos>>
  PROVE  LobbyParada
  BY DEF LobbyParada

LEMMA DevolucaoDaResposta ==
  ASSUME Tipos, Corrente, Lote, Reenvios, Recados, PassoDaCadeia, Responder
  PROVE  PassoDaDevolucao
<1> DEFINE r     == Head(fio)
           resto == Tail(fio)
<1>1. /\ fio # <<>> /\ Fora /\ r \in Respostas /\ r = fio[1] /\ 1 \in DOMAIN fio /\ Certa(r)
      /\ UNCHANGED <<sala, orfaos>>
  BY Cabeca DEF Responder, Fora, Lote, lobby
<1>2. CASE r.tipo = "conectar" /\ Conectar(r.alvo, resto)
  BY <1>1, <1>2, LobbyQuieto DEF Conectar, PassoDaDevolucao
<1>3. CASE r.tipo = "concluir" /\ Concluir(r.alvo, r.lido, resto)
  <2>1. CASE LimparAdmissaoFalha(r.alvo, resto)
    BY <1>1, <2>1, LobbyQuieto DEF LimparAdmissaoFalha, redis, PassoDaDevolucao
  <2>2. CASE Admite(r.alvo, r.lido, resto)
    BY <1>1, <2>2, LobbyQuieto DEF Admite, PassoDaDevolucao
  <2>3. QED
    BY <1>3, <2>1, <2>2, ConcluirCasos
<1>4. CASE \/ r.tipo = "marcada" /\ Marcada(r.alvo, resto)
           \/ r.tipo = "lida" /\ Lida(r.alvo, r.lido, resto)
           \/ r.tipo = "janelaPosta" /\ JanelaPosta(r.alvo, resto)
           \/ r.tipo = "naoInicioLido" /\ NaoInicioLido(r.lido, resto)
           \/ r.tipo = "validadeLida" /\ ValidadeLida(r.alvo, r.lido, resto)
           \/ r.tipo = "conversaoLida" /\ ConversaoLida(r.alvo, r.lido, resto)
           \/ r.tipo = "comandoLido" /\ ComandoLido(r.alvo, r.lido, resto)
           \/ r.tipo = "pendenteLido" /\ LerReenvio(r.lido, resto)
  BY <1>1, <1>4, LobbyQuieto DEF Marcada, Lida, JanelaPosta, NaoInicioLido, ValidadeLida,
     ConversaoLida, ComandoLido, LerReenvio, redis, PassoDaDevolucao
<1>5. CASE r.tipo = "cancelada" /\ Cancelada(r.lido, resto)
  <2>1. UNCHANGED <<pendente, enviado, avisos, partida>>
    BY <1>5 DEF Cancelada, redis
  <2>2. CASE r.lido
    <3>1. Cancela(1)
      BY <1>1, <1>5, <2>2 DEF Cancela
    <3>2. partida = Nada
      BY <1>1, <3>1 DEF Recados
    <3>3. QED
      BY <1>1, <1>5, <2>1, <2>2, <3>2 DEF Cancelada, NaoIniciada, PassoDaDevolucao
  <2>3. CASE ~ r.lido
    BY <1>1, <1>5, <2>1, <2>3, LobbyQuieto DEF Cancelada, PassoDaDevolucao
  <2>4. QED
    BY <2>2, <2>3
<1>6. CASE r.tipo = "salva" /\ Salvo(r.lido, resto)
  <2>1. r.lido \in {Nada} \cup Avisos /\ UNCHANGED <<pendente, enviado, retornos>>
    BY <1>1, <1>6, RespostaTipada DEF Salvo
  <2>2. CASE r.lido = Nada
    <3>1. partida' = partida /\ avisos' = avisos \cup {Head(cadeia).quem}
      BY <1>6, <2>2 DEF Salvo
    <3>2. partida # Nada => Head(cadeia).quem \notin partida.vivos
      BY <1>1, <1>6, <2>2 DEF Certa
    <3>3. QED
      BY <1>1, <2>1, <3>1, <3>2 DEF LobbyParada, PassoDaDevolucao
  <2>3. CASE r.lido \in Avisos
    <3>1. r.lido # Nada
      BY <2>3, Elenco
    <3>2. Diz(r.lido)
      BY <1>1, <1>6, <3>1 DEF Certa
    <3>3. avisos' = avisos \cup (roster \ r.lido.jogadores)
      BY <1>6, <3>1 DEF Salvo
    <3>4. partida' # Nada => r.lido.jogadores = partida'.vivos
      BY <3>2, PartidaAvanca DEF Diz, Avanca
    <3>5. QED
      BY <1>1, <2>1, <3>3, <3>4 DEF LobbyParada, PassoDaDevolucao
  <2>4. QED
    BY <2>1, <2>2, <2>3
<1>7. CASE r.tipo = "reenvioLido" /\ Reenviar(r.lido, resto)
  <2>1. UNCHANGED <<pendente, avisos, partida>>
    BY <1>7 DEF Reenviar, redis
  <2>2. CASE ~enviado /\ r.lido # {}
    <3>1. \A x \in r.lido : Diz(x)
      BY <1>1, <1>7 DEF Reenvios
    <3>2. enviado' = TRUE /\ retornos' = retornos \cup r.lido
      BY <1>7, <2>2 DEF Reenviar
    <3>3. QED
      BY <1>1, <2>1, <2>2, <3>1, <3>2 DEF Reenviada, PassoDaDevolucao
  <2>3. CASE ~ (~enviado /\ r.lido # {})
    BY <1>1, <1>7, <2>1, <2>3, LobbyQuieto DEF Reenviar, PassoDaDevolucao
  <2>4. QED
    BY <2>2, <2>3
<1>8. QED
  BY <1>2, <1>3, <1>4, <1>5, <1>6, <1>7 DEF Responder

LEMMA PassoDevolve ==
  ASSUME Tipos, Corrente, Lote, Reenvios, Recados, PassoDaCadeia, Next
  PROVE  PassoDaDevolucao
<1>1. ASSUME NEW s \in Soquetes, PedirConexao(s) \/ FecharAntesDoListener(s) \/ Fechar(s)
      PROVE  PassoDaDevolucao
  BY <1>1, LobbyQuieto DEF PedirConexao, FecharAntesDoListener, Fechar, redis, lobby, PassoDaDevolucao
<1>2. ASSUME NEW j \in Jogadores, Comandar(j) \/ DispararExpiracao(j) \/ ExpirarJanela(j)
      PROVE  PassoDaDevolucao
  BY <1>2, LobbyQuieto DEF Comandar, DispararExpiracao, ExpirarJanela,
     redis, memoria, lobby, PassoDaDevolucao
<1>3. CASE DispararNaoInicio \/ Envelhecer \/ ExpirarPreparada \/ Voltar
  BY <1>3, LobbyQuieto DEF DispararNaoInicio, Envelhecer, ExpirarPreparada, Voltar,
     redis, memoria, lobby, PassoDaDevolucao
<1>4. CASE Responder
  BY <1>4, DevolucaoDaResposta
<1>5. QED
  BY <1>1, <1>2, <1>3, <1>4 DEF Next, PassoDaDevolucao

LEMMA DevolucaoFica ==
  ASSUME Tipos, Tipos', Lote, NoTempo, Bastam, Regular, Devolucao, PassoDaCadeia, PassoDaDevolucao
  PROVE  Regular' /\ Devolucao'
<1>0. Avanca
  BY PartidaAvanca
<1>1. partida # Nada => partida.vivos # {} /\ partida.vivos \subseteq roster
  <2>1. SUFFICES ASSUME partida # Nada PROVE partida.vivos # {} /\ partida.vivos \subseteq roster
    OBVIOUS
  <2>2. partida.vivos \subseteq roster /\ partida.terminou \in BOOLEAN
    BY <2>1 DEF Tipos, Partidas
  <2>3. Cardinality(partida.vivos) >= 1
    <3>1. Cardinality(partida.vivos) \in Nat
      BY <2>2, Elenco, FS_Subset, FS_CardinalityType
    <3>2. QED
      BY <2>1, <2>2, <3>1 DEF Bastam
  <2>4. QED
    BY <2>2, <2>3, FS_EmptySet
<1>2. (Fim \/ partida # Nada) /\ (enviado => Fim)
  BY DEF Fim, Devolucao
<1>3. CASE LobbyParada
  <2>1. Regular'
    <3>1. partida' = Nada => cedo' \/ ~enviado'
      <4>1. SUFFICES ASSUME partida' = Nada, enviado, ~cedo' PROVE FALSE
        BY <1>3 DEF LobbyParada
      <4>2. Fim /\ ~cedo
        BY <1>0, <1>2, <4>1 DEF Avanca
      <4>3. partida # Nada
        BY <4>1, <4>2 DEF Regular
      <4>4. Preparada /\ partida.terminou
        BY <1>0, <4>1, <4>2, <4>3 DEF Avanca, Fim
      <4>5. QED
        BY <4>2, <4>4 DEF NoTempo, Preparada
    <3>2. partida' # Nada => avisos' \cap partida'.vivos = {}
      BY <1>0, <1>3 DEF LobbyParada, Regular, Avanca
    <3>3. QED
      BY <3>1, <3>2 DEF Regular
  <2>2. Devolucao'
    <3>1. /\ sala.estado = "aberta" => Fim' /\ (partida' # Nada => partida'.vivos = partida.vivos)
          /\ pendente # {} => Fim'
          /\ enviado => Fim'
          /\ \A r \in retornos : Fim' /\ (~r.termino => partida' = Nada)
          /\ \A r \in retornos : partida' # Nada => r.jogadores = partida'.vivos
      BY <1>0 DEF Devolucao, Avanca
    <3>2. ~cedo' /\ partida' # Nada => ~cedo /\ partida # Nada /\ partida'.vivos \subseteq partida.vivos
      BY <1>0 DEF Avanca
    <3>3. QED
      BY <1>3, <3>1, <3>2 DEF Devolucao, LobbyParada
  <2>3. QED
    BY <2>1, <2>2
<1>4. CASE Reenviada
  <2>1. /\ UNCHANGED <<sala, orfaos, pendente, avisos, partida>> /\ (cedo => cedo')
        /\ enviado' = TRUE
    BY <1>0, <1>4 DEF Reenviada, Avanca
  <2>2. PICK L : L # {} /\ (\A r \in L : Diz(r)) /\ retornos' = retornos \cup L
    BY <1>4 DEF Reenviada
  <2>3. Fim /\ (~cedo => partida # Nada)
    BY <2>2 DEF Diz
  <2>4. retornos' # {}
    BY <2>2
  <2>5. \A r \in retornos' : /\ ~r.termino => partida' = Nada
                             /\ partida' # Nada => r.jogadores = partida'.vivos
    BY <2>1, <2>2 DEF Devolucao, Diz
  <2>6. Regular' /\ Fim'
    BY <2>1, <2>3 DEF Regular, Fim
  <2>7. ~cedo' => ~cedo
    BY <2>1
  <2>8. QED
    BY <2>1, <2>4, <2>5, <2>6, <2>7 DEF Devolucao
<1>5. CASE NaoIniciada
  BY <1>0, <1>5 DEF NaoIniciada, Avanca, Regular, Devolucao, Fim
<1>6. CASE EnviarRetorno
  <2>1. UNCHANGED <<partida, sala, orfaos, avisos, cedo>> /\ devido # Nada
    BY <1>6 DEF EnviarRetorno, lobby
  <2>2. Diz(devido)
    BY <2>1 DEF Lote
  <2>3. CASE enviado
    <3>1. UNCHANGED <<enviado, pendente, retornos>>
      BY <1>6, <2>3 DEF EnviarRetorno, DeveEnviar
    <3>2. QED
      BY <2>1, <3>1 DEF Regular, Devolucao, Fim
  <2>4. CASE ~enviado
    <3>1. /\ enviado' = TRUE /\ retornos' = retornos \cup {devido}
      BY <1>6, <2>4 DEF EnviarRetorno, DeveEnviar
    <3>2. Regular'
      BY <2>1, <2>2, <3>1 DEF Diz, Regular
    <3>3. Fim'
      BY <2>1, <2>2 DEF Diz, Fim
    <3>4. \A r \in retornos' : (~r.termino => partida' = Nada) /\ (partida' # Nada => r.jogadores = partida'.vivos)
      BY <2>1, <2>2, <3>1 DEF Devolucao, Diz
    <3>5. QED
      BY <2>1, <3>1, <3>2, <3>3, <3>4 DEF Devolucao
  <2>5. QED
    BY <2>3, <2>4
<1>7. CASE Cair
  BY <1>7 DEF Cair, redis, lobby, Regular, Devolucao, Fim
<1>8. ASSUME NEW j \in Jogadores, NEW chega \in BOOLEAN, Desvincular(j, chega)
      PROVE  Regular' /\ Devolucao'
  <2>1. /\ UNCHANGED <<partida, pendente, orfaos, retornos, enviado, cedo>>
        /\ j \in avisos /\ avisos' \subseteq avisos
        /\ sala' = IF sala.estado = "encaminhada" THEN [sala EXCEPT !.ativos = @ \ {j}] ELSE sala
    BY <1>8 DEF Desvincular, redis
  <2>2. partida # Nada => j \notin partida.vivos
    BY <2>1 DEF Regular
  <2>3. /\ sala'.estado = sala.estado
        /\ sala.estado = "encaminhada" => sala'.ativos = sala.ativos \ {j}
        /\ sala.estado = "aberta" => sala'.ativos = sala.ativos
    BY <2>1 DEF Tipos
  <2>4. QED
    BY <2>1, <2>2, <2>3 DEF Regular, Devolucao, Fim
<1>9. ASSUME NEW j \in Jogadores, SairDeOrfa(j) PROVE Regular' /\ Devolucao'
  <2>1. UNCHANGED <<partida, pendente, retornos, enviado, avisos, cedo>> /\ orfaos' # {}
    BY <1>9 DEF SairDeOrfa, redis, memoria
  <2>2. sala'.estado = sala.estado
    BY <1>9 DEF SairDeOrfa, Tipos
  <2>3. QED
    BY <2>1, <2>2 DEF Regular, Devolucao, Fim
<1>10. ASSUME NEW r \in retornos, NEW chega \in BOOLEAN, Retornar(r, chega)
       PROVE  Regular' /\ Devolucao'
  <2> DEFINE conclui == chega /\ (Reabre(r) \/ JaReaberta(r) \/ ~r.desistencia)
  <2>1. /\ UNCHANGED <<partida, orfaos, avisos, enviado, cedo>>
        /\ sala' = IF Reabre(r) THEN [estado |-> "aberta", ativos |-> r.jogadores] ELSE sala
        /\ retornos' = IF conclui THEN retornos \ {r} ELSE retornos
        /\ pendente' \subseteq pendente
    BY <1>10 DEF Retornar
  <2>2. Fim /\ (partida # Nada => r.jogadores = partida.vivos)
    BY DEF Devolucao
  <2>3. Regular'
    BY <2>1 DEF Regular
  <2>4. ASSUME ~cedo, orfaos = {}, partida # Nada
        PROVE  /\ sala'.estado = "encaminhada" => partida.vivos \subseteq sala'.ativos
               /\ sala'.estado = "aberta" => sala'.ativos = partida.vivos
               /\ enviado => retornos' # {} \/ sala'.estado = "aberta"
    <3>1. sala.estado = "encaminhada" => Reabre(r)
      BY <1>1, <2>2, <2>4 DEF Reabre, Devolucao
    <3>2. sala'.estado = "aberta" /\ sala'.ativos = partida.vivos
      <4>1. CASE Reabre(r)
        BY <2>1, <2>2, <2>4, <4>1
      <4>2. CASE ~ Reabre(r)
        BY <2>1, <2>4, <3>1, <4>2 DEF Devolucao, Tipos
      <4>3. QED
        BY <4>1, <4>2
    <3>3. QED
      BY <3>2
  <2>5. retornos' \subseteq retornos
    BY <2>1
  <2>6. QED
    BY <2>1, <2>2, <2>3, <2>4, <2>5 DEF Devolucao, Fim
<1>11. QED
  BY <1>3, <1>4, <1>5, <1>6, <1>7, <1>8, <1>9, <1>10 DEF PassoDaDevolucao

LEMMA DevolucaoMostra ==
  ASSUME Tipos, Regular, Devolucao
  PROVE  SalaAbertaSemPartida /\ RetornoReabre
<1>1. SalaAbertaSemPartida
  BY DEF Devolucao, Fim, SalaAbertaSemPartida
<1>2. RetornoReabre
  <2>1. SUFFICES ASSUME enviado, retornos = {}, orfaos = {}, ~cedo
                 PROVE  sala = [estado |-> "aberta", ativos |-> partida.vivos]
    BY DEF RetornoReabre
  <2>2. partida # Nada
    BY <2>1 DEF Regular
  <2>3. sala.estado = "aberta" /\ sala.ativos = partida.vivos
    BY <2>1, <2>2 DEF Devolucao
  <2>4. QED
    BY <2>3 DEF Tipos
<1>3. QED
  BY <1>1, <1>2

-----------------------------------------------------------------------------
(* The pending return that survived a crash.                               *)
LEMMA AdmitidosCrescem ==
  ASSUME Tipos, Parado, PassoDoRecado, noAr'
  PROVE  \/ noAr /\ Admitidos' \subseteq Admitidos
         \/ /\ fio # <<>> /\ fio[1].tipo = "concluir" /\ Fora
            /\ \E s \in Soquetes : Admite(s, fio[1].lido, Tail(fio))
         \/ Admitidos' = {}
<1>1. CASE Alheia \/ Cancelando
  BY <1>1 DEF Alheia, Cancelando, Fora, Admitidos
<1>2. CASE Conecta
  BY <1>2 DEF Conecta, Fora, Conectar, Admitidos, Tipos
<1>3. CASE Conclui
  <2>1. PICK s \in Soquetes : LimparAdmissaoFalha(s, Tail(fio)) \/ Admite(s, fio[1].lido, Tail(fio))
    BY <1>3 DEF Conclui
  <2>2. noAr
    BY <1>3 DEF Conclui, Fora
  <2>3. CASE LimparAdmissaoFalha(s, Tail(fio))
    BY <2>2, <2>3 DEF LimparAdmissaoFalha, Admitidos, Tipos
  <2>4. CASE Admite(s, fio[1].lido, Tail(fio))
    BY <1>3, <2>4 DEF Conclui
  <2>5. QED
    BY <2>1, <2>3, <2>4
<1>4. CASE Cancelado
  <2>1. noAr
    BY <1>4 DEF Cancelado, Fora
  <2>2. Admitidos' \subseteq Admitidos
    BY <1>4 DEF Cancelado, Cancelada, Admitidos, Tipos
  <2>3. QED
    BY <2>1, <2>2
<1>5. CASE Relido \/ Reenviado
  BY <1>5, RelidoAnda DEF Admitidos
<1>6. CASE Cair
  BY <1>6 DEF Cair
<1>7. CASE Voltar
  BY <1>7 DEF Voltar, Parado, Admitidos
<1>8. CASE ExpirarPreparada
  BY <1>8 DEF ExpirarPreparada
<1>9. QED
  BY <1>1, <1>2, <1>3, <1>4, <1>5, <1>6, <1>7, <1>8 DEF PassoDoRecado

(* A reply that leads to the return stays on the wire until it is handled. *)
LEMMA RetomadaAnda ==
  ASSUME Tipos, NEW d \in {0, 1}, NEW N, Anda(fio, d, N, fio'), Retomada # {},
         d = 1 => 1 \notin Retomada
  PROVE  Retomada' # {}
<1>1. PICK i \in DOMAIN fio : fio[i].tipo \in {"pendenteLido", "reenvioLido"} /\ fio[i].lido # {}
  BY DEF Retomada
<1>2. i \in Nat /\ i > 0 /\ i \in Retomada
  BY <1>1, LenProperties DEF Tipos, Retomada
<1>3. i > d
  BY <1>2
<1>4. i - d \in DOMAIN fio' /\ fio'[i - d] = fio[i]
  BY <1>3 DEF Anda
<1>5. QED
  BY <1>1, <1>4 DEF Retomada

LEMMA RetomadaNasce ==
  ASSUME NEW d, NEW N, Anda(fio, d, N, fio'), NEW r \in N,
         r.tipo \in {"pendenteLido", "reenvioLido"}, r.lido # {}
  PROVE  Retomada' # {}
<1>1. Len(fio) - d + 1 \in DOMAIN fio' /\ fio'[Len(fio) - d + 1] = r
  BY DEF Anda
<1>2. QED
  BY <1>1 DEF Retomada

(* It is lost only to a crash, to a match without result, or to the return *)
(* being sent.                                                             *)
LEMMA RetomadaFica ==
  ASSUME Tipos, Encerrada, ~enviado, ~enviado', noAr, noAr', Retomada # {}, PassoDoRecado
  PROVE  Retomada' # {}
<1>1. ASSUME NEW d \in {0, 1}, NEW N, Anda(fio, d, N, fio'),
             d = 1 => fio[1].tipo \notin {"pendenteLido", "reenvioLido"}
      PROVE  Retomada' # {}
  <2>1. d = 1 => 1 \notin Retomada
    BY <1>1 DEF Retomada
  <2>2. QED
    BY <1>1, <2>1, RetomadaAnda
<1>2. CASE Alheia
  BY <1>1, <1>2 DEF Alheia, Recado
<1>3. CASE Conecta
  BY <1>1, <1>3, ConectarPasso DEF Conecta
<1>4. CASE Conclui
  BY <1>1, <1>4, LimparPasso, AdmitePasso DEF Conclui
<1>5. CASE Cancelando
  BY <1>1, <1>5 DEF Cancelando
<1>6. CASE Cancelado
  BY <1>1, <1>6, CanceladaPasso DEF Cancelado
<1>7. CASE Relido
  <2>1. fio[1] \in Respostas
    BY <1>7, Cabeca DEF Relido
  <2>2. fio[1].lido \in SUBSET BOOLEAN
    BY <1>7, <2>1, RespostaTipada DEF Relido
  <2>3. PICK N : /\ Anda(fio, 1, N, fio')
                 /\ fio[1].lido # {} => \E r \in N : r.tipo = "reenvioLido" /\ r.lido # {}
    BY <1>7, <2>2, LerReenvioPasso DEF Relido
  <2>4. CASE fio[1].lido # {}
    BY <2>3, <2>4, RetomadaNasce
  <2>5. CASE fio[1].lido = {}
    BY <2>3, <2>5, RetomadaAnda DEF Retomada
  <2>6. QED
    BY <2>4, <2>5
<1>8. CASE Reenviado
  <2>1. fio[1].lido = {}
    BY <1>8 DEF Reenviado, Reenviar
  <2>2. \E N : Anda(fio, 1, N, fio')
    BY <1>8, RelidoAnda
  <2>3. QED
    BY <2>1, <2>2, RetomadaAnda DEF Retomada
<1>9. CASE Cair \/ Voltar \/ ExpirarPreparada
  BY <1>9 DEF Cair, Voltar, ExpirarPreparada
<1>10. QED
  BY <1>2, <1>3, <1>4, <1>5, <1>6, <1>7, <1>8, <1>9 DEF PassoDoRecado

LEMMA PendenteFica ==
  ASSUME Tipos, Parado, Devolucao, PendenteACaminho, PassoDaCadeia, PassoDoRecado, PassoDaDevolucao
  PROVE  PendenteACaminho'
<1>1. SUFFICES ASSUME noAr', pendente' # {}, Encerrada', Admitidos' # {}, ~ enviado'
               PROVE  Retomada' # {}
  BY DEF PendenteACaminho, PendenteParado, Admitidos, Tipos
<1>2. pendente # {} /\ ~enviado
  <2>1. CASE LobbyParada
    BY <1>1, <2>1 DEF LobbyParada
  <2>2. CASE Reenviada
    BY <1>1, <2>2 DEF Reenviada
  <2>3. CASE NaoIniciada
    BY <1>1, <2>3 DEF NaoIniciada
  <2>4. CASE EnviarRetorno
    BY <1>1, <2>4 DEF EnviarRetorno, DeveEnviar
  <2>5. CASE Cair
    BY <1>1, <2>5 DEF Cair
  <2>6. ASSUME NEW j \in Jogadores, SairDeOrfa(j) \/ \E chega \in BOOLEAN : Desvincular(j, chega)
        PROVE  pendente # {} /\ ~enviado
    <3>1. pendente' = pendente /\ enviado' = enviado
      BY <2>6 DEF SairDeOrfa, Desvincular, redis, memoria
    <3>2. QED
      BY <1>1, <3>1
  <2>7. ASSUME NEW r \in retornos, NEW chega \in BOOLEAN, Retornar(r, chega)
        PROVE  pendente # {} /\ ~enviado
    BY <1>1, <2>7 DEF Retornar
  <2>8. QED
    BY <2>1, <2>2, <2>3, <2>4, <2>5, <2>6, <2>7 DEF PassoDaDevolucao
<1>3. Encerrada
  BY <1>1, <1>2, PartidaAvanca DEF Devolucao, Fim, Avanca, Encerrada
<1>4. CASE noAr /\ Admitidos' \subseteq Admitidos
  <2>1. Retomada # {}
    BY <1>1, <1>2, <1>3, <1>4 DEF PendenteACaminho, PendenteParado, Admitidos
  <2>2. QED
    BY <1>1, <1>2, <1>3, <1>4, <2>1, RetomadaFica
<1>5. CASE /\ fio # <<>> /\ fio[1].tipo = "concluir" /\ Fora
           /\ \E s \in Soquetes : Admite(s, fio[1].lido, Tail(fio))
  <2>1. Anda(fio, 1, Pendencia, fio')
    BY <1>5, AdmitePasso
  <2> DEFINE r == Resposta("pendenteLido", Nada, pendente)
  <2>2. r \in Pendencia
    BY <1>2, <1>3 DEF Pendencia
  <2>3. r.tipo = "pendenteLido" /\ r.lido # {}
    BY <1>2 DEF Resposta
  <2> HIDE DEF r
  <2>4. QED
    BY <2>1, <2>2, <2>3, RetomadaNasce
<1>6. QED
  BY <1>1, <1>4, <1>5, AdmitidosCrescem

(* What was read of a match with a result stays true.                      *)
LEMMA DizAvanca ==
  ASSUME Tipos, NoTempo, Avanca, NEW r, Diz(r)
  PROVE  Diz(r)'
<1>1. Fim'
  BY DEF Diz, Avanca
<1>2. partida' # Nada => r.jogadores = partida'.vivos
  BY DEF Diz, Avanca
<1>3. ~cedo' => partida' # Nada
  BY DEF Diz, Avanca, Fim, NoTempo, Preparada
<1>4. QED
  BY <1>1, <1>2, <1>3 DEF Diz

LEMMA ReenviosFicam ==
  ASSUME Tipos, NoTempo, Reenvios, PassoDaCadeia, PassoDoRecado
  PROVE  Reenvios'
<1>1. Avanca
  BY PartidaAvanca
<1>2. ASSUME NEW d \in {0, 1}, NEW N, Anda(fio, d, N, fio'),
             \A r \in N : r.tipo = "reenvioLido" => \A av \in r.lido : Diz(av)
      PROVE  Reenvios'
  <2>1. ASSUME NEW i \in DOMAIN fio', fio'[i].tipo = "reenvioLido", NEW av \in fio'[i].lido
        PROVE  Diz(av)
    <3>1. CASE i + d \in DOMAIN fio /\ fio'[i] = fio[i + d]
      BY <2>1, <3>1 DEF Reenvios
    <3>2. CASE fio'[i] \in N
      BY <1>2, <2>1, <3>2
    <3>3. QED
      BY <1>2, <3>1, <3>2 DEF Anda
  <2>2. ASSUME NEW i \in DOMAIN fio', fio'[i].tipo = "reenvioLido", NEW av \in fio'[i].lido
        PROVE  Diz(av)'
    BY <1>1, <2>1, <2>2, DizAvanca
  <2>3. QED
    BY <2>2 DEF Reenvios
<1>3. CASE Alheia
  BY <1>2, <1>3 DEF Alheia, Recado
<1>4. CASE Conecta
  <2>1. PICK s \in Soquetes : fio # <<>> /\ Fora /\ Conectar(s, Tail(fio))
    BY <1>4 DEF Conecta
  <2>2. PICK N : Anda(fio, 1, N, fio') /\ \A r \in N : r.tipo = "concluir"
    BY <2>1, ConectarAnda
  <2>3. QED
    BY <1>2, <2>2
<1>5. CASE Conclui
  <2>1. PICK N : Anda(fio, 1, N, fio') /\ \A r \in N : r.tipo = "pendenteLido"
    BY <1>5, LimparPasso, AdmitePasso, PendenciaTipada DEF Conclui
  <2>2. QED
    BY <1>2, <2>1
<1>6. CASE Cancelando
  <2>1. \A r \in {Resposta("cancelada", Nada, Preparada)} : r.tipo = "cancelada"
    BY DEF Resposta
  <2>2. QED
    BY <1>2, <1>6, <2>1 DEF Cancelando
<1>7. CASE Cancelado
  <2>1. Anda(fio, 1, {}, fio')
    BY <1>7, CanceladaPasso DEF Cancelado
  <2>2. QED
    BY <1>2, <2>1
<1>8. CASE Relido
  <2>1. fio[1] \in Respostas
    BY <1>8, Cabeca DEF Relido
  <2>2. fio[1].lido \in SUBSET BOOLEAN
    BY <1>8, <2>1, RespostaTipada DEF Relido
  <2>3. PICK N : /\ Anda(fio, 1, N, fio')
                 /\ \A r \in N : \A av \in r.lido : /\ av.termino /\ Encerrada
                                                   /\ av.jogadores = partida.vivos
    BY <1>8, <2>2, LerReenvioPasso DEF Relido
  <2>4. \A r \in N : \A av \in r.lido : Diz(av)
    BY <2>3 DEF Diz, Fim, Encerrada
  <2>5. QED
    BY <1>2, <2>3, <2>4
<1>9. CASE Reenviado
  <2>1. fio[1] \in Respostas
    BY <1>9, Cabeca DEF Reenviado
  <2>2. fio[1].lido \in SUBSET Avisos
    BY <1>9, <2>1, RespostaTipada DEF Reenviado
  <2>3. Anda(fio, 1, {}, fio')
    BY <1>9, <2>2, ReenviarPasso DEF Reenviado
  <2>4. QED
    BY <1>2, <2>3
<1>10. CASE Cair
  BY <1>10 DEF Cair, Reenvios
<1>11. CASE Voltar \/ ExpirarPreparada
  <2>1. fio' = fio
    BY <1>11 DEF Voltar, ExpirarPreparada, memoria
  <2>2. Anda(fio, 0, {}, fio')
    BY <2>1, AndaNada DEF Tipos
  <2>3. QED
    BY <1>2, <2>2
<1>12. QED
  BY <1>3, <1>4, <1>5, <1>6, <1>7, <1>8, <1>9, <1>10, <1>11 DEF PassoDoRecado

-----------------------------------------------------------------------------
(* The inductive invariant.                                                *)
Vida ==
  /\ Tipos /\ Corrente /\ Lote /\ NoTempo /\ Bastam /\ Regular /\ Devolucao
  /\ Parado /\ Recados /\ Cancelamento /\ PresencaSegueRegistro
  /\ Reenvios /\ PendenteACaminho

LEMMA ComecoTipado ==
  ASSUME roster \subseteq Jogadores, NEW e \in {"preparada", "em_andamento"},
         NEW p \in {"conectado", "em_reconexao"}
  PROVE  /\ Comeco(e, p) \in Partidas(roster) /\ Comeco(e, p).estado = e
         /\ Comeco(e, p).vivos = roster /\ Comeco(e, p).terminou = FALSE
         /\ \A j \in roster : Comeco(e, p).presenca[j] = p
  BY DEF Comeco, Partidas

LEMMA InicioTipado ==
  ASSUME Init
  PROVE  /\ Tipos /\ fio = <<>> /\ partida # Nada /\ ~partida.terminou /\ partida.vivos = roster
         /\ \A j \in roster : partida.presenca[j] = "conectado" <=> conexao[j] # Nada
<1>1. /\ roster \in {Encaminhados, Reunidos} /\ roster \subseteq Jogadores
      /\ Nada \notin Partidas(roster)
  BY VidaAssumption DEF Init, RecemEncaminhada, JaEmAndamento
<1>2. /\ janela = {} /\ pendente = {} /\ expira = {} /\ fio = <<>> /\ cadeia = <<>>
      /\ devido = Nada /\ avisos = {} /\ retornos = {} /\ enviado = FALSE
      /\ sala = [estado |-> "encaminhada", ativos |-> roster] /\ orfaos = {}
      /\ noAr = TRUE /\ quedas = 0 /\ cedo = FALSE
  BY DEF Init
<1>3. fio \in Seq(Respostas) /\ cadeia \in Seq(Tarefas)
  BY <1>2
<1> DEFINE Comecado ==
             /\ partida \in Partidas(roster) /\ ~partida.terminou /\ partida.vivos = roster
             /\ conexao \in [Jogadores -> Soquetes \cup {Nada}]
             /\ soquete \in [Soquetes -> [fase : Fases, anterior : Soquetes \cup {Nada}]]
             /\ \A j \in Jogadores : conexao[j] # Nada => Dono(conexao[j]) = j
             /\ \A s \in Soquetes : soquete[s].anterior = Nada
             /\ naoInicio \in {Nada, "dez", "teto"} /\ velha \in BOOLEAN /\ abertas \in Nat
             /\ \A j \in roster : partida.presenca[j] = "conectado" <=> conexao[j] # Nada
<1>4. ASSUME RecemEncaminhada PROVE Comecado
  <2>1. /\ partida = Comeco("preparada", "em_reconexao")
        /\ conexao = [j \in Jogadores |-> Nada]
        /\ soquete = [s \in Soquetes |-> [fase |-> "livre", anterior |-> Nada]]
        /\ naoInicio = "teto" /\ velha = FALSE /\ abertas = 0
    BY <1>4 DEF RecemEncaminhada
  <2>2. /\ partida \in Partidas(roster) /\ ~partida.terminou /\ partida.vivos = roster
        /\ \A j \in roster : partida.presenca[j] = "em_reconexao"
    BY <1>1, <2>1, ComecoTipado
  <2>3. /\ soquete \in [Soquetes -> [fase : Fases, anterior : Soquetes \cup {Nada}]]
        /\ \A s \in Soquetes : soquete[s].anterior = Nada
    BY <2>1 DEF Fases
  <2>4. /\ conexao \in [Jogadores -> Soquetes \cup {Nada}]
        /\ \A j \in Jogadores : conexao[j] = Nada
    BY <2>1
  <2>5. QED
    BY <1>1, <2>1, <2>2, <2>3, <2>4
<1>5. ASSUME JaEmAndamento PROVE Comecado
  <2>1. /\ roster = Reunidos
        /\ partida = Comeco("em_andamento", "conectado")
        /\ conexao = [j \in Jogadores |->
             IF j \in roster THEN CHOOSE s \in Soquetes : Dono(s) = j ELSE Nada]
        /\ soquete = [s \in Soquetes |->
             [fase     |-> IF conexao[Dono(s)] = s THEN "admitido" ELSE "livre",
              anterior |-> Nada]]
        /\ naoInicio = Nada /\ velha = TRUE /\ abertas = MaxConexoes
    BY <1>5 DEF JaEmAndamento
  <2>2. /\ partida \in Partidas(roster) /\ ~partida.terminou /\ partida.vivos = roster
        /\ \A j \in roster : partida.presenca[j] = "conectado"
    BY <1>1, <2>1, ComecoTipado
  <2>3. /\ soquete \in [Soquetes -> [fase : Fases, anterior : Soquetes \cup {Nada}]]
        /\ \A s \in Soquetes : soquete[s].anterior = Nada
    BY <2>1 DEF Fases
  <2>4. ASSUME NEW j \in Jogadores
        PROVE  /\ conexao[j] \in Soquetes \cup {Nada}
               /\ conexao[j] # Nada => Dono(conexao[j]) = j
               /\ j \in roster => conexao[j] # Nada
    <3>1. CASE j \in roster
      <4>1. conexao[j] = CHOOSE s \in Soquetes : Dono(s) = j
        BY <2>1, <3>1
      <4>2. \E s \in Soquetes : Dono(s) = j
        BY <2>1, <3>1, VidaAssumption
      <4>3. conexao[j] \in Soquetes /\ Dono(conexao[j]) = j
        BY <4>1, <4>2
      <4>4. QED
        BY <4>3, VidaAssumption
    <3>2. CASE j \notin roster
      BY <2>1, <3>2
    <3>3. QED
      BY <3>1, <3>2
  <2>5. conexao \in [Jogadores -> Soquetes \cup {Nada}]
    <3> DEFINE c(j) == IF j \in roster THEN CHOOSE s \in Soquetes : Dono(s) = j ELSE Nada
    <3>1. conexao = [j \in Jogadores |-> c(j)]
      BY <2>1
    <3>2. \A j \in Jogadores : conexao[j] = c(j)
      BY <3>1
    <3> HIDE DEF c
    <3>3. QED
      BY <2>4, <3>1, <3>2
  <2>6. MaxConexoes \in Nat
    BY VidaAssumption
  <2>7. QED
    BY <1>1, <2>1, <2>2, <2>3, <2>4, <2>5, <2>6
<1>6. Comecado
  BY <1>4, <1>5 DEF Init
<1>7. Tipos
  BY <1>1, <1>2, <1>3, <1>6 DEF Tipos
<1>8. QED
  BY <1>1, <1>2, <1>6, <1>7

LEMMA InicioVida ==
  ASSUME Init
  PROVE  Vida
<1>1. /\ Tipos /\ fio = <<>> /\ partida # Nada /\ ~partida.terminou /\ partida.vivos = roster
      /\ \A j \in roster : partida.presenca[j] = "conectado" <=> conexao[j] # Nada
  BY InicioTipado
<1>2. /\ pendente = {} /\ cadeia = <<>> /\ devido = Nada /\ avisos = {} /\ retornos = {}
      /\ enviado = FALSE /\ sala = [estado |-> "encaminhada", ativos |-> roster] /\ noAr = TRUE
  BY DEF Init
<1>3. Corrente /\ Lote /\ Reenvios /\ Recados /\ Parado
  BY <1>1, <1>2 DEF Corrente, EmCurso, Lote, Reenvios, Recados, Parado
<1>4. NoTempo /\ Regular /\ Devolucao /\ PendenteACaminho /\ Cancelamento /\ PresencaSegueRegistro
  BY <1>1, <1>2 DEF NoTempo, Regular, Devolucao, PendenteACaminho, PendenteParado, Cancelamento,
     PresencaSegueRegistro
<1>5. Bastam
  BY <1>1, Elenco DEF Bastam
<1>6. QED
  BY <1>1, <1>3, <1>4, <1>5 DEF Vida

LEMMA PassoVida ==
  ASSUME Vida, Next
  PROVE  Vida' /\ PassoDaCadeia
<1>1. Tipos' /\ PassoDaCadeia /\ PassoDoRecado
  BY PassoClassificado, RecadoDoPasso DEF Vida
<1>2. PassoDaDevolucao
  BY <1>1, PassoDevolve DEF Vida
<1>3. Corrente' /\ Lote' /\ NoTempo' /\ Bastam'
  BY <1>1, CorrenteFica, LoteFica, NoTempoFica, BastamFica DEF Vida
<1>4. Parado' /\ Recados' /\ Cancelamento' /\ PresencaSegueRegistro'
  BY <1>1, ParadoFica, RecadosFicam, CancelamentoFica, PresencaFica DEF Vida
<1>5. Regular' /\ Devolucao' /\ Reenvios' /\ PendenteACaminho'
  BY <1>1, <1>2, <1>3, DevolucaoFica, ReenviosFicam, PendenteFica DEF Vida
<1>6. QED
  BY <1>1, <1>3, <1>4, <1>5 DEF Vida

LEMMA VidaParada ==
  ASSUME Vida, UNCHANGED vars
  PROVE  Vida'
<1>1. UNCHANGED <<partida, janela, pendente, conexao, soquete, naoInicio, velha, expira, fio,
                  cadeia, devido, avisos, retornos, enviado, sala, orfaos, roster, noAr,
                  quedas, abertas, cedo>>
  BY DEF vars, redis, memoria, lobby
<1>2. Tipos' /\ Corrente' /\ Parado' /\ NoTempo' /\ Bastam'
  BY <1>1 DEF Vida, Tipos, Corrente, EmCurso, Parado, NoTempo, Bastam
<1>3. Lote' /\ Reenvios' /\ Regular' /\ Devolucao' /\ PresencaSegueRegistro'
  BY <1>1 DEF Vida, Lote, Certa, Diz, Fim, Reenvios, Regular, Devolucao, PresencaSegueRegistro
<1>a. PendenteACaminho'
  BY <1>1 DEF Vida, PendenteACaminho, PendenteParado, Retomada, Encerrada
<1>4. Recados' /\ Cancelamento'
  BY <1>1 DEF Vida, Recados, Cancelamento, Nula, Cancela
<1>5. QED
  BY <1>2, <1>3, <1>a, <1>4 DEF Vida

(***************************************************************************)
(* The inductive invariant: types, one mutation at a time, replies that    *)
(* stay true, the devolution of the Sala, the order of cancellation and    *)
(* admissions, presence as the registry has it.                            *)
(***************************************************************************)
THEOREM VidaInvariante == Spec => []Vida
<1>1. Init => Vida
  BY InicioVida
<1>2. Vida /\ [Next]_vars => Vida'
  BY PassoVida, VidaParada
<1>3. QED
  BY <1>1, <1>2, PTL DEF Spec

(* At most one reply of a mutation on its way, or one owed return.         *)
LEMMA UmaMutacao ==
  ASSUME Tipos, Corrente
  PROVE  Cardinality(EmCurso) + (IF devido = Nada THEN 0 ELSE 1)
           = IF cadeia = <<>> THEN 0 ELSE 1
<1>1. CASE EmCurso = {}
  BY <1>1, FS_EmptySet DEF Corrente
<1>2. CASE EmCurso # {}
  <2>1. PICK i : EmCurso = {i}
    BY <1>2 DEF Corrente
  <2>2. Cardinality(EmCurso) = 1
    BY <2>1, FS_Singleton
  <2>3. devido = Nada /\ cadeia # <<>>
    BY <1>2 DEF Corrente
  <2>4. QED
    BY <2>2, <2>3
<1>3. QED
  BY <1>1, <1>2

LEMMA VidaTipada ==
  ASSUME Vida
  PROVE  TypeOK
<1>1. Tipos /\ Corrente
  BY DEF Vida
<1>2. \A s \in Soquetes : soquete[s].fase \in Fases
  BY <1>1 DEF Tipos
<1>3. \A j \in Jogadores : conexao[j] # Nada => conexao[j] \in Soquetes /\ Dono(conexao[j]) = j
  BY <1>1 DEF Tipos
<1>4. QED
  BY <1>1, <1>2, <1>3, UmaMutacao DEF TypeOK, Tipos, Fases

(***************************************************************************)
(* The state of a match has its type, the connection in force is a socket  *)
(* of its Jogador, and the chain of mutations has one reply on its way or  *)
(* one return to send exactly when it is not empty.                        *)
(***************************************************************************)
THEOREM TiposDaPartida == Spec => []TypeOK
  BY VidaInvariante, VidaTipada, PTL

(***************************************************************************)
(* Before any crash the presence in Redis is that of the registry of       *)
(* connections: the substituted socket that closes late changes nothing    *)
(* (ws.ts, marcarDesconexaoEArmarJanela), and the only connection given up *)
(* after its transition belongs to a match that is gone.                   *)
(***************************************************************************)
THEOREM PresencaDoRegistro == Spec => []PresencaSegueRegistro
<1>1. Vida => PresencaSegueRegistro
  BY DEF Vida
<1>2. QED
  BY <1>1, VidaInvariante, PTL

(***************************************************************************)
(* The Sala reopens only when its match is gone or has a result: a return  *)
(* is sent by the post-batch work of a match that ended or by the não-     *)
(* início that removed it, and neither is undone.                          *)
(***************************************************************************)
THEOREM AbertaSemPartida == Spec => []SalaAbertaSemPartida
<1>1. Vida => SalaAbertaSemPartida
  BY DevolucaoMostra DEF Vida
<1>2. QED
  BY <1>1, VidaInvariante, PTL

(***************************************************************************)
(* When the return of a término was sent and concluded, the Sala is open   *)
(* with exactly those who still were in the match, although detaches may   *)
(* come before, after or twice: they only name who left.                   *)
(***************************************************************************)
THEOREM RetornoDevolveASala == Spec => []RetornoReabre
<1>1. Vida => RetornoReabre
  BY DevolucaoMostra DEF Vida
<1>2. QED
  BY <1>1, VidaInvariante, PTL

(***************************************************************************)
(* Nobody is left admitted in a match that was cancelled: an admission     *)
(* whose transition came before the DEL is concluded before the reply that *)
(* closes everyone, and one that came after finds no match.                *)
(***************************************************************************)
THEOREM CanceladaFicaVazia == Spec => []NinguemEmPartidaCancelada
<1>1. Vida => NinguemEmPartidaCancelada
  BY DEF Vida, Cancelamento, NinguemEmPartidaCancelada
<1>2. QED
  BY <1>1, VidaInvariante, PTL

(***************************************************************************)
(* A pending return that survived a crash is not forgotten once somebody   *)
(* is admitted to the finished match: this process has sent it, or a reply *)
(* of Redis that leads to it is on its way (ws.ts, lerRetornoPendente,     *)
(* tentarCompletarRetornoPendente), whatever else is handled in between.   *)
(***************************************************************************)
THEOREM PendenteRetomado == Spec => []PendenteACaminho
<1>1. Vida => PendenteACaminho
  BY DEF Vida
<1>2. QED
  BY <1>1, VidaInvariante, PTL

(***************************************************************************)
(* The não-início removes only a match that is preparada at the moment of  *)
(* the removal (SCRIPT_CANCELAR_SE_NAO_INICIADA): one that started is      *)
(* never removed.                                                          *)
(***************************************************************************)
THEOREM IniciadaNaoSome == Spec => EmAndamentoNaoCancela
<1>1. Vida /\ [Next]_vars => [EmAndamento => partida' # Nada]_vars
  <2>1. ASSUME Vida, Next PROVE EmAndamento => partida' # Nada
    BY <2>1, PassoVida, NaoRemoveIniciada DEF Vida
  <2>2. QED
    BY <2>1
<1>2. QED
  BY <1>1, VidaInvariante, PTL DEF Spec, EmAndamentoNaoCancela
=============================================================================
