SPECIFICATION SpecA
CONSTANTS
  p1 = p1
  p2 = p2
  p3 = p3
  f1 = f1
  f2 = f2
  Nadie = Nadie
  Procesos = {p1, p2}
  Recursos = {}
  Instancias <- SinRecursos
  Grado = 3
  Algoritmo = "FIFO"
  MaxInstancias = 0
  MaxReady = 3
  MaxPermisos = 3
  MaxOperaciones = 3
  NombresDeArchivo = {f1}
  Usa <- UsanTodo
  OperacionesES = {"F_WRITE"}
  PuedeFallar = FALSE
  CierranAlSalir = FALSE
CHECK_DEADLOCK FALSE
PROPERTY DespiertaAlQuePidio
