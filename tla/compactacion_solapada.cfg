SPECIFICATION SpecP
CONSTANTS
  p1 = p1
  p2 = p2
  p3 = p3
  f1 = f1
  f2 = f2
  Nadie = Nadie
  Procesos = {p1, p2, p3}
  Recursos = {}
  Instancias <- SinRecursos
  Grado = 3
  Algoritmo = "FIFO"
  MaxInstancias = 0
  MaxReady = 3
  MaxPermisos = 3
  MaxOperaciones = 3
  MaxEspera = 2
  NombresDeArchivo = {f1, f2}
  Usa <- UnoCadaUno
  OperacionesES = {"F_WRITE"}
  PuedeFallar = FALSE
  CierranAlSalir = FALSE
  CreanSegmentos = {p3}
CHECK_DEADLOCK FALSE
INVARIANT CompactaSinOperaciones
